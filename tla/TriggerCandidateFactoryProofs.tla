------------------- MODULE TriggerCandidateFactoryProofs -------------------
(***************************************************************************)
(* The TC makers of the factory, for every stream of TAs, late ones        *)
(* included, and every configuration: what their windows keep, what they   *)
(* let go, and that each of them follows the windowing discipline.         *)
(***************************************************************************)
EXTENDS TriggerCandidateFactory, InputListLemmas

-----------------------------------------------------------------------------
(* The list of a TAWindow *)

\* What a TA is.
LEMMA TAType ==
  ASSUME NEW ta \in TriggerActivity
  PROVE  /\ ta.time_start \in Times /\ ta.time_start \in Nat /\ ta.id \in Nat
         /\ ta.adc_integral \in Nat /\ ta.adc_integral \in 0 .. AdcModulus - 1
<1>1. ta.time_start \in Times /\ ta.adc_integral \in AdcValues /\ ta.id \in Nat
  BY DEF TriggerActivity
<1>2. ta.time_start \in Nat
  <2>1. ta.time_start \in Timestamps  BY <1>1, TAAssumption
  <2> QED  BY <2>1, TimeModulusAssumption DEF Timestamps
<1>3. ta.adc_integral \in Nat  BY <1>1, TAAssumption DEF AdcValues
<1>4. ta.adc_integral \in 0 .. AdcModulus - 1  BY <1>1, TAWindowAssumption
<1> QED  BY <1>1, <1>2, <1>3, <1>4

\* r is the list s with e put after its first n elements, none of which is
\* later than e; the next one is.
Inserted(s, e, n, r) ==
  /\ n \in 0 .. Len(s)
  /\ r \in Seq(TriggerActivity) /\ Len(r) = Len(s) + 1
  /\ \A i \in 1 .. n : r[i] = s[i] /\ s[i].time_start <= e.time_start
  /\ r[n + 1] = e
  /\ \A i \in (n + 1) .. Len(s) : r[i + 1] = s[i]
  /\ n < Len(s) => e.time_start < s[n + 1].time_start

\* The place insert() looks for exists in every list, in order or not.
LEMMA PlaceExists ==
  ASSUME NEW s \in Seq(TriggerActivity), NEW ta \in TriggerActivity
  PROVE  LET n == insert_at(s, ta.time_start)
         IN  /\ n \in 0 .. Len(s)
             /\ \A i \in 1 .. n : s[i].time_start <= ta.time_start
             /\ n < Len(s) => ta.time_start < s[n + 1].time_start
<1> DEFINE Later == { k \in 1 .. Len(s) : ta.time_start < s[k].time_start }
           Fits(n) == /\ \A i \in 1 .. n : s[i].time_start <= ta.time_start
                      /\ n < Len(s) => ta.time_start < s[n + 1].time_start
<1>0. Len(s) \in Nat /\ \A i \in 1 .. Len(s) : s[i].time_start \in Nat
  BY TAType
<1>1. ta.time_start \in Nat  BY TAType
<1>2. \E n \in 0 .. Len(s) : Fits(n)
  <2>1. CASE Later = {}
    <3>1. PICK m \in Nat : m = Len(s)  OBVIOUS
    <3>2. ASSUME NEW i \in 1 .. m PROVE s[i].time_start <= ta.time_start
      <4>1. ~ (ta.time_start < s[i].time_start)  BY <2>1, <3>1
      <4> QED  BY <1>0, <1>1, <3>1, <4>1
    <3>3. Fits(m)  BY <3>1, <3>2
    <3>4. m \in 0 .. Len(s)  BY <3>1
    <3> HIDE DEF Fits
    <3> QED  BY <3>3, <3>4
  <2>2. CASE Later # {}
    <3>1. Later \in SUBSET Nat  BY <1>0
    <3>2. PICK m \in Later : \A k \in Later : m <= k
      BY <2>2, <3>1, LeastElement
    <3>3. m \in 1 .. Len(s) /\ m - 1 \in 0 .. Len(s) /\ (m - 1) + 1 = m  BY <1>0
    <3>4. ASSUME NEW i \in 1 .. (m - 1) PROVE s[i].time_start <= ta.time_start
      <4>1. i \in 1 .. Len(s) /\ ~ (m <= i)  BY <1>0, <3>3
      <4>2. ~ (ta.time_start < s[i].time_start)  BY <3>2, <4>1
      <4> QED  BY <1>0, <1>1, <4>1, <4>2
    <3>5. Fits(m - 1)  BY <3>3, <3>4
    <3> QED  BY <3>3, <3>5
  <2> QED  BY <2>1, <2>2
<1>3. insert_at(s, ta.time_start) = CHOOSE n \in 0 .. Len(s) : Fits(n)
  BY DEF insert_at
<1> HIDE DEF Fits
<1>4. LET n == insert_at(s, ta.time_start) IN n \in 0 .. Len(s) /\ Fits(n)
  BY <1>2, <1>3
<1> QED  BY <1>4 DEF Fits

\* insert() puts a TA behind those that are not later, and nothing else.
LEMMA InsertPlaces ==
  ASSUME NEW s \in Seq(TriggerActivity), NEW ta \in TriggerActivity
  PROVE  /\ \E n \in 0 .. Len(s) : Inserted(s, ta, n, insert(s, ta))
         /\ Range(insert(s, ta)) = Range(s) \cup {ta}
         /\ TotalAdc(insert(s, ta)) = TotalAdc(s) + ta.adc_integral
<1>1. PICK m \in Nat : m = Len(s)  OBVIOUS
<1>2. PICK n \in 0 .. m :
        /\ n = insert_at(s, ta.time_start)
        /\ \A i \in 1 .. n : s[i].time_start <= ta.time_start
        /\ n < m => ta.time_start < s[n + 1].time_start
  BY <1>1, PlaceExists
<1>3. \A i \in 1 .. m : s[i] \in TriggerActivity  BY <1>1
<1>4. PICK p \in Seq(TriggerActivity) :
        p = SubSeq(s, 1, n) /\ Len(p) = n /\ \A i \in 1 .. n : p[i] = s[i]
  <2>1. /\ SubSeq(s, 1, n) \in Seq(TriggerActivity)
        /\ Len(SubSeq(s, 1, n)) = n
        /\ \A i \in 1 .. n : SubSeq(s, 1, n)[i] = s[i]
    BY <1>1, <1>2
  <2> QED  BY <2>1
<1>5. PICK q \in Seq(TriggerActivity) :
        /\ q = SubSeq(s, n + 1, m) /\ Len(q) = m - n
        /\ \A i \in 1 .. (m - n) : q[i] = s[n + i]
  <2>1. /\ SubSeq(s, n + 1, m) \in Seq(TriggerActivity)
        /\ Len(SubSeq(s, n + 1, m)) = m - n
        /\ \A i \in 1 .. (m - n) : SubSeq(s, n + 1, m)[i] = s[n + i]
    <3>1. n + 1 \in 1 .. (m + 1) /\ m = Len(s) /\ m - n = m - (n + 1) + 1  BY <1>1, <1>2
    <3>2. PICK a \in 1 .. (m + 1) : a = n + 1  BY <3>1
    <3>3. /\ SubSeq(s, a, m) \in Seq(TriggerActivity)
          /\ Len(SubSeq(s, a, m)) = m - a + 1
          /\ \A i \in 1 .. (m - a + 1) : SubSeq(s, a, m)[i] = s[(a - 1) + i]
      BY <1>1
    <3>4. PICK l : l = SubSeq(s, a, m)  OBVIOUS
    <3>5. a - 1 = n /\ m - a + 1 = m - n  BY <1>2, <3>2
    <3>6. l \in Seq(TriggerActivity) /\ Len(l) = m - n /\ \A i \in 1 .. (m - n) : l[i] = s[n + i]
      BY <3>3, <3>4, <3>5
    <3> QED  BY <3>2, <3>4, <3>6
  <2> QED  BY <2>1
<1>6. PICK o \in Seq(TriggerActivity) : o = <<ta>> /\ Len(o) = 1 /\ o[1] = ta
  <2>1. <<ta>> \in Seq(TriggerActivity) /\ Len(<<ta>>) = 1 /\ <<ta>>[1] = ta  OBVIOUS
  <2> QED  BY <2>1
<1>7. PICK f \in Seq(TriggerActivity) :
        /\ f = p \o o /\ Len(f) = n + 1
        /\ \A i \in 1 .. (n + 1) : f[i] = IF i <= n THEN p[i] ELSE o[i - n]
  <2>1. PICK f \in Seq(TriggerActivity) : f = p \o o  BY ConcatProperties
  <2>2. /\ Len(f) = Len(p) + Len(o)
        /\ \A i \in 1 .. Len(p) + Len(o) : f[i] = IF i <= Len(p) THEN p[i] ELSE o[i - Len(p)]
    BY <2>1, ConcatProperties
  <2>3. Len(p) + Len(o) = n + 1  BY <1>4, <1>6
  <2> QED  BY <1>4, <2>1, <2>2, <2>3
<1>8. PICK r \in Seq(TriggerActivity) :
        /\ r = f \o q /\ Len(r) = m + 1
        /\ \A i \in 1 .. (m + 1) : r[i] = IF i <= n + 1 THEN f[i] ELSE q[i - (n + 1)]
  <2>1. PICK r \in Seq(TriggerActivity) : r = f \o q  BY ConcatProperties
  <2>2. /\ Len(r) = Len(f) + Len(q)
        /\ \A i \in 1 .. Len(f) + Len(q) : r[i] = IF i <= Len(f) THEN f[i] ELSE q[i - Len(f)]
    BY <2>1, ConcatProperties
  <2>3. Len(f) + Len(q) = m + 1  BY <1>2, <1>5, <1>7
  <2> QED  BY <1>7, <2>1, <2>2, <2>3
<1>9. r = insert(s, ta)
  BY <1>1, <1>2, <1>4, <1>5, <1>6, <1>7, <1>8 DEF insert
<1>10. Inserted(s, ta, n, r)
  <2>1. ASSUME NEW i \in 1 .. n PROVE r[i] = s[i]
    <3>1. i \in 1 .. (m + 1) /\ i \in 1 .. (n + 1) /\ i <= n + 1 /\ i <= n  BY <1>2
    <3> QED  BY <1>4, <1>7, <1>8, <3>1
  <2>2. r[n + 1] = ta
    <3>1. /\ n + 1 \in 1 .. (m + 1) /\ n + 1 \in 1 .. (n + 1) /\ n + 1 <= n + 1
          /\ ~ (n + 1 <= n) /\ (n + 1) - n = 1
      BY <1>2
    <3> QED  BY <1>6, <1>7, <1>8, <3>1
  <2>3. ASSUME NEW i \in (n + 1) .. m PROVE r[i + 1] = s[i]
    <3>1. /\ i + 1 \in 1 .. (m + 1) /\ ~ (i + 1 <= n + 1) /\ (i + 1) - (n + 1) = i - n
          /\ i - n \in 1 .. (m - n) /\ n + (i - n) = i
      BY <1>2
    <3> QED  BY <1>5, <1>8, <3>1
  <2> QED  BY <1>1, <1>2, <1>8, <2>1, <2>2, <2>3 DEF Inserted
<1>11. s = p \o q
  <2>1. SubSeq(s, 1, n) \o SubSeq(s, n + 1, m) = SubSeq(s, 1, m)
    <3>1. 1 \in 1 .. Len(s) + 1 /\ n \in 1 - 1 .. Len(s) /\ m \in n .. Len(s)
      BY <1>1, <1>2
    <3> QED  BY <3>1, ConcatAdjacentSubSeq
  <2>2. SubSeq(s, 1, m) = s  BY <1>1, SubSeqFull
  <2> QED  BY <1>4, <1>5, <2>1, <2>2
<1>12. Range(r) = Range(s) \cup {ta}
  <2>1. Range(f) = Range(p) \cup Range(o)  BY <1>7, RangeConcatenation
  <2>2. Range(r) = Range(f) \cup Range(q)  BY <1>8, RangeConcatenation
  <2>3. Range(s) = Range(p) \cup Range(q)  BY <1>11, RangeConcatenation
  <2>4. Range(o) = {ta}  BY <1>6, RangeOfOne
  <2> QED  BY <2>1, <2>2, <2>3, <2>4
<1>13. TotalAdc(r) = TotalAdc(s) + ta.adc_integral
  <2>0. \A e \in TriggerActivity : e.adc_integral \in Nat  BY TAType
  <2>1. TotalAdc(f) = TotalAdc(p) + TotalAdc(o)  BY <1>7, <2>0, TotalAdcConcat
  <2>2. TotalAdc(r) = TotalAdc(f) + TotalAdc(q)  BY <1>8, <2>0, TotalAdcConcat
  <2>3. TotalAdc(s) = TotalAdc(p) + TotalAdc(q)  BY <1>11, <2>0, TotalAdcConcat
  <2>4. TotalAdc(o) = ta.adc_integral  BY <1>6, <2>0, TotalAdcOne
  <2>5. TotalAdc(p) \in Nat /\ TotalAdc(q) \in Nat /\ ta.adc_integral \in Nat
    BY <2>0, TotalAdcType
  <2> QED  BY <2>1, <2>2, <2>3, <2>4, <2>5
<1> QED  BY <1>1, <1>9, <1>10, <1>12, <1>13

-----------------------------------------------------------------------------
(* The methods of a TAWindow *)

\* The charge a window keeps is that of its list.
Charged(w) ==
  /\ w.inputs \in Seq(TriggerActivity)
  /\ w.adc_integral \in Nat
  /\ ChargeAgrees(w)

\* A TA that fits a time is not before it: the windows are short.
Short(length) ==
  length \in Nat /\ \A s, t \in Times : s < t => ~ fits(s, t, length)

LEMMA ResetKeeps ==
  ASSUME NEW w, NEW ta \in TriggerActivity, NEW length
  PROVE  LET u == reset(w, ta)
         IN  /\ Charged(u) /\ SpanAgrees(u, length)
             /\ u.inputs = <<ta>> /\ u.inputs # <<>> /\ Range(u.inputs) = {ta}
<1> DEFINE u == reset(w, ta)
<1>1. /\ u.time_start = ta.time_start /\ u.adc_integral = ta.adc_integral
      /\ u.inputs = <<ta>>
  BY DEF reset
<1> HIDE DEF u
<1>2. TotalAdc(<<ta>>) = ta.adc_integral
  <2>1. \A e \in TriggerActivity : e.adc_integral \in Nat  BY TAType
  <2> QED  BY <2>1, TotalAdcOne
<1>3. ta.adc_integral % AdcModulus = ta.adc_integral
  BY TAType, TAWindowAssumption
<1>4. <<ta>> \in Seq(TriggerActivity) /\ <<ta>> # <<>>  OBVIOUS
<1>5. Charged(u)
  BY <1>1, <1>2, <1>3, <1>4, TAType DEF Charged, ChargeAgrees
<1>6. Len(<<ta>>) = 1 /\ <<ta>>[1] = ta /\ DOMAIN <<ta>> = {1} /\ 2 .. 1 = {}  OBVIOUS
<1>7. SpanAgrees(u, length)
  <2>1. \A i, j \in {1} : ~ (i < j)  OBVIOUS
  <2> QED  BY <1>1, <1>6, <2>1 DEF SpanAgrees
<1> QED  BY <1>1, <1>4, <1>5, <1>7, RangeOfOne DEF u

\* add() keeps the charge whatever the window,
LEMMA AddKeeps ==
  ASSUME NEW w, Charged(w), NEW ta \in TriggerActivity
  PROVE  LET u == add(w, ta)
         IN  /\ Charged(u) /\ u.inputs # <<>>
             /\ Range(u.inputs) = Range(w.inputs) \cup {ta}
<1> DEFINE u == add(w, ta)
<1>1. /\ u.adc_integral = (w.adc_integral + ta.adc_integral) % AdcModulus
      /\ u.inputs = insert(w.inputs, ta)
  BY DEF add, UIntPlus
<1> HIDE DEF u
<1>2. PICK s \in Seq(TriggerActivity) : s = w.inputs  BY DEF Charged
<1>3. PICK r : r = insert(s, ta) /\ r = u.inputs
  BY <1>1, <1>2
<1>4. /\ u.inputs \in Seq(TriggerActivity) /\ Len(u.inputs) = Len(s) + 1
      /\ Range(u.inputs) = Range(s) \cup {ta}
      /\ TotalAdc(u.inputs) = TotalAdc(s) + ta.adc_integral
  <2>1. /\ \E n \in 0 .. Len(s) : Inserted(s, ta, n, r)
        /\ Range(r) = Range(s) \cup {ta}
        /\ TotalAdc(r) = TotalAdc(s) + ta.adc_integral
    BY <1>3, InsertPlaces
  <2>2. r \in Seq(TriggerActivity) /\ Len(r) = Len(s) + 1
    BY <2>1 DEF Inserted
  <2> QED  BY <1>3, <2>1, <2>2
<1>5. u.inputs # <<>>
  <2>1. Len(s) \in Nat /\ Len(<<>>) = 0  OBVIOUS
  <2> QED  BY <1>4, <2>1
<1>6. u.adc_integral \in Nat /\ u.adc_integral = TotalAdc(u.inputs) % AdcModulus
  <2>0. \A e \in TriggerActivity : e.adc_integral \in Nat  BY TAType
  <2>1. PICK a \in Int : a = TotalAdc(s)  BY <2>0, TotalAdcType
  <2>2. PICK b \in Int : b = ta.adc_integral  BY <2>0
  <2>3. ((a % AdcModulus) + b) % AdcModulus = (a + b) % AdcModulus
    BY ModPlus, TAWindowAssumption
  <2>4. w.adc_integral = a % AdcModulus  BY <1>2, <2>1 DEF Charged, ChargeAgrees
  <2>5. TotalAdc(u.inputs) = a + b  BY <1>4, <2>1, <2>2
  <2>6. (a + b) % AdcModulus \in Nat  BY TAWindowAssumption
  <2> QED  BY <1>1, <2>2, <2>3, <2>4, <2>5, <2>6
<1> QED  BY <1>2, <1>4, <1>5, <1>6 DEF Charged, ChargeAgrees, u

\* and its span when the TA fits: it goes behind the first one.
LEMMA AddKeepsSpan ==
  ASSUME NEW w, w.inputs \in Seq(TriggerActivity), w.inputs # <<>>,
         NEW length, Short(length), SpanAgrees(w, length),
         NEW ta \in TriggerActivity, fits(ta.time_start, w.time_start, length)
  PROVE  SpanAgrees(add(w, ta), length)
<1>1. PICK s \in Seq(TriggerActivity) : s = w.inputs  OBVIOUS
<1>2. PICK m \in Nat : m = Len(s) /\ m >= 1 /\ DOMAIN s = 1 .. m
  BY <1>1
<1>3. PICK u : u = add(w, ta)  OBVIOUS
<1>4. PICK r : r = insert(s, ta) /\ u.inputs = r /\ u.time_start = w.time_start
  BY <1>1, <1>3 DEF add
<1>5. PICK n \in 0 .. m : Inserted(s, ta, n, r)
  BY <1>2, <1>4, InsertPlaces
<1>6. /\ \A i \in 1 .. m : s[i] \in TriggerActivity /\ s[i].time_start \in Nat
      /\ \A i \in 1 .. m : s[i].time_start \in Times
      /\ ta.time_start \in Times /\ ta.time_start \in Nat
  BY <1>2, TAType
<1>7. /\ w.time_start = s[1].time_start
      /\ \A i, j \in 1 .. m : i < j => s[i].time_start <= s[j].time_start
      /\ \A i \in 2 .. m : fits(s[i].time_start, w.time_start, length)
  BY <1>1, <1>2 DEF SpanAgrees
<1>8. n >= 1
  <2>1. ~ (ta.time_start < s[1].time_start)
    <3>1. 1 \in 1 .. m  BY <1>2
    <3> QED  BY <1>6, <1>7, <3>1 DEF Short
  <2>2. n # 0
    <3> SUFFICES ASSUME n = 0 PROVE FALSE
      OBVIOUS
    <3>1. n < m /\ n + 1 = 1  BY <1>2
    <3> QED  BY <1>2, <1>5, <2>1, <3>1 DEF Inserted
  <2> QED  BY <2>2
<1>9. /\ r \in Seq(TriggerActivity) /\ Len(r) = m + 1 /\ DOMAIN r = 1 .. (m + 1)
      /\ \A i \in 1 .. n : r[i] = s[i] /\ s[i].time_start <= ta.time_start
      /\ r[n + 1] = ta
      /\ \A i \in (n + 1) .. m : r[i + 1] = s[i]
      /\ n < m => ta.time_start < s[n + 1].time_start
  BY <1>2, <1>5 DEF Inserted
\* Where an element of the new list comes from.
<1>10. ASSUME NEW i \in 1 .. (m + 1)
       PROVE  \/ i \in 1 .. n /\ i \in 1 .. m /\ r[i] = s[i]
              \/ i = n + 1 /\ r[i] = ta
              \/ i > n + 1 /\ i - 1 \in (n + 1) .. m /\ i - 1 \in 1 .. m /\ r[i] = s[i - 1]
  <2>1. CASE i <= n  BY <1>9, <2>1
  <2>2. CASE i = n + 1  BY <1>9, <2>2
  <2>3. CASE i > n + 1
    <3>1. i - 1 \in (n + 1) .. m /\ i - 1 \in 1 .. m /\ (i - 1) + 1 = i  BY <2>3
    <3> QED  BY <1>9, <2>3, <3>1
  <2> QED  BY <2>1, <2>2, <2>3
<1>11. \A k \in (n + 1) .. m : ta.time_start <= s[k].time_start
  <2>1. ASSUME NEW k \in (n + 1) .. m PROVE ta.time_start <= s[k].time_start
    <3>1. n < m /\ n + 1 \in 1 .. m /\ k \in 1 .. m  OBVIOUS
    <3>2. ta.time_start < s[n + 1].time_start  BY <1>9, <3>1
    <3>3. s[n + 1].time_start <= s[k].time_start
      <4>1. CASE k = n + 1  BY <1>6, <3>1, <4>1
      <4>2. CASE k # n + 1
        <5>1. n + 1 < k  BY <4>2
        <5> QED  BY <1>7, <3>1, <5>1
      <4> QED  BY <4>1, <4>2
    <3> QED  BY <1>6, <3>1, <3>2, <3>3
  <2> QED  BY <2>1
<1>12. ASSUME NEW i \in 1 .. (m + 1), NEW j \in 1 .. (m + 1), i < j
       PROVE  r[i].time_start <= r[j].time_start
  <2>1. CASE i \in 1 .. n /\ r[i] = s[i]
    <3>1. CASE j \in 1 .. n /\ r[j] = s[j]
      <4>1. i \in 1 .. m /\ j \in 1 .. m  BY <2>1, <3>1
      <4> QED  BY <1>7, <1>12, <2>1, <3>1, <4>1
    <3>2. CASE r[j] = ta  BY <1>9, <2>1, <3>2
    <3>3. CASE j - 1 \in (n + 1) .. m /\ r[j] = s[j - 1]
      <4>1. i \in 1 .. m /\ j - 1 \in 1 .. m /\ i < j - 1  BY <2>1, <3>3
      <4> QED  BY <1>7, <2>1, <3>3, <4>1
    <3> QED  BY <1>10, <3>1, <3>2, <3>3
  <2>2. CASE i = n + 1 /\ r[i] = ta
    <3>1. ~ (j \in 1 .. n) /\ j # n + 1  BY <1>12, <2>2
    <3>2. j - 1 \in (n + 1) .. m /\ r[j] = s[j - 1]  BY <1>10, <3>1
    <3> QED  BY <1>11, <2>2, <3>2
  <2>3. CASE i > n + 1 /\ i - 1 \in 1 .. m /\ r[i] = s[i - 1]
    <3>1. ~ (j \in 1 .. n) /\ j # n + 1  BY <1>12, <2>3
    <3>2. j - 1 \in 1 .. m /\ r[j] = s[j - 1] /\ i - 1 < j - 1  BY <1>10, <1>12, <3>1
    <3> QED  BY <1>7, <2>3, <3>2
  <2> QED  BY <1>10, <2>1, <2>2, <2>3
<1>13. ASSUME NEW i \in 2 .. (m + 1)
       PROVE  fits(r[i].time_start, w.time_start, length)
  <2>1. CASE i \in 1 .. n /\ i \in 1 .. m /\ r[i] = s[i]
    <3>1. i \in 2 .. m  BY <2>1
    <3> QED  BY <1>7, <2>1, <3>1
  <2>2. CASE r[i] = ta  BY <2>2
  <2>3. CASE i > n + 1 /\ i - 1 \in 1 .. m /\ r[i] = s[i - 1]
    <3>1. i - 1 \in 2 .. m  BY <1>8, <2>3
    <3> QED  BY <1>7, <2>3, <3>1
  <2>4. i \in 1 .. (m + 1)  OBVIOUS
  <2> QED  BY <1>10, <2>1, <2>2, <2>3, <2>4
<1>14. r[1] = s[1]
  <2>1. 1 \in 1 .. n  BY <1>8
  <2> QED  BY <1>9, <2>1
<1>15. SpanAgrees(u, length)
  BY <1>4, <1>7, <1>9, <1>12, <1>13, <1>14 DEF SpanAgrees
<1> QED  BY <1>3, <1>15

\* Erasing a front keeps both,
LEMMA EraseKeeps ==
  ASSUME NEW w, Charged(w), NEW n \in Nat, n < Len(w.inputs), NEW length \in Nat
  PROVE  LET u == erase_front(w, n)
         IN  /\ Charged(u) /\ u.inputs # <<>>
             /\ u.inputs = SubSeq(w.inputs, n + 1, Len(w.inputs))
             /\ u.time_start = w.inputs[n + 1].time_start
             /\ SpanAgrees(w, length) => SpanAgrees(u, length)
<1> DEFINE u == erase_front(w, n)
<1>1. PICK s \in Seq(TriggerActivity), m \in Nat :
        s = w.inputs /\ m = Len(s) /\ DOMAIN s = 1 .. m
  BY DEF Charged
<1>2. PICK front \in Seq(TriggerActivity) : front = SubSeq(s, 1, n)
  <2>1. SubSeq(s, 1, n) \in Seq(TriggerActivity)  BY <1>1
  <2> QED  BY <2>1
<1>3. PICK kept \in Seq(TriggerActivity) :
        /\ kept = SubSeq(s, n + 1, m) /\ Len(kept) = m - n /\ DOMAIN kept = 1 .. (m - n)
        /\ \A i \in 1 .. (m - n) : kept[i] = s[n + i]
  <2>1. n \in 0 .. Len(s)  BY <1>1
  <2>2. LET q == SubSeq(s, n + 1, Len(s))
        IN  /\ q \in Seq(TriggerActivity)
            /\ Len(q) = Len(s) - n /\ DOMAIN q = 1 .. (Len(s) - n)
            /\ \A i \in 1 .. (Len(s) - n) : q[i] = s[n + i]
            /\ Range(q) \subseteq Range(s)
    BY <2>1, EndOfList
  <2> QED  BY <1>1, <2>2
<1>4. /\ u.time_start = s[n + 1].time_start /\ u.inputs = kept
      /\ u.adc_integral = (w.adc_integral - TotalAdc(front)) % AdcModulus
  BY <1>1, <1>2, <1>3 DEF erase_front
<1> HIDE DEF u
<1>5. u.adc_integral \in Nat /\ u.adc_integral = TotalAdc(kept) % AdcModulus
  <2>0. \A e \in TriggerActivity : e.adc_integral \in Nat  BY TAType
  <2>1. TotalAdc(s) = TotalAdc(front) + TotalAdc(kept)
    <3>1. n \in 0 .. Len(s)  BY <1>1
    <3> QED  BY <1>1, <1>2, <1>3, <2>0, <3>1, TotalAdcSplit
  <2>2. TotalAdc(s) \in Nat /\ TotalAdc(front) \in Nat /\ TotalAdc(kept) \in Nat
    BY <2>0, TotalAdcType
  <2>3. PICK all \in Int : all = TotalAdc(s)  BY <2>2
  <2>4. PICK gone \in Int : gone = - TotalAdc(front)  BY <2>2
  <2>5. ((all % AdcModulus) + gone) % AdcModulus = (all + gone) % AdcModulus
    BY ModPlus, TAWindowAssumption
  <2>6. all + gone = TotalAdc(kept)  BY <2>1, <2>2, <2>3, <2>4
  <2>7. w.adc_integral = all % AdcModulus /\ all % AdcModulus \in Int
    BY <1>1, <2>3, TAWindowAssumption DEF Charged, ChargeAgrees
  <2>8. w.adc_integral - TotalAdc(front) = (all % AdcModulus) + gone
    BY <2>2, <2>4, <2>7
  <2>9. TotalAdc(kept) % AdcModulus \in Nat  BY <2>2, TAWindowAssumption
  <2> QED  BY <1>4, <2>5, <2>6, <2>8, <2>9
<1>6. kept # <<>>
  <2>1. Len(kept) # 0 /\ Len(<<>>) = 0  BY <1>1, <1>3
  <2> QED  BY <2>1
<1>7. Charged(u)  BY <1>4, <1>5 DEF Charged, ChargeAgrees
<1>8. ASSUME SpanAgrees(w, length) PROVE SpanAgrees(u, length)
  <2>1. s # <<>>
    <3>1. Len(s) # 0 /\ Len(<<>>) = 0  BY <1>1
    <3> QED  BY <3>1
  <2>2. /\ w.time_start = s[1].time_start
        /\ \A i, j \in 1 .. m : i < j => s[i].time_start <= s[j].time_start
        /\ \A i \in 2 .. m : fits(s[i].time_start, w.time_start, length)
    BY <1>1, <1>8, <2>1 DEF SpanAgrees
  <2>3. \A i \in 1 .. m : s[i].time_start \in Nat  BY <1>1, TAType
  <2>4. ASSUME NEW i \in 1 .. (m - n), NEW j \in 1 .. (m - n), i < j
        PROVE  kept[i].time_start <= kept[j].time_start
    <3>1. n + i \in 1 .. m /\ n + j \in 1 .. m /\ n + i < n + j  BY <2>4
    <3> QED  BY <1>3, <2>2, <3>1
  <2>5. ASSUME NEW i \in 2 .. (m - n)
        PROVE  fits(kept[i].time_start, s[n + 1].time_start, length)
    <3>1. PICK x \in 1 .. m, y \in 1 .. m :
            x = n + 1 /\ y = n + i /\ x < y /\ y \in 2 .. m /\ i \in 1 .. (m - n)
      BY <1>1
    <3>2. s[1].time_start <= s[x].time_start
      <4>1. CASE x = 1
        <5>1. PICK a \in Nat : a = s[x].time_start  BY <2>3
        <5>2. s[1].time_start = a /\ a <= a  BY <4>1, <5>1
        <5> QED  BY <5>1, <5>2
      <4>2. CASE x # 1
        <5>1. 1 \in 1 .. m /\ 1 < x  BY <4>2
        <5> QED  BY <2>2, <5>1
      <4> QED  BY <4>1, <4>2
    <3>3. s[x].time_start <= s[y].time_start  BY <2>2, <3>1
    <3>4. fits(s[y].time_start, s[1].time_start, length)  BY <2>2, <3>1
    <3>5. /\ s[1].time_start \in Nat /\ s[x].time_start \in Nat
          /\ s[y].time_start \in Nat
      <4>1. 1 \in 1 .. m  BY <3>1
      <4> QED  BY <2>3, <4>1
    <3>6. fits(s[y].time_start, s[x].time_start, length)
      BY <3>2, <3>3, <3>4, <3>5, FitsLater
    <3> QED  BY <1>3, <3>1, <3>6
  <2>6. kept[1] = s[n + 1]
    <3>1. 1 \in 1 .. (m - n)  BY <1>1
    <3> QED  BY <1>3, <3>1
  <2> QED  BY <1>3, <1>4, <2>4, <2>5, <2>6 DEF SpanAgrees
<1> QED  BY <1>1, <1>3, <1>4, <1>6, <1>7, <1>8 DEF u

\* and so does move(): what it loses does not fit the TA that came.
Loses(w, u, ta, length) ==
  \A e \in Range(w.inputs) \ Range(u.inputs) : ~ fits(ta.time_start, e.time_start, length)

LEMMA ErasedDoNotFit ==
  ASSUME NEW w, w.inputs \in Seq(TriggerActivity), NEW n \in 0 .. Len(w.inputs),
         NEW ta, NEW length,
         \A i \in 1 .. n : ~ fits(ta.time_start, w.inputs[i].time_start, length),
         NEW u, Range(SubSeq(w.inputs, n + 1, Len(w.inputs))) \subseteq Range(u.inputs)
  PROVE  Loses(w, u, ta, length)
<1>1. PICK s \in Seq(TriggerActivity), m \in Nat :
        s = w.inputs /\ m = Len(s) /\ DOMAIN s = 1 .. m
  OBVIOUS
<1>2. PICK kept \in Seq(TriggerActivity) :
        /\ kept = SubSeq(s, n + 1, m) /\ DOMAIN kept = 1 .. (m - n)
        /\ \A i \in 1 .. (m - n) : kept[i] = s[n + i]
  <2>1. n \in 0 .. Len(s)  BY <1>1
  <2>2. LET q == SubSeq(s, n + 1, Len(s))
        IN  /\ q \in Seq(TriggerActivity)
            /\ Len(q) = Len(s) - n /\ DOMAIN q = 1 .. (Len(s) - n)
            /\ \A i \in 1 .. (Len(s) - n) : q[i] = s[n + i]
            /\ Range(q) \subseteq Range(s)
    BY <2>1, EndOfList
  <2> QED  BY <1>1, <2>2
<1>3. ASSUME NEW e \in Range(s) \ Range(u.inputs)
      PROVE  ~ fits(ta.time_start, e.time_start, length)
  <2>1. PICK i \in 1 .. m : e = s[i]  BY <1>1 DEF Range
  <2>2. i <= n
    <3> SUFFICES ASSUME ~ (i <= n) PROVE FALSE
      BY <1>1
    <3>1. i - n \in 1 .. (m - n) /\ n + (i - n) = i  BY <1>1
    <3>2. e = kept[i - n]  BY <1>2, <2>1, <3>1
    <3>3. e \in Range(kept)  BY <1>2, <3>1, <3>2 DEF Range
    <3> QED  BY <1>1, <1>2, <1>3, <3>3
  <2>3. i \in 1 .. n  BY <1>1, <2>2
  <2> QED  BY <1>1, <2>1, <2>3
<1> QED  BY <1>1, <1>3 DEF Loses

LEMMA MoveKeeps ==
  ASSUME NEW w, Charged(w), w.inputs # <<>>, NEW length, Short(length),
         NEW ta \in TriggerActivity
  PROVE  LET u == move(w, ta, length)
         IN  /\ Charged(u) /\ u.inputs # <<>> /\ ta \in Range(u.inputs)
             /\ Range(u.inputs) \subseteq Range(w.inputs) \cup {ta}
             /\ Loses(w, u, ta, length)
             /\ SpanAgrees(w, length) => SpanAgrees(u, length)
<1>1. PICK u : u = move(w, ta, length)  OBVIOUS
<1>2. w.inputs \in Seq(TriggerActivity) /\ Len(w.inputs) \in Nat  BY DEF Charged
<1>3. PICK n \in 0 .. Len(w.inputs) :
        /\ n = n_to_erase(w.inputs, ta.time_start, length)
        /\ \A i \in 1 .. n : ~ fits(ta.time_start, w.inputs[i].time_start, length)
        /\ n < Len(w.inputs) => fits(ta.time_start, w.inputs[n + 1].time_start, length)
  BY <1>2, NToErase
<1>4. CASE n < Len(w.inputs)
  <2>1. PICK v : v = erase_front(w, n) /\ u = add(v, ta)  BY <1>1, <1>3, <1>4 DEF move
  <2>2. /\ Charged(v) /\ v.inputs # <<>>
        /\ v.inputs = SubSeq(w.inputs, n + 1, Len(w.inputs))
        /\ v.time_start = w.inputs[n + 1].time_start
        /\ SpanAgrees(w, length) => SpanAgrees(v, length)
    <3>1. n \in Nat /\ length \in Nat  BY <1>2 DEF Short
    <3> QED  BY <1>4, <2>1, <3>1, EraseKeeps
  <2>3. Charged(u) /\ u.inputs # <<>> /\ Range(u.inputs) = Range(v.inputs) \cup {ta}
    BY <2>1, <2>2, AddKeeps
  <2>4. Range(v.inputs) \subseteq Range(w.inputs)
    BY <1>2, <2>2, EndOfList
  <2>5. Loses(w, u, ta, length)
    BY <1>2, <1>3, <2>2, <2>3, ErasedDoNotFit
  <2>6. SpanAgrees(w, length) => SpanAgrees(u, length)
    BY <1>3, <1>4, <2>1, <2>2, AddKeepsSpan DEF Charged
  <2> QED  BY <1>1, <2>3, <2>4, <2>5, <2>6
<1>5. CASE ~ (n < Len(w.inputs))
  <2>1. u = reset(w, ta)  BY <1>1, <1>3, <1>5 DEF move
  <2>2. /\ Charged(u) /\ SpanAgrees(u, length)
        /\ u.inputs # <<>> /\ Range(u.inputs) = {ta}
    BY <2>1, ResetKeeps
  <2>3. Loses(w, u, ta, length)
    <3>1. n = Len(w.inputs) /\ DOMAIN w.inputs = 1 .. n  BY <1>2, <1>5
    <3> QED  BY <1>3, <3>1 DEF Loses, Range
  <2> QED  BY <1>1, <2>2, <2>3
<1> QED  BY <1>4, <1>5

\* The move() of MichelElectron keeps the charge too: when nothing is left it
\* takes off the charge of all there was.
LEMMA MoveMEKeeps ==
  ASSUME NEW w, Charged(w), NEW length \in Nat, NEW ta \in TriggerActivity
  PROVE  LET u == move_me(w, ta, length)
         IN  /\ Charged(u) /\ u.inputs # <<>> /\ ta \in Range(u.inputs)
             /\ Range(u.inputs) \subseteq Range(w.inputs) \cup {ta}
<1>1. PICK u : u = move_me(w, ta, length)  OBVIOUS
<1>2. w.inputs \in Seq(TriggerActivity) /\ Len(w.inputs) \in Nat  BY DEF Charged
<1>3. PICK n \in 0 .. Len(w.inputs) : n = n_to_erase(w.inputs, ta.time_start, length)
  BY <1>2, NToErase
<1>4. PICK v : /\ u = add(v, ta) /\ Charged(v)
               /\ Range(v.inputs) \subseteq Range(w.inputs)
  <2>1. CASE n < Len(w.inputs)
    <3>1. PICK v : v = erase_front(w, n) /\ u = add(v, ta)
      BY <1>1, <1>3, <2>1 DEF move_me
    <3>2. Charged(v) /\ v.inputs = SubSeq(w.inputs, n + 1, Len(w.inputs))
      <4>1. n \in Nat  BY <1>2
      <4> QED  BY <2>1, <3>1, <4>1, EraseKeeps
    <3>3. Range(v.inputs) \subseteq Range(w.inputs)  BY <1>2, <3>2, EndOfList
    <3> QED  BY <3>1, <3>2, <3>3
  <2>2. CASE ~ (n < Len(w.inputs))
    <3> DEFINE v == [time_start |-> w.time_start,
                     adc_integral |-> (w.adc_integral - TotalAdc(w.inputs)) % AdcModulus,
                     channel_states |-> unhit_front(w, n),
                     inputs |-> <<>>]
    <3>1. u = add(v, ta)  BY <1>1, <1>3, <2>2 DEF move_me
    <3>2. v.inputs = <<>> /\ v.adc_integral = (w.adc_integral - TotalAdc(w.inputs)) % AdcModulus
      OBVIOUS
    <3> HIDE DEF v
    <3>3. v.adc_integral = 0
      <4>0. \A e \in TriggerActivity : e.adc_integral \in Nat  BY TAType
      <4>1. TotalAdc(w.inputs) \in Nat  BY <1>2, <4>0, TotalAdcType
      <4>2. PICK all \in Int : all = TotalAdc(w.inputs)  BY <4>1
      <4>3. PICK gone \in Int : gone = - all  OBVIOUS
      <4>4. ((all % AdcModulus) + gone) % AdcModulus = (all + gone) % AdcModulus
        BY ModPlus, TAWindowAssumption
      <4>5. w.adc_integral = all % AdcModulus /\ all % AdcModulus \in Int
        BY <4>2, TAWindowAssumption DEF Charged, ChargeAgrees
      <4>6. w.adc_integral - TotalAdc(w.inputs) = (all % AdcModulus) + gone
        BY <4>2, <4>3, <4>5
      <4>7. all + gone = 0 /\ 0 % AdcModulus = 0  BY <4>3, TAWindowAssumption
      <4> QED  BY <3>2, <4>4, <4>6, <4>7
    <3>4. Charged(v)
      BY <3>2, <3>3, TotalAdcEmpty, TAWindowAssumption DEF Charged, ChargeAgrees
    <3> QED  BY <3>1, <3>2, <3>4, RangeOfNone
  <2> QED  BY <2>1, <2>2
<1>5. Charged(u) /\ u.inputs # <<>> /\ Range(u.inputs) = Range(v.inputs) \cup {ta}
  BY <1>4, AddKeeps
<1> QED  BY <1>1, <1>4, <1>5

-----------------------------------------------------------------------------
(* The counts of a TAWindow *)

\* The hits on each channel by the first n of a list of TPs' channels, for
\* each n.
HitsUpTo(channels) ==
  [n \in 0 .. Len(channels) |-> [c \in Nat |-> WeightUpTo(channels, Indicator(Nat, {c}))[n]]]

\* One hit more in each of N rounds.
Rounds(ch, u, N) ==
  /\ N \in Nat
  /\ \A n \in 0 .. N : u[n] \in Tallies /\ \A c \in Nat : u[n][c] <= u[N][c]
  /\ \A n \in 1 .. N : ch[n] \in Nat /\ OneMore(u[n], u[n - 1], ch[n])
  /\ \A c \in Nat : u[0][c] = 0

LEMMA HitsUpToRounds ==
  ASSUME NEW channels \in Seq(Nat)
  PROVE  /\ Rounds(channels, HitsUpTo(channels), Len(channels))
         /\ HitsUpTo(channels)[Len(channels)] = HitsOn(channels)
<1>0. PICK N \in Nat : N = Len(channels) /\ \A n \in 1 .. N : channels[n] \in Nat  OBVIOUS
<1>1. ASSUME NEW c \in Nat
      PROVE  LET u == WeightUpTo(channels, Indicator(Nat, {c}))
             IN  /\ u[0] = 0
                 /\ \A n \in 0 .. N : u[n] \in Nat /\ u[n] <= u[N]
                 /\ \A n \in 1 .. N : u[n] = u[n - 1] + (IF channels[n] = c THEN 1 ELSE 0)
                 /\ Weight(channels, Indicator(Nat, {c})) = u[N]
  <2>1. PICK w \in [Nat -> Nat] : w = Indicator(Nat, {c})  BY IndicatorType
  <2>2. /\ WeightUpTo(channels, w)[0] = 0
        /\ \A n \in 0 .. N : WeightUpTo(channels, w)[n] \in Nat
        /\ \A n \in 1 .. N :
             WeightUpTo(channels, w)[n] = WeightUpTo(channels, w)[n - 1] + w[channels[n]]
        /\ Weight(channels, w) = WeightUpTo(channels, w)[N]
    BY <1>0, WeightStep
  <2>3. \A n \in 1 .. N : w[channels[n]] = IF channels[n] = c THEN 1 ELSE 0
    BY <1>0, <2>1 DEF Indicator
  <2>4. \A n \in 0 .. N : WeightUpTo(channels, w)[n] <= Weight(channels, w)
    BY <1>0, WeightGrows
  <2> QED  BY <2>1, <2>2, <2>3, <2>4
<1>2. PICK u : u = HitsUpTo(channels)  OBVIOUS
<1>3. \A n \in 0 .. N, c \in Nat : u[n][c] = WeightUpTo(channels, Indicator(Nat, {c}))[n]
  BY <1>0, <1>2 DEF HitsUpTo
<1>4. \A n \in 0 .. N : u[n] \in Tallies
  BY <1>0, <1>1, <1>2 DEF HitsUpTo, Tallies
<1>5. 0 \in 0 .. N /\ N \in 0 .. N /\ \A n \in 1 .. N : n \in 0 .. N /\ n - 1 \in 0 .. N
  OBVIOUS
<1>6. \A n \in 0 .. N, c \in Nat : u[n][c] <= u[N][c]  BY <1>1, <1>3, <1>5
<1>7. ASSUME NEW c \in Nat PROVE u[0][c] = 0
  <2>1. PICK x : x = WeightUpTo(channels, Indicator(Nat, {c})) /\ x[0] = 0  BY <1>1
  <2> QED  BY <1>3, <1>5, <2>1
<1>8. ASSUME NEW n \in 1 .. N PROVE OneMore(u[n], u[n - 1], channels[n])
  <2>1. ASSUME NEW c \in Nat
        PROVE  u[n][c] = u[n - 1][c] + (IF channels[n] = c THEN 1 ELSE 0)
    <3>1. PICK x : x = WeightUpTo(channels, Indicator(Nat, {c}))  OBVIOUS
    <3>2. x[n] = x[n - 1] + (IF channels[n] = c THEN 1 ELSE 0)  BY <1>1, <3>1
    <3>3. u[n][c] = x[n] /\ u[n - 1][c] = x[n - 1]  BY <1>3, <1>5, <3>1
    <3> QED  BY <3>2, <3>3
  <2> QED  BY <2>1 DEF OneMore
<1>9. u[N] = HitsOn(channels)
  <2>1. u[N] = [c \in Nat |-> WeightUpTo(channels, Indicator(Nat, {c}))[N]]
    BY <1>0, <1>2, <1>5 DEF HitsUpTo
  <2> QED  BY <1>1, <2>1 DEF HitsOn
<1> QED  BY <1>0, <1>2, <1>4, <1>6, <1>7, <1>8, <1>9 DEF Rounds

\* The loops over the TPs of a TA run as they are written.
LEMMA HitAllSteps ==
  ASSUME NEW S, NEW states \in CountMaps(S), NEW channels \in Seq(S)
  PROVE  \E g \in [0 .. Len(channels) -> CountMaps(S)] :
           /\ g[0] = states /\ hit_all(states, channels) = g[Len(channels)]
           /\ \A n \in 1 .. Len(channels) : g[n] = hit(g[n - 1], channels[n])
<1> DEFINE N == Len(channels)
           V == CountMaps(S)
           Runs(g) == g = [k \in 0 .. N |-> IF k = 0 THEN states ELSE hit(g[k - 1], channels[k])]
<1>1. N \in Nat /\ \A n \in 1 .. N : channels[n] \in S  OBVIOUS
<1> HIDE DEF N
<1>2. PICK step : step = [n \in 1 .. N |-> [v \in V |-> hit(v, channels[n])]]  OBVIOUS
<1>3. step \in [1 .. N -> [V -> V]]  BY <1>1, <1>2, HitType
<1>4. PICK g \in [0 .. N -> V] : g[0] = states /\ \A n \in 1 .. N : g[n] = step[n][g[n - 1]]
  <2>1. LoopRuns(V, states, N, step) # {}  BY <1>1, <1>3, LoopHasARun
  <2> QED  BY <2>1 DEF LoopRuns
<1>5. Runs(g)
  <2>1. ASSUME NEW n \in 1 .. N PROVE g[n] = hit(g[n - 1], channels[n])
    <3>1. n - 1 \in 0 .. N /\ g[n - 1] \in V  BY <1>1
    <3> QED  BY <1>2, <1>4, <3>1
  <2>2. \A n \in 0 .. N : n = 0 \/ n \in 1 .. N  OBVIOUS
  <2> QED  BY <1>4, <2>1, <2>2
<1> DEFINE f == CHOOSE h : Runs(h)
<1>6. hit_all(states, channels) = f[N]  BY DEF hit_all, N
<1> HIDE DEF Runs
<1>7. Runs(f)  BY <1>5
<1> HIDE DEF f
<1>8. /\ 0 \in 0 .. N /\ N \in 0 .. N
      /\ \A n \in 1 .. N : n \in 0 .. N /\ n # 0 /\ n - 1 \in 0 .. N
  BY <1>1
<1>9. f[0] = states /\ \A n \in 1 .. N : f[n] = hit(f[n - 1], channels[n])
  BY <1>7, <1>8 DEF Runs
<1> DEFINE T == { n \in 0 .. N : f[n] \in V }
<1>10. 0 \in T  BY <1>8, <1>9
<1>11. \A n \in 1 .. N : n - 1 \in T => n \in T  BY <1>1, <1>8, <1>9, HitType
<1> HIDE DEF T
<1>12. \A n \in 0 .. N : n \in T  BY <1>1, <1>10, <1>11, InductionUpTo
<1>13. f \in [0 .. N -> V]
  <2>1. f = [k \in 0 .. N |-> f[k]]  BY <1>7 DEF Runs
  <2>2. \A n \in 0 .. N : f[n] \in V  BY <1>12 DEF T
  <2> QED  BY <2>1, <2>2
<1> QED  BY <1>6, <1>9, <1>13 DEF N

LEMMA UnhitAllSteps ==
  ASSUME NEW S, NEW states \in CountMaps(S), NEW channels \in Seq(S)
  PROVE  \E g \in [0 .. Len(channels) -> CountMaps(S)] :
           /\ g[0] = states /\ unhit_all(states, channels) = g[Len(channels)]
           /\ \A n \in 1 .. Len(channels) : g[n] = unhit(g[n - 1], channels[n])
<1> DEFINE N == Len(channels)
           V == CountMaps(S)
           Runs(g) == g = [k \in 0 .. N |-> IF k = 0 THEN states ELSE unhit(g[k - 1], channels[k])]
<1>1. N \in Nat /\ \A n \in 1 .. N : channels[n] \in S  OBVIOUS
<1> HIDE DEF N
<1>2. PICK step : step = [n \in 1 .. N |-> [v \in V |-> unhit(v, channels[n])]]  OBVIOUS
<1>3. step \in [1 .. N -> [V -> V]]  BY <1>1, <1>2, HitType
<1>4. PICK g \in [0 .. N -> V] : g[0] = states /\ \A n \in 1 .. N : g[n] = step[n][g[n - 1]]
  <2>1. LoopRuns(V, states, N, step) # {}  BY <1>1, <1>3, LoopHasARun
  <2> QED  BY <2>1 DEF LoopRuns
<1>5. Runs(g)
  <2>1. ASSUME NEW n \in 1 .. N PROVE g[n] = unhit(g[n - 1], channels[n])
    <3>1. n - 1 \in 0 .. N /\ g[n - 1] \in V  BY <1>1
    <3> QED  BY <1>2, <1>4, <3>1
  <2>2. \A n \in 0 .. N : n = 0 \/ n \in 1 .. N  OBVIOUS
  <2> QED  BY <1>4, <2>1, <2>2
<1> DEFINE f == CHOOSE h : Runs(h)
<1>6. unhit_all(states, channels) = f[N]  BY DEF unhit_all, N
<1> HIDE DEF Runs
<1>7. Runs(f)  BY <1>5
<1> HIDE DEF f
<1>8. /\ 0 \in 0 .. N /\ N \in 0 .. N
      /\ \A n \in 1 .. N : n \in 0 .. N /\ n # 0 /\ n - 1 \in 0 .. N
  BY <1>1
<1>9. f[0] = states /\ \A n \in 1 .. N : f[n] = unhit(f[n - 1], channels[n])
  BY <1>7, <1>8 DEF Runs
<1> DEFINE T == { n \in 0 .. N : f[n] \in V }
<1>10. 0 \in T  BY <1>8, <1>9
<1>11. \A n \in 1 .. N : n - 1 \in T => n \in T  BY <1>1, <1>8, <1>9, HitType
<1> HIDE DEF T
<1>12. \A n \in 0 .. N : n \in T  BY <1>1, <1>10, <1>11, InductionUpTo
<1>13. f \in [0 .. N -> V]
  <2>1. f = [k \in 0 .. N |-> f[k]]  BY <1>7 DEF Runs
  <2>2. \A n \in 0 .. N : f[n] \in V  BY <1>12 DEF T
  <2> QED  BY <2>1, <2>2
<1> QED  BY <1>6, <1>9, <1>13 DEF N

\* What N hits make of counts, and what taking as many off does.
Adds(h, f, g) == \A c \in Nat : h[c] = f[c] + g[c]

LEMMA RoundsUp ==
  ASSUME NEW N, NEW ch, NEW u, Rounds(ch, u, N),
         NEW g, \A n \in 1 .. N : g[n] = hit(g[n - 1], ch[n]),
         NEW f \in Tallies, Counted(g[0], f), NEW h, Adds(h, f, u[N])
  PROVE  Counted(g[N], h)
<1>1. N \in Nat  BY DEF Rounds
<1> DEFINE sum == [n \in 0 .. N |-> [c \in Nat |-> f[c] + u[n][c]]]
           T == { n \in 0 .. N : Counted(g[n], sum[n]) }
<1>2. \A n \in 0 .. N : sum[n] \in Tallies  BY DEF Rounds, Tallies
<1>3. \A n \in 1 .. N : n \in 0 .. N /\ n - 1 \in 0 .. N  BY <1>1
<1>4. \A n \in 0 .. N, c \in Nat : sum[n][c] = f[c] + u[n][c]  OBVIOUS
<1> HIDE DEF sum
<1>5. ASSUME NEW n \in 1 .. N PROVE OneMore(sum[n], sum[n - 1], ch[n])
  <2>1. OneMore(u[n], u[n - 1], ch[n])  BY DEF Rounds
  <2>2. u[n - 1] \in Tallies  BY <1>3 DEF Rounds
  <2>3. \A c \in Nat : f[c] \in Nat /\ u[n - 1][c] \in Nat  BY <2>2 DEF Tallies
  <2> QED  BY <1>3, <1>4, <2>1, <2>3 DEF OneMore
<1>6. 0 \in T
  <2>1. \A c \in Nat : f[c] \in Nat  BY DEF Tallies
  <2>2. 0 \in 0 .. N  BY <1>1
  <2>3. Same(sum[0], f)  BY <1>4, <2>1, <2>2 DEF Same, Rounds
  <2> QED  BY <2>2, <2>3, CountedIsOne
<1>7. ASSUME NEW n \in 1 .. N, n - 1 \in T PROVE n \in T
  <2>1. Counted(g[n - 1], sum[n - 1])  BY <1>7
  <2>2. sum[n - 1] \in Tallies /\ ch[n] \in Nat  BY <1>2, <1>3 DEF Rounds
  <2>3. Counted(hit(g[n - 1], ch[n]), sum[n])  BY <1>5, <2>1, <2>2, HitCounts
  <2> QED  BY <1>3, <2>3
<1> HIDE DEF T
<1>8. \A n \in 0 .. N : n \in T  BY <1>1, <1>6, <1>7, InductionUpTo
<1>9. N \in 0 .. N  BY <1>1
<1>10. Counted(g[N], sum[N])  BY <1>8, <1>9 DEF T
<1>11. Same(h, sum[N])  BY <1>4, <1>9 DEF Same, Adds
<1> QED  BY <1>10, <1>11, CountedIsOne

LEMMA RoundsDown ==
  ASSUME NEW N, NEW ch, NEW u, Rounds(ch, u, N),
         NEW g, \A n \in 1 .. N : g[n] = unhit(g[n - 1], ch[n]),
         NEW f \in Tallies, NEW h, Adds(h, f, u[N]), Counted(g[0], h)
  PROVE  Counted(g[N], f)
<1>1. N \in Nat  BY DEF Rounds
<1> DEFINE left == [n \in 0 .. N |-> [c \in Nat |-> f[c] + (u[N][c] - u[n][c])]]
           T == { n \in 0 .. N : Counted(g[n], left[n]) }
<1>2. N \in 0 .. N /\ \A n \in 1 .. N : n \in 0 .. N /\ n - 1 \in 0 .. N  BY <1>1
<1>3. ASSUME NEW n \in 0 .. N, NEW c \in Nat
      PROVE  f[c] \in Nat /\ u[n][c] \in Nat /\ u[N][c] \in Nat /\ u[n][c] <= u[N][c]
  BY <1>2 DEF Rounds, Tallies
<1>4. \A n \in 0 .. N, c \in Nat : left[n][c] = f[c] + (u[N][c] - u[n][c])  OBVIOUS
<1>5. \A n \in 0 .. N : left[n] \in Tallies
  <2>1. ASSUME NEW n \in 0 .. N, NEW c \in Nat PROVE f[c] + (u[N][c] - u[n][c]) \in Nat
    BY <1>3
  <2> QED  BY <2>1 DEF Tallies
<1> HIDE DEF left
<1>6. ASSUME NEW n \in 1 .. N PROVE OneMore(left[n - 1], left[n], ch[n])
  <2>1. OneMore(u[n], u[n - 1], ch[n])  BY DEF Rounds
  <2>2. ASSUME NEW c \in Nat
        PROVE  left[n - 1][c] = left[n][c] + (IF ch[n] = c THEN 1 ELSE 0)
    <3>1. u[n][c] = u[n - 1][c] + (IF ch[n] = c THEN 1 ELSE 0)  BY <2>1 DEF OneMore
    <3>2. f[c] \in Nat /\ u[n - 1][c] \in Nat /\ u[N][c] \in Nat  BY <1>2, <1>3
    <3>3. /\ left[n][c] = f[c] + (u[N][c] - u[n][c])
          /\ left[n - 1][c] = f[c] + (u[N][c] - u[n - 1][c])
      BY <1>2, <1>4
    <3> QED  BY <3>1, <3>2, <3>3
  <2> QED  BY <2>2 DEF OneMore
<1>7. 0 \in T
  <2>1. 0 \in 0 .. N  BY <1>1
  <2>2. ASSUME NEW c \in Nat PROVE left[0][c] = h[c]
    <3>1. u[0][c] = 0 /\ h[c] = f[c] + u[N][c]  BY DEF Rounds, Adds
    <3> QED  BY <1>3, <1>4, <2>1, <3>1
  <2>3. Same(left[0], h)  BY <2>2 DEF Same
  <2> QED  BY <2>1, <2>3, CountedIsOne
<1>8. ASSUME NEW n \in 1 .. N, n - 1 \in T PROVE n \in T
  <2>1. Counted(g[n - 1], left[n - 1])  BY <1>8
  <2>2. left[n] \in Tallies /\ ch[n] \in Nat  BY <1>2, <1>5 DEF Rounds
  <2>3. Counted(unhit(g[n - 1], ch[n]), left[n])  BY <1>6, <2>1, <2>2, UnhitCounts
  <2> QED  BY <1>2, <2>3
<1> HIDE DEF T
<1>9. \A n \in 0 .. N : n \in T  BY <1>1, <1>7, <1>8, InductionUpTo
<1>10. Counted(g[N], left[N])  BY <1>2, <1>9 DEF T
<1>11. ASSUME NEW c \in Nat PROVE f[c] = left[N][c]  BY <1>2, <1>3, <1>4
<1>12. Same(f, left[N])  BY <1>11 DEF Same
<1> QED  BY <1>10, <1>12, CountedIsOne

\* The loops add the hits of the TA to the counts, and take them off again.
LEMMA HitAllCounts ==
  ASSUME NEW f \in Tallies, NEW states, Counted(states, f), NEW channels \in Seq(Nat),
         NEW h, Adds(h, f, HitsOn(channels))
  PROVE  Counted(hit_all(states, channels), h)
<1>1. states \in CountMaps(Nat)  BY DEF Counted
<1>2. PICK g \in [0 .. Len(channels) -> CountMaps(Nat)] :
        /\ g[0] = states /\ hit_all(states, channels) = g[Len(channels)]
        /\ \A n \in 1 .. Len(channels) : g[n] = hit(g[n - 1], channels[n])
  BY <1>1, HitAllSteps
<1> QED  BY <1>2, HitsUpToRounds, RoundsUp

LEMMA UnhitAllCounts ==
  ASSUME NEW f \in Tallies, NEW states, NEW channels \in Seq(Nat),
         NEW h, Adds(h, f, HitsOn(channels)), Counted(states, h)
  PROVE  Counted(unhit_all(states, channels), f)
<1>1. states \in CountMaps(Nat)  BY DEF Counted
<1>2. PICK g \in [0 .. Len(channels) -> CountMaps(Nat)] :
        /\ g[0] = states /\ unhit_all(states, channels) = g[Len(channels)]
        /\ \A n \in 1 .. Len(channels) : g[n] = unhit(g[n - 1], channels[n])
  BY <1>1, UnhitAllSteps
<1> QED  BY <1>2, HitsUpToRounds, RoundsDown

\* The hits on each channel by the TPs of a list of TAs.
TAWeight(c) == [ta \in TriggerActivity |-> HitsOn(ta.channels)[c]]
TAHits(list) == [c \in Nat |-> Weight(list, TAWeight(c))]

LEMMA TAChannels ==
  /\ Channels \subseteq Nat
  /\ \A ta \in TriggerActivity : ta.channels \in Seq(Nat) /\ ta.channels \in Seq(Channels)
<1>1. \A l \in ChannelLists : l \in Seq(Nat)  BY TAAssumption DEF ChannelLists
<1>2. ASSUME NEW ch \in Channels PROVE ch \in Nat
  <2>1. PICK l \in ChannelLists : \E j \in DOMAIN l : ch = l[j]  BY DEF Channels
  <2> QED  BY <1>1, <2>1
<1>3. ASSUME NEW l \in ChannelLists PROVE l \in Seq(Channels)
  <2>1. \A j \in DOMAIN l : l[j] \in Channels  BY DEF Channels
  <2>2. PICK s \in Seq(Nat) : s = l  BY <1>1
  <2>3. PICK n \in Nat : n = Len(s) /\ DOMAIN s = 1 .. n /\ s = [i \in 1 .. n |-> s[i]]
    OBVIOUS
  <2>4. \A j \in 1 .. n : s[j] \in Channels  BY <2>1, <2>2, <2>3
  <2>5. s \in [1 .. n -> Channels]  BY <2>3, <2>4
  <2> QED  BY <2>2, <2>5, IsASeq
<1>4. \A ta \in TriggerActivity : ta.channels \in ChannelLists  BY DEF TriggerActivity
<1> QED  BY <1>1, <1>2, <1>3, <1>4

LEMMA TAWeightType ==
  ASSUME NEW c \in Nat
  PROVE  /\ TAWeight(c) \in [TriggerActivity -> Nat]
         /\ \A ta \in TriggerActivity : TAWeight(c)[ta] = HitsOn(ta.channels)[c]
<1>1. ASSUME NEW ta \in TriggerActivity PROVE HitsOn(ta.channels)[c] \in Nat
  <2>1. HitsOn(ta.channels) \in Tallies  BY TAChannels, HitsOnType
  <2> QED  BY <2>1 DEF Tallies
<1> QED  BY <1>1 DEF TAWeight

LEMMA TAHitsType ==
  ASSUME NEW list \in Seq(TriggerActivity)
  PROVE  /\ TAHits(list) \in Tallies
         /\ \A c \in Nat : TAHits(list)[c] = Weight(list, TAWeight(c))
<1>1. ASSUME NEW c \in Nat PROVE Weight(list, TAWeight(c)) \in Nat
  BY TAWeightType, WeightStep
<1> QED  BY <1>1 DEF TAHits, Tallies

LEMMA TAHitsNone == \A c \in Nat : TAHits(<<>>)[c] = 0
BY WeightNone DEF TAHits

LEMMA TAHitsOne ==
  ASSUME NEW ta \in TriggerActivity
  PROVE  /\ Same(TAHits(<<ta>>), HitsOn(ta.channels))
         /\ Adds(TAHits(<<ta>>), TAHits(<<>>), HitsOn(ta.channels))
<1>1. ASSUME NEW c \in Nat
      PROVE  /\ TAHits(<<ta>>)[c] = HitsOn(ta.channels)[c] /\ TAHits(<<>>)[c] = 0
             /\ HitsOn(ta.channels)[c] \in Nat
  <2>1. PICK w \in [TriggerActivity -> Nat] :
          w = TAWeight(c) /\ w[ta] = HitsOn(ta.channels)[c]
    BY TAWeightType
  <2>2. Weight(<<ta>>, w) = w[ta]  BY WeightOfOne
  <2>3. w[ta] \in Nat  OBVIOUS
  <2>4. TAHits(<<ta>>)[c] = Weight(<<ta>>, w)  BY <2>1 DEF TAHits
  <2> QED  BY <2>1, <2>2, <2>3, <2>4, TAHitsNone
<1> QED  BY <1>1 DEF Same, Adds

LEMMA InsertWeight ==
  ASSUME NEW s \in Seq(TriggerActivity), NEW ta \in TriggerActivity,
         NEW weight \in [TriggerActivity -> Nat]
  PROVE  Weight(insert(s, ta), weight) = Weight(s, weight) + weight[ta]
<1>1. PICK m \in Nat : m = Len(s)  OBVIOUS
<1>2. PICK n \in 0 .. m : n = insert_at(s, ta.time_start)  BY <1>1, PlaceExists
<1>3. PICK p \in Seq(TriggerActivity), q \in Seq(TriggerActivity), o \in Seq(TriggerActivity) :
        p = SubSeq(s, 1, n) /\ q = SubSeq(s, n + 1, m) /\ o = <<ta>>
  <2>1. SubSeq(s, 1, n) \in Seq(TriggerActivity) /\ SubSeq(s, n + 1, m) \in Seq(TriggerActivity)
    BY <1>1, <1>2
  <2>2. <<ta>> \in Seq(TriggerActivity)  OBVIOUS
  <2> QED  BY <2>1, <2>2
<1>4. PICK f \in Seq(TriggerActivity) : f = p \o o  BY ConcatProperties
<1>5. insert(s, ta) = f \o q  BY <1>1, <1>2, <1>3, <1>4 DEF insert
<1>6. Weight(f \o q, weight) = Weight(f, weight) + Weight(q, weight)  BY WeightOfTwo
<1>7. Weight(f, weight) = Weight(p, weight) + Weight(o, weight)  BY <1>4, WeightOfTwo
<1>8. Weight(o, weight) = weight[ta]  BY <1>3, WeightOfOne
<1>9. Weight(s, weight) = Weight(p, weight) + Weight(q, weight)
  BY <1>1, <1>2, <1>3, WeightSplit
<1>10. Weight(p, weight) \in Nat /\ Weight(q, weight) \in Nat  BY WeightStep
<1>11. weight[ta] \in Nat  OBVIOUS
<1> QED  BY <1>5, <1>6, <1>7, <1>8, <1>9, <1>10, <1>11

LEMMA TAHitsInsert ==
  ASSUME NEW s \in Seq(TriggerActivity), NEW ta \in TriggerActivity
  PROVE  Adds(TAHits(insert(s, ta)), TAHits(s), HitsOn(ta.channels))
<1>1. ASSUME NEW c \in Nat
      PROVE  TAHits(insert(s, ta))[c] = TAHits(s)[c] + HitsOn(ta.channels)[c]
  <2>1. PICK w \in [TriggerActivity -> Nat] :
          w = TAWeight(c) /\ w[ta] = HitsOn(ta.channels)[c]
    BY TAWeightType
  <2>2. Weight(insert(s, ta), w) = Weight(s, w) + w[ta]  BY InsertWeight
  <2> QED  BY <2>1, <2>2 DEF TAHits
<1> QED  BY <1>1 DEF Adds

\* The hits of the end of a list, from its n-th TA on.
LEMMA TAHitsFrom ==
  ASSUME NEW s \in Seq(TriggerActivity), NEW n \in 1 .. Len(s)
  PROVE  Adds(TAHits(SubSeq(s, n, Len(s))), TAHits(SubSeq(s, n + 1, Len(s))),
              HitsOn(s[n].channels))
<1>1. PICK m \in Nat : m = Len(s)  OBVIOUS
<1>2. PICK e \in TriggerActivity : e = s[n]  OBVIOUS
<1>3. PICK t \in Seq(TriggerActivity) :
        t = SubSeq(s, n, m) /\ Len(t) = m - n + 1 /\ \A i \in 1 .. (m - n + 1) : t[i] = s[n + i - 1]
  <2>1. /\ SubSeq(s, n, m) \in Seq(TriggerActivity) /\ Len(SubSeq(s, n, m)) = m - n + 1
        /\ \A i \in 1 .. (m - n + 1) : SubSeq(s, n, m)[i] = s[n + i - 1]
    BY <1>1
  <2> QED  BY <2>1
<1>4. PICK u \in Seq(TriggerActivity) :
        u = SubSeq(s, n + 1, m) /\ Len(u) = m - n /\ \A i \in 1 .. (m - n) : u[i] = s[n + i]
  <2>1. n \in 0 .. Len(s)  BY <1>1
  <2>2. PICK u : u = SubSeq(s, n + 1, Len(s))  OBVIOUS
  <2>3. /\ u \in Seq(TriggerActivity) /\ Len(u) = Len(s) - n
        /\ \A i \in 1 .. (Len(s) - n) : u[i] = s[n + i]
    BY <2>1, <2>2, EndOfList
  <2> QED  BY <1>1, <2>2, <2>3
<1>5. PICK o \in Seq(TriggerActivity) : o = <<e>> /\ Len(o) = 1 /\ o[1] = e
  <2>1. <<e>> \in Seq(TriggerActivity) /\ Len(<<e>>) = 1 /\ <<e>>[1] = e  OBVIOUS
  <2> QED  BY <2>1
<1>6. Joins(t, o, u)
  <2>1. Len(t) = Len(o) + Len(u)  BY <1>1, <1>3, <1>4, <1>5
  <2>2. t[1] = e
    <3>1. 1 \in 1 .. (m - n + 1) /\ n + 1 - 1 = n  BY <1>1
    <3> QED  BY <1>2, <1>3, <3>1
  <2>3. ASSUME NEW i \in 1 .. (m - n) PROVE t[1 + i] = u[i]
    <3>1. 1 + i \in 1 .. (m - n + 1) /\ n + (1 + i) - 1 = n + i  BY <1>1
    <3> QED  BY <1>3, <1>4, <3>1
  <2> QED  BY <1>4, <1>5, <2>1, <2>2, <2>3 DEF Joins
<1>7. ASSUME NEW c \in Nat
      PROVE  TAHits(t)[c] = TAHits(u)[c] + HitsOn(e.channels)[c]
  <2>1. PICK w \in [TriggerActivity -> Nat] :
          w = TAWeight(c) /\ w[e] = HitsOn(e.channels)[c]
    BY TAWeightType
  <2>2. Weight(t, w) = Weight(o, w) + Weight(u, w)  BY <1>6, WeightOfParts
  <2>3. Weight(o, w) = w[e]  BY <1>5, WeightOfOne
  <2>4. PICK x \in Nat, y \in Nat : x = Weight(u, w) /\ y = w[e]
    <3>1. Weight(u, w) \in Nat  BY WeightStep
    <3>2. w[e] \in Nat  OBVIOUS
    <3> QED  BY <3>1, <3>2
  <2>5. TAHits(t)[c] = Weight(t, w) /\ TAHits(u)[c] = Weight(u, w)  BY <2>1 DEF TAHits
  <2>6. y + x = x + y  OBVIOUS
  <2> QED  BY <2>1, <2>2, <2>3, <2>4, <2>5, <2>6
<1> QED  BY <1>1, <1>2, <1>3, <1>4, <1>7 DEF Adds

\* The loop of move() over the TAs in front takes theirs off.
LEMMA UnhitFrontSteps ==
  ASSUME NEW w, w.inputs \in Seq(TriggerActivity), w.channel_states \in CountMaps(Channels),
         NEW n \in 0 .. Len(w.inputs)
  PROVE  \E g \in [0 .. n -> CountMaps(Channels)] :
           /\ g[0] = w.channel_states /\ unhit_front(w, n) = g[n]
           /\ \A k \in 1 .. n : g[k] = unhit_all(g[k - 1], w.inputs[k].channels)
<1> DEFINE V == CountMaps(Channels)
           Runs(g) == g = [k \in 0 .. n |-> IF k = 0 THEN w.channel_states
                                            ELSE unhit_all(g[k - 1], w.inputs[k].channels)]
<1>1. /\ n \in Nat
      /\ \A k \in 1 .. n : w.inputs[k].channels \in Seq(Channels)
  <2>1. \A k \in 1 .. n : w.inputs[k] \in TriggerActivity  OBVIOUS
  <2> QED  BY <2>1, TAChannels
<1>2. PICK first \in V : first = w.channel_states  OBVIOUS
<1>3. PICK ch : ch = [k \in 1 .. n |-> w.inputs[k].channels]  OBVIOUS
<1>4. ASSUME NEW v \in V, NEW k \in 1 .. n PROVE unhit_all(v, ch[k]) \in V
  <2>1. PICK channels \in Seq(Channels) : channels = ch[k]  BY <1>1, <1>3
  <2>2. PICK g \in [0 .. Len(channels) -> V] : unhit_all(v, channels) = g[Len(channels)]
    BY UnhitAllSteps
  <2>3. Len(channels) \in 0 .. Len(channels)  OBVIOUS
  <2> QED  BY <2>1, <2>2, <2>3
<1>5. PICK step : step = [k \in 1 .. n |-> [v \in V |-> unhit_all(v, ch[k])]]  OBVIOUS
<1>6. step \in [1 .. n -> [V -> V]]  BY <1>4, <1>5
<1>7. PICK g \in [0 .. n -> V] : g[0] = first /\ \A k \in 1 .. n : g[k] = step[k][g[k - 1]]
  <2>1. LoopRuns(V, first, n, step) # {}  BY <1>1, <1>6, LoopHasARun
  <2> QED  BY <2>1 DEF LoopRuns
<1>8. Runs(g)
  <2>1. ASSUME NEW k \in 1 .. n PROVE g[k] = unhit_all(g[k - 1], w.inputs[k].channels)
    <3>1. k - 1 \in 0 .. n /\ g[k - 1] \in V  BY <1>1
    <3> QED  BY <1>3, <1>5, <1>7, <3>1
  <2>2. \A k \in 0 .. n : k = 0 \/ k \in 1 .. n  OBVIOUS
  <2> QED  BY <1>2, <1>7, <2>1, <2>2
<1> DEFINE f == CHOOSE h : Runs(h)
<1>9. unhit_front(w, n) = f[n]  BY DEF unhit_front
<1> HIDE DEF Runs
<1>10. Runs(f)  BY <1>8
<1> HIDE DEF f
<1>11. /\ 0 \in 0 .. n /\ n \in 0 .. n
       /\ \A k \in 1 .. n : k \in 0 .. n /\ k # 0 /\ k - 1 \in 0 .. n
  BY <1>1
<1>12. /\ f[0] = w.channel_states
       /\ \A k \in 1 .. n : f[k] = unhit_all(f[k - 1], w.inputs[k].channels)
  BY <1>10, <1>11 DEF Runs
<1> DEFINE T == { k \in 0 .. n : f[k] \in V }
<1>13. 0 \in T  BY <1>2, <1>11, <1>12
<1>14. \A k \in 1 .. n : k - 1 \in T => k \in T  BY <1>3, <1>4, <1>11, <1>12
<1> HIDE DEF T
<1>15. \A k \in 0 .. n : k \in T  BY <1>1, <1>13, <1>14, InductionUpTo
<1>16. f \in [0 .. n -> V]
  <2>1. f = [k \in 0 .. n |-> f[k]]  BY <1>10 DEF Runs
  <2>2. \A k \in 0 .. n : f[k] \in V  BY <1>15 DEF T
  <2> QED  BY <2>1, <2>2
<1> QED  BY <1>9, <1>12, <1>16

LEMMA UnhitFrontCounts ==
  ASSUME NEW w, w.inputs \in Seq(TriggerActivity), w.channel_states \in CountMaps(Channels),
         Counted(w.channel_states, TAHits(w.inputs)), NEW n \in 0 .. Len(w.inputs)
  PROVE  /\ unhit_front(w, n) \in CountMaps(Channels)
         /\ Counted(unhit_front(w, n), TAHits(SubSeq(w.inputs, n + 1, Len(w.inputs))))
<1>1. PICK s \in Seq(TriggerActivity) : s = w.inputs  OBVIOUS
<1>2. PICK g \in [0 .. n -> CountMaps(Channels)] :
        /\ g[0] = w.channel_states /\ unhit_front(w, n) = g[n]
        /\ \A k \in 1 .. n : g[k] = unhit_all(g[k - 1], s[k].channels)
  BY <1>1, UnhitFrontSteps
<1> DEFINE left(k) == TAHits(SubSeq(s, k + 1, Len(s)))
           T == { k \in 0 .. n : Counted(g[k], left(k)) }
<1>3. n \in Nat /\ n <= Len(s)  BY <1>1
<1>4. 0 \in T
  <2>1. SubSeq(s, 1, Len(s)) = s  BY SubSeqFull
  <2>2. 0 \in 0 .. n /\ 0 + 1 = 1  BY <1>3
  <2>3. left(0) = TAHits(s)  BY <2>1, <2>2
  <2>4. Counted(g[0], left(0))  BY <1>1, <1>2, <2>3
  <2> QED  BY <2>2, <2>4
<1>5. ASSUME NEW k \in 1 .. n, k - 1 \in T PROVE k \in T
  <2>1. k \in 1 .. Len(s) /\ k \in 0 .. n /\ (k - 1) + 1 = k /\ s[k] \in TriggerActivity
    BY <1>3
  <2>2. PICK a : a = TAHits(SubSeq(s, k, Len(s))) /\ Counted(g[k - 1], a)  BY <1>5, <2>1
  <2>3. PICK b \in Tallies : b = left(k)
    <3>1. SubSeq(s, k + 1, Len(s)) \in Seq(TriggerActivity)  BY <2>1
    <3> QED  BY <3>1, TAHitsType
  <2>4. PICK channels \in Seq(Nat) : channels = s[k].channels  BY <2>1, TAChannels
  <2>5. Adds(a, b, HitsOn(channels))  BY <2>1, <2>2, <2>3, <2>4, TAHitsFrom
  <2>6. Counted(unhit_all(g[k - 1], channels), b)  BY <2>2, <2>5, UnhitAllCounts
  <2> QED  BY <1>2, <2>1, <2>3, <2>4, <2>6
<1> HIDE DEF T
<1>6. \A k \in 0 .. n : k \in T  BY <1>3, <1>4, <1>5, InductionUpTo
<1>7. n \in 0 .. n  BY <1>3
<1>8. Counted(g[n], left(n)) /\ g[n] \in CountMaps(Channels)  BY <1>6, <1>7 DEF T
<1> QED  BY <1>1, <1>2, <1>8

\* A window whose counts say which channels its TAs have hit, and how often.
Kept(w) ==
  /\ w \in Windows /\ w.time_start \in Times
  /\ Counted(w.channel_states, TAHits(w.inputs))

LEMMA KeptParts ==
  ASSUME NEW w, Kept(w)
  PROVE  /\ w.time_start \in Times /\ w.adc_integral \in 0 .. AdcModulus - 1
         /\ w.channel_states \in CountMaps(Channels) /\ w.inputs \in Seq(TriggerActivity)
         /\ Counted(w.channel_states, TAHits(w.inputs))
BY DEF Kept, Windows

LEMMA AWindow ==
  ASSUME NEW t \in Times \cup {0}, NEW a \in 0 .. AdcModulus - 1, NEW m \in CountMaps(Channels),
         NEW l \in Seq(TriggerActivity)
  PROVE  [time_start |-> t, adc_integral |-> a, channel_states |-> m, inputs |-> l] \in Windows
BY DEF Windows

LEMMA HitAllKept ==
  ASSUME NEW f \in Tallies, NEW states \in CountMaps(Channels), Counted(states, f),
         NEW ta \in TriggerActivity, NEW h, Adds(h, f, HitsOn(ta.channels))
  PROVE  /\ hit_all(states, ta.channels) \in CountMaps(Channels)
         /\ Counted(hit_all(states, ta.channels), h)
<1>1. PICK channels \in Seq(Channels) : channels = ta.channels  BY TAChannels
<1>2. PICK g \in [0 .. Len(channels) -> CountMaps(Channels)] :
        hit_all(states, channels) = g[Len(channels)]
  BY HitAllSteps
<1>3. Len(channels) \in 0 .. Len(channels)  OBVIOUS
<1>4. hit_all(states, ta.channels) \in CountMaps(Channels)  BY <1>1, <1>2, <1>3
<1>5. PICK list \in Seq(Nat) : list = ta.channels  BY TAChannels
<1>6. Counted(hit_all(states, list), h)  BY <1>5, HitAllCounts
<1> QED  BY <1>4, <1>5, <1>6

LEMMA ResetKept ==
  ASSUME NEW w, NEW ta \in TriggerActivity
  PROVE  Kept(reset(w, ta)) /\ clear_me(reset(w, ta)) \in Windows
<1>1. PICK m : m = hit_all(<<>>, ta.channels)  OBVIOUS
<1>2. PICK l \in Seq(TriggerActivity) : l = <<ta>>
  <2>1. <<ta>> \in Seq(TriggerActivity)  OBVIOUS
  <2> QED  BY <2>1
<1>3. m \in CountMaps(Channels) /\ Counted(m, TAHits(l))
  <2>1. <<>> \in CountMaps(Channels)  BY EmptyMapType
  <2>2. Counted(<<>>, TAHits(<<>>))  BY TAHitsNone, NoneCounted
  <2>3. TAHits(<<>>) \in Tallies
    <3>1. <<>> \in Seq(TriggerActivity)  OBVIOUS
    <3> QED  BY <3>1, TAHitsType
  <2>4. Adds(TAHits(<<ta>>), TAHits(<<>>), HitsOn(ta.channels))  BY TAHitsOne
  <2> QED  BY <1>1, <1>2, <2>1, <2>2, <2>3, <2>4, HitAllKept
<1>4. PICK t \in Times, a \in 0 .. AdcModulus - 1 : t = ta.time_start /\ a = ta.adc_integral
  BY TAType
<1>5. reset(w, ta) = [time_start |-> t, adc_integral |-> a, channel_states |-> m, inputs |-> l]
  BY <1>1, <1>2, <1>4 DEF reset
<1>6. PICK u : u = reset(w, ta)  OBVIOUS
<1>7. u.time_start = t /\ u.channel_states = m /\ u.inputs = l  BY <1>5, <1>6
<1>8. u \in Windows  BY <1>3, <1>5, <1>6, AWindow
<1>9. clear_me(u) = [time_start |-> t, adc_integral |-> a, channel_states |-> m, inputs |-> <<>>]
  BY <1>5, <1>6 DEF clear_me
<1>10. clear_me(u) \in Windows
  <2>1. <<>> \in Seq(TriggerActivity) /\ t \in Times \cup {0}  OBVIOUS
  <2> QED  BY <1>3, <1>9, <2>1, AWindow
<1> QED  BY <1>3, <1>6, <1>7, <1>8, <1>10 DEF Kept

LEMMA EmptyIsAWindow == EmptyWindow \in Windows
<1>1. /\ <<>> \in Seq(TriggerActivity) /\ 0 \in Times \cup {0}
      /\ 0 \in 0 .. AdcModulus - 1
  BY TAWindowAssumption
<1> QED  BY <1>1, EmptyMapType, AWindow DEF EmptyWindow

LEMMA AddKept ==
  ASSUME NEW w, Kept(w), NEW ta \in TriggerActivity
  PROVE  Kept(add(w, ta))
<1>1. PICK s \in Seq(TriggerActivity) : s = w.inputs  BY KeptParts
<1>2. PICK states \in CountMaps(Channels) :
        states = w.channel_states /\ Counted(states, TAHits(s))
  BY <1>1, KeptParts
<1>3. PICK l \in Seq(TriggerActivity) : l = insert(s, ta)
  <2>1. PICK r : r = insert(s, ta)  OBVIOUS
  <2>2. \E n \in 0 .. Len(s) : Inserted(s, ta, n, r)  BY <2>1, InsertPlaces
  <2>3. r \in Seq(TriggerActivity)  BY <2>2 DEF Inserted
  <2> QED  BY <2>1, <2>3
<1>4. PICK m : m = hit_all(states, ta.channels)  OBVIOUS
<1>5. m \in CountMaps(Channels) /\ Counted(m, TAHits(l))
  <2>1. TAHits(s) \in Tallies  BY TAHitsType
  <2>2. Adds(TAHits(l), TAHits(s), HitsOn(ta.channels))  BY <1>3, TAHitsInsert
  <2> QED  BY <1>2, <1>4, <2>1, <2>2, HitAllKept
<1>6. PICK t \in Times : t = w.time_start  BY KeptParts
<1>7. PICK a \in 0 .. AdcModulus - 1 : a = UIntPlus(w.adc_integral, ta.adc_integral, AdcModulus)
  <2>1. PICK x \in Nat, y \in Nat : x = w.adc_integral /\ y = ta.adc_integral
    BY KeptParts, TAType
  <2>2. (x + y) % AdcModulus \in 0 .. AdcModulus - 1  BY TAWindowAssumption
  <2> QED  BY <2>1, <2>2 DEF UIntPlus
<1>8. add(w, ta) = [time_start |-> t, adc_integral |-> a, channel_states |-> m, inputs |-> l]
  BY <1>1, <1>2, <1>3, <1>4, <1>6, <1>7 DEF add
<1>9. PICK u : u = add(w, ta)  OBVIOUS
<1>10. u.time_start = t /\ u.channel_states = m /\ u.inputs = l  BY <1>8, <1>9
<1>11. u \in Windows  BY <1>5, <1>8, <1>9, AWindow
<1> QED  BY <1>5, <1>9, <1>10, <1>11 DEF Kept

\* Taking the first n TAs out, and any charge but theirs.
LEMMA WithoutFrontKept ==
  ASSUME NEW w, Kept(w), NEW n \in 0 .. Len(w.inputs), NEW t \in Times,
         NEW a \in 0 .. AdcModulus - 1
  PROVE  Kept([time_start |-> t, adc_integral |-> a, channel_states |-> unhit_front(w, n),
               inputs |-> SubSeq(w.inputs, n + 1, Len(w.inputs))])
<1>1. PICK l : l = SubSeq(w.inputs, n + 1, Len(w.inputs))  OBVIOUS
<1>2. l \in Seq(TriggerActivity)
  <2>1. PICK s \in Seq(TriggerActivity) : s = w.inputs  BY KeptParts
  <2>2. SubSeq(s, n + 1, Len(s)) \in Seq(TriggerActivity)  BY <2>1, EndOfList
  <2> QED  BY <1>1, <2>1, <2>2
<1>3. PICK m : m = unhit_front(w, n)  OBVIOUS
<1>4. m \in CountMaps(Channels) /\ Counted(m, TAHits(l))
  BY <1>1, <1>3, KeptParts, UnhitFrontCounts
<1>5. PICK u : u = [time_start |-> t, adc_integral |-> a, channel_states |-> m, inputs |-> l]
  OBVIOUS
<1>6. u.time_start = t /\ u.channel_states = m /\ u.inputs = l  BY <1>5
<1>7. u \in Windows  BY <1>2, <1>4, <1>5, AWindow
<1> QED  BY <1>1, <1>3, <1>4, <1>5, <1>6, <1>7 DEF Kept

LEMMA ChargeLeft ==
  ASSUME NEW w, Kept(w), NEW l \in Seq(TriggerActivity)
  PROVE  (w.adc_integral - TotalAdc(l)) % AdcModulus \in 0 .. AdcModulus - 1
<1>1. PICK x \in Int : x = w.adc_integral  BY KeptParts
<1>2. \A e \in TriggerActivity : e.adc_integral \in Nat  BY TAType
<1>3. PICK y \in Int : y = TotalAdc(l)  BY <1>2, TotalAdcType
<1>4. (x - y) % AdcModulus \in 0 .. AdcModulus - 1  BY TAWindowAssumption
<1> QED  BY <1>1, <1>3, <1>4

LEMMA EraseKept ==
  ASSUME NEW w, Kept(w), NEW n \in 0 .. Len(w.inputs), n < Len(w.inputs)
  PROVE  Kept(erase_front(w, n))
<1>1. PICK s \in Seq(TriggerActivity) : s = w.inputs  BY KeptParts
<1>2. PICK l \in Seq(TriggerActivity) : l = SubSeq(s, 1, n)
  <2>1. SubSeq(s, 1, n) \in Seq(TriggerActivity)  BY <1>1
  <2> QED  BY <2>1
<1>3. PICK t \in Times : t = w.inputs[n + 1].time_start
  <2>1. s[n + 1] \in TriggerActivity  BY <1>1
  <2> QED  BY <1>1, <2>1, TAType
<1>4. PICK a \in 0 .. AdcModulus - 1 : a = (w.adc_integral - TotalAdc(l)) % AdcModulus
  BY ChargeLeft
<1>5. erase_front(w, n)
        = [time_start |-> t, adc_integral |-> a, channel_states |-> unhit_front(w, n),
           inputs |-> SubSeq(w.inputs, n + 1, Len(w.inputs))]
  BY <1>1, <1>2, <1>3, <1>4 DEF erase_front
<1> QED  BY <1>5, WithoutFrontKept

LEMMA MoveKept ==
  ASSUME NEW w, Kept(w), NEW length, NEW ta \in TriggerActivity
  PROVE  Kept(move(w, ta, length))
<1>1. w.inputs \in Seq(TriggerActivity)  BY KeptParts
<1>2. PICK n \in 0 .. Len(w.inputs) : n = n_to_erase(w.inputs, ta.time_start, length)
  BY <1>1, NToErase
<1>3. CASE n < Len(w.inputs)
  <2>1. move(w, ta, length) = add(erase_front(w, n), ta)  BY <1>2, <1>3 DEF move
  <2> QED  BY <1>3, <2>1, EraseKept, AddKept
<1>4. CASE ~ (n < Len(w.inputs))
  <2>1. move(w, ta, length) = reset(w, ta)  BY <1>2, <1>4 DEF move
  <2> QED  BY <2>1, ResetKept
<1> QED  BY <1>3, <1>4

LEMMA MoveMEKept ==
  ASSUME NEW w, Kept(w), NEW length, NEW ta \in TriggerActivity
  PROVE  Kept(move_me(w, ta, length))
<1>1. w.inputs \in Seq(TriggerActivity)  BY KeptParts
<1>2. PICK n \in 0 .. Len(w.inputs) : n = n_to_erase(w.inputs, ta.time_start, length)
  BY <1>1, NToErase
<1>3. CASE n < Len(w.inputs)
  <2>1. move_me(w, ta, length) = add(erase_front(w, n), ta)  BY <1>2, <1>3 DEF move_me
  <2> QED  BY <1>3, <2>1, EraseKept, AddKept
<1>4. CASE ~ (n < Len(w.inputs))
  <2>1. PICK t \in Times : t = w.time_start  BY KeptParts
  <2>2. PICK a \in 0 .. AdcModulus - 1 : a = (w.adc_integral - TotalAdc(w.inputs)) % AdcModulus
    BY <1>1, ChargeLeft
  <2>3. SubSeq(w.inputs, n + 1, Len(w.inputs)) = <<>>
    <3>1. PICK s \in Seq(TriggerActivity) : s = w.inputs  BY <1>1
    <3>2. n = Len(s)  BY <1>4, <3>1
    <3>3. /\ SubSeq(s, n + 1, Len(s)) \in Seq(TriggerActivity)
          /\ Len(SubSeq(s, n + 1, Len(s))) = Len(s) - n
      BY <3>1, EndOfList
    <3>4. Len(SubSeq(s, n + 1, Len(s))) = 0  BY <3>2, <3>3
    <3> QED  BY <3>1, <3>3, <3>4, EmptySeq
  <2>4. PICK v : v = [time_start |-> t, adc_integral |-> a,
                      channel_states |-> unhit_front(w, n), inputs |-> <<>>]
    OBVIOUS
  <2>5. Kept(v)  BY <2>3, <2>4, WithoutFrontKept
  <2>6. move_me(w, ta, length) = add(v, ta)  BY <1>2, <1>4, <2>1, <2>2, <2>4 DEF move_me
  <2> QED  BY <2>5, <2>6, AddKept
<1> QED  BY <1>3, <1>4

-----------------------------------------------------------------------------
(* What a call takes in *)

\* The TA that comes is the next one.
LEMMA NextTA ==
  ASSUME NEW ta \in NextTAs(received), received \in Seq(TriggerActivity)
  PROVE  ta \in TriggerActivity /\ ta.id = Len(received) + 1
<1>1. PICK region \in Regions, t \in Times, p \in Payloads :
        ta = [id |-> Len(received) + 1, region |-> region, time_start |-> t,
              time_end |-> t + p.lasts, adc_integral |-> p.adc_integral,
              channels |-> p.channels]
  BY DEF NextTAs
<1>2. /\ p.adc_integral \in AdcValues /\ p.channels \in ChannelLists
      /\ p.lasts \in Durations
  BY DEF AdcValues, ChannelLists, Durations
<1>3. PICK e \in Timestamps : e = t + p.lasts  BY TAAssumption
<1>4. Len(received) + 1 \in Nat \ {0}  OBVIOUS
<1> QED  BY <1>1, <1>2, <1>3, <1>4 DEF TriggerActivity

\* What a call makes of the TA that came and of those held, of which it keeps
\* some: they are held on together, they go out together, or it starts the
\* next TC after the one in which all of those held went out.
number == Len(received) + 1

GivesOut(ids) ==
  \E tc : output_tc' = Append(output_tc, tc) /\ Ids(tc.inputs) = ids

Accounts(kept) ==
  \/ Held' = kept \cup {number} /\ UNCHANGED output_tc
  \/ Held' = {} /\ GivesOut(kept \cup {number})
  \/ kept = Held /\ Held # {} /\ Held' = {number} /\ GivesOut(Held)

\* Or it has no use for the TA.
Passes(kept) == Held' = kept /\ UNCHANGED output_tc

\* The TCs given out so far are a sequence.
Outputs == \E S : output_tc \in Seq(S)

\* In terms of the numbers given out: what was given stays given,
LEMMA GivenGrows ==
  ASSUME Outputs, NEW ids, GivesOut(ids)
  PROVE  /\ Outputs' /\ Emitted' = Emitted \cup ids
         /\ Given(output_tc)' = Append(Given(output_tc), ids)
<1>1. PICK S : output_tc \in Seq(S)  BY DEF Outputs
<1>2. PICK tc : output_tc' = Append(output_tc, tc) /\ Ids(tc.inputs) = ids
  BY DEF GivesOut
<1>3. /\ output_tc' \in Seq(S \cup {tc})
      /\ Given(output_tc') = Append(Given(output_tc), ids)
      /\ AllGiven(output_tc') = AllGiven(output_tc) \cup ids
  BY <1>1, <1>2, GivenAppend
<1>4. Emitted = AllGiven(output_tc) /\ Emitted' = AllGiven(output_tc')
  BY DEF Emitted, AllGiven
<1>5. Given(output_tc)' = Given(output_tc')  BY DEF Given
<1> QED  BY <1>3, <1>4, <1>5 DEF Outputs

\* what is kept is held or given, and the TA that came is too.
LEMMA NothingElseGoes ==
  ASSUME Outputs, NEW kept \in SUBSET Held, Accounts(kept)
  PROVE  Outputs' /\ Emitted' \cup Held' = Emitted \cup kept \cup {number}
<1>1. CASE Held' = kept \cup {number} /\ UNCHANGED output_tc
  BY <1>1 DEF Emitted, Outputs
<1>2. CASE Held' = {} /\ GivesOut(kept \cup {number})
  <2>1. Outputs' /\ Emitted' = Emitted \cup (kept \cup {number})  BY <1>2, GivenGrows
  <2> QED  BY <1>2, <2>1
<1>3. CASE kept = Held /\ Held' = {number} /\ GivesOut(Held)
  <2>1. Outputs' /\ Emitted' = Emitted \cup Held  BY <1>3, GivenGrows
  <2> QED  BY <1>3, <2>1
<1> QED  BY <1>1, <1>2, <1>3 DEF Accounts

\* Every such call is a step of the windowing discipline.
LEMMA CallIsAStep ==
  ASSUME Outputs, received \in Seq(TriggerActivity), NEW ta,
         received' = Append(received, ta),
         NEW kept \in SUBSET Held, Accounts(kept) \/ Passes(kept)
  PROVE  Segments!Next
<1>1. Len(received') = number /\ number = Len(received) + 1
  BY DEF number
<1>2. CASE Held' = kept \cup {number} /\ UNCHANGED output_tc
  <2>1. Segments!Hold(kept)  BY <1>1, <1>2 DEF Segments!Hold
  <2> QED  BY <2>1 DEF Segments!Next
<1>3. CASE Held' = {} /\ GivesOut(kept \cup {number})
  <2>1. Given(output_tc)' = Append(Given(output_tc), kept \cup {number})
    BY <1>3, GivenGrows
  <2>2. Segments!JoinAndGive(kept)  BY <1>1, <1>3, <2>1 DEF Segments!JoinAndGive, Given
  <2> QED  BY <2>2 DEF Segments!Next
<1>4. CASE Held # {} /\ Held' = {number} /\ GivesOut(Held)
  <2>1. Given(output_tc)' = Append(Given(output_tc), Held)
    BY <1>4, GivenGrows
  <2>2. Segments!GiveAndStart  BY <1>1, <1>4, <2>1 DEF Segments!GiveAndStart, Given
  <2> QED  BY <2>2 DEF Segments!Next
<1>5. CASE Held' = kept /\ UNCHANGED output_tc
  <2>1. Segments!Skip(kept)  BY <1>1, <1>5 DEF Segments!Skip
  <2> QED  BY <2>1 DEF Segments!Next
<1> QED  BY <1>2, <1>3, <1>4, <1>5 DEF Accounts, Passes

-----------------------------------------------------------------------------
(* The invariant *)

\* The TAs received are numbered as they came, and before the first one the
\* maker holds nothing and has given nothing out.
StreamInv ==
  /\ received \in Seq(TriggerActivity)
  /\ \A i \in DOMAIN received : received[i].id = i
  /\ Outputs
  /\ received = <<>> =>
       /\ m_current_window = EmptyWindow /\ m_current_tc = <<>> /\ m_activity = <<>>
       /\ output_tc = <<>>

\* The maker is one of the factory's and configured as its kind allows; a
\* PlaneCoincidence that is in use does not trigger on channels.
ConfigInv ==
  /\ maker \in Makers \cup {NoMaker}
  /\ maker = NoMaker => received = <<>>
  /\ maker \in Makers =>
       /\ DOMAIN m_config = DOMAIN Defaults[maker]
       /\ ValidConfig(m_config, maker) /\ ShortWindow(m_config)
  /\ maker = "PlaneCoincidence" => rejected \/ ~ m_config["trigger_on_n_channels"]

\* The window holds TAs of the stream and, unless it is empty, their charge;
\* only the makers with a window, and only if they judge it, have one.
WindowInv ==
  /\ m_current_window.inputs \in Seq(TriggerActivity)
  /\ ~ is_empty(m_current_window) => Charged(m_current_window)
  /\ FromStream(m_current_window.inputs, received)
  /\ maker \notin Judging \cup Closing => is_empty(m_current_window)
  /\ maker \in Closing /\ pass_through => is_empty(m_current_window)
  /\ WindowSpan

\* The lists of the others; Supernova has no more TAs than do without a TC.
BundleInv ==
  /\ m_current_tc \in Seq(TriggerActivity) /\ m_activity \in Seq(TriggerActivity)
  /\ maker = "Supernova" => Len(m_activity) <= SupernovaThreshold

Inv ==
  /\ StreamInv
  /\ ConfigInv
  /\ WindowInv
  /\ BundleInv
  /\ NothingDropped
  /\ NoTALostEarly

-----------------------------------------------------------------------------
(* What each maker does with a TA *)

\* What is kept of what was held: all of it where the maker only repackages,
\* and where it moves a window, all that fits the TA that came.
NoneDropped(kept, ta) ==
  /\ (\/ maker \in Bundling \cup {"ADCSimpleWindow"}
      \/ maker \in Closing /\ pass_through) =>
       Accounts(kept) /\ kept = Held
  /\ maker \in Judging \cup {"PlaneCoincidence"} =>
       /\ Accounts(kept)
       /\ \A x \in Held \ kept :
            ~ fits(ta.time_start, received[x].time_start, m_config["window_length"])

Takes(ta) ==
  \E kept \in SUBSET Held : (Accounts(kept) \/ Passes(kept)) /\ NoneDropped(kept, ta)

\* The list a maker holds.
LEMMA HeldIs ==
  /\ maker \in Judging \cup Closing \cup {"ADCSimpleWindow", "Prescale"} =>
       Held = Ids(m_current_window.inputs)
  /\ maker \in Bundling => Held = Ids(m_current_tc)
  /\ maker = "Supernova" => Held = Ids(m_activity)
BY DEF Held, HeldList, Judging, Closing, Bundling

LEMMA HeldBecomes ==
  ASSUME UNCHANGED maker
  PROVE  /\ maker \in Judging \cup Closing \cup {"ADCSimpleWindow", "Prescale"} =>
              Held' = Ids(m_current_window'.inputs)
         /\ maker \in Bundling => Held' = Ids(m_current_tc')
         /\ maker = "Supernova" => Held' = Ids(m_activity')
BY DEF Held, HeldList, Judging, Closing, Bundling, Ids

\* A window length is a short natural number.
LEMMA LengthIsShort ==
  ASSUME ConfigInv, maker \in Judging \cup Closing
  PROVE  Short(m_config["window_length"])
<1>1. maker \in Makers  BY TriggerCandidateFactoryAssumption
<1>2. DOMAIN m_config = WindowMembers
  BY <1>1, TriggerCandidateFactoryAssumption DEF ConfigInv
<1>3. "window_length" \in DOMAIN m_config \ Switches
  BY <1>2 DEF WindowMembers, Switches
<1>4. m_config["window_length"] \in Nat
  BY <1>1, <1>3 DEF ConfigInv, ValidConfig
<1> QED  BY <1>1, <1>3, <1>4 DEF ConfigInv, ShortWindow, Short

\* The window of a maker that judges at once, when ta has joined it.
LEMMA JoinedKeeps ==
  ASSUME ConfigInv, WindowInv, maker \in Judging, NEW ta \in TriggerActivity
  PROVE  LET u == joined(ta)
             length == m_config["window_length"]
         IN  /\ Charged(u) /\ SpanAgrees(u, length) /\ ta \in Range(u.inputs)
             /\ Range(u.inputs) \subseteq Range(m_current_window.inputs) \cup {ta}
             /\ Loses(m_current_window, u, ta, length)
<1>1. PICK u, w, length :
        u = joined(ta) /\ w = m_current_window /\ length = m_config["window_length"]
  OBVIOUS
<1>2. Short(length)  BY <1>1, LengthIsShort
<1>3. SpanAgrees(w, length)  BY <1>1 DEF WindowInv, WindowSpan
<1>4. w.inputs \in Seq(TriggerActivity) /\ (w.inputs # <<>> => Charged(w))
  BY <1>1 DEF WindowInv, is_empty
<1>5. CASE w.inputs = <<>>
  <2>1. u = reset(w, ta)  BY <1>1, <1>5 DEF joined, is_empty
  <2>2. Charged(u) /\ SpanAgrees(u, length) /\ Range(u.inputs) = {ta}
    BY <2>1, ResetKeeps
  <2>3. Loses(w, u, ta, length)  BY <1>5, RangeOfNone DEF Loses
  <2> QED  BY <1>1, <2>2, <2>3
<1>6. CASE w.inputs # <<>> /\ in_window(ta)
  <2>1. u = add(w, ta)  BY <1>1, <1>6 DEF joined, is_empty
  <2>2. Charged(u) /\ Range(u.inputs) = Range(w.inputs) \cup {ta}
    BY <1>4, <1>6, <2>1, AddKeeps
  <2>3. fits(ta.time_start, w.time_start, length)  BY <1>1, <1>6 DEF in_window
  <2>4. SpanAgrees(u, length)
    BY <1>2, <1>3, <1>4, <1>6, <2>1, <2>3, AddKeepsSpan
  <2>5. Loses(w, u, ta, length)  BY <2>2 DEF Loses
  <2> QED  BY <1>1, <2>2, <2>4, <2>5
<1>7. CASE w.inputs # <<>> /\ ~ in_window(ta)
  <2>1. u = move(w, ta, length)  BY <1>1, <1>7 DEF joined, is_empty
  <2>2. /\ Charged(u) /\ ta \in Range(u.inputs)
        /\ Range(u.inputs) \subseteq Range(w.inputs) \cup {ta}
        /\ Loses(w, u, ta, length)
        /\ SpanAgrees(w, length) => SpanAgrees(u, length)
    BY <1>2, <1>4, <1>7, <2>1, MoveKeeps
  <2> QED  BY <1>1, <1>3, <2>2
<1> QED  BY <1>5, <1>6, <1>7

\* An empty window, whatever its other members, keeps the invariant.
LEMMA EmptiedWindow ==
  ASSUME m_current_window'.inputs = <<>>
  PROVE  WindowInv'
<1>1. <<>> \in Seq(TriggerActivity) /\ FromStream(<<>>, received')
  BY RangeOfNone DEF FromStream
<1>2. is_empty(m_current_window)'  BY DEF is_empty
<1>3. WindowSpan'  BY DEF WindowSpan, SpanAgrees
<1> QED  BY <1>1, <1>2, <1>3 DEF WindowInv

\* So does one that holds TAs, for a maker that judges it.
LEMMA FilledWindow ==
  ASSUME UNCHANGED <<maker, m_config>>, maker \in Judging \cup Closing,
         maker \in Closing => ~ pass_through,
         Charged(m_current_window'), FromStream(m_current_window'.inputs, received'),
         maker # "MichelElectron" => SpanAgrees(m_current_window', m_config["window_length"])
  PROVE  WindowInv'
<1>1. m_current_window'.inputs \in Seq(TriggerActivity)  BY DEF Charged
<1>2. Charged(m_current_window)'  BY DEF Charged, ChargeAgrees
<1>3. FromStream(m_current_window.inputs, received)'  BY DEF FromStream
<1>4. WindowSpan'  BY DEF WindowSpan, SpanAgrees, Judging
<1>5. maker' \in Judging \cup Closing /\ ~ (maker' \in Closing /\ pass_through')
  BY DEF pass_through
<1> QED  BY <1>1, <1>2, <1>3, <1>4, <1>5 DEF WindowInv

LEMMA JudgingTakes ==
  ASSUME Inv, maker \in Judging, NEW ta \in NextTAs(received), receive_and_judge(ta)
  PROVE  WindowInv' /\ BundleInv' /\ Takes(ta)
<1>1. /\ ta \in TriggerActivity /\ ta.id = Len(received) + 1
      /\ received \in Seq(TriggerActivity)
  BY NextTA DEF Inv, StreamInv
<1>2. PICK u, w, length :
        u = joined(ta) /\ w = m_current_window /\ length = m_config["window_length"]
  OBVIOUS
<1>3. /\ Charged(u) /\ SpanAgrees(u, length) /\ ta \in Range(u.inputs)
      /\ Range(u.inputs) \subseteq Range(w.inputs) \cup {ta}
      /\ Loses(w, u, ta, length)
  BY <1>1, <1>2, JoinedKeeps DEF Inv
<1>4. FromStream(w.inputs, received)  BY <1>2 DEF Inv, WindowInv
<1>5. PICK kept \in SUBSET Held :
        /\ Ids(u.inputs) = kept \cup {number}
        /\ FromStream(u.inputs, Append(received, ta))
        /\ \A x \in Held \ kept :
             received[x] \in Range(w.inputs) \ Range(u.inputs)
  <2>1. Held = Ids(w.inputs)  BY <1>2, HeldIs
  <2>2. LET kept == Ids(u.inputs) \cap Ids(w.inputs)
        IN  /\ Ids(u.inputs) = kept \cup {ta.id}
            /\ FromStream(u.inputs, Append(received, ta))
            /\ \A x \in Ids(w.inputs) \ kept :
                 /\ x \in DOMAIN received
                 /\ received[x] \in Range(w.inputs) \ Range(u.inputs)
    BY <1>1, <1>3, <1>4, ListTakes
  <2> QED  BY <1>1, <2>1, <2>2 DEF number
<1>6. /\ received' = Append(received, ta) /\ UNCHANGED <<maker, m_config>>
      /\ UNCHANGED <<m_current_tc, m_activity>>
  BY DEF receive_and_judge, take, bundleVars
<1>7. BundleInv'  BY <1>6 DEF Inv, BundleInv
<1>8. maker \notin Closing /\ maker # "PlaneCoincidence" /\ maker # "ADCSimpleWindow"
      /\ maker \notin Bundling
  BY DEF Judging, Closing, Bundling
<1>9. ASSUME Accounts(kept) PROVE Takes(ta)
  <2>1. \A x \in Held \ kept :
          ~ fits(ta.time_start, received[x].time_start, m_config["window_length"])
    BY <1>2, <1>3, <1>5 DEF Loses
  <2>2. NoneDropped(kept, ta)  BY <1>8, <1>9, <2>1 DEF NoneDropped
  <2> QED  BY <1>9, <2>2 DEF Takes
<1>10. CASE hold_ta(ta)
  <2>1. m_current_window' = u /\ UNCHANGED output_tc  BY <1>2, <1>10 DEF hold_ta
  <2>2. Held' = kept \cup {number}  BY <1>5, <1>6, <2>1, HeldBecomes
  <2>3. WindowInv'
    BY <1>2, <1>3, <1>5, <1>6, <1>8, <2>1, FilledWindow
  <2> QED  BY <1>7, <1>9, <2>1, <2>2, <2>3 DEF Accounts
<1>11. CASE emit_tc(ta)
  <2>1. /\ m_current_window'.inputs = <<>>
        /\ output_tc' = Append(output_tc, construct_tc(u))
    BY <1>2, <1>11 DEF emit_tc, clear, EmptyWindow
  <2>2. Held' = {}  BY <1>6, <2>1, HeldBecomes, RangeOfNone
  <2>3. construct_tc(u).inputs = u.inputs  BY DEF construct_tc, tc_of
  <2>4. GivesOut(kept \cup {number})  BY <1>5, <2>1, <2>3 DEF GivesOut
  <2>5. WindowInv'  BY <2>1, EmptiedWindow
  <2> QED  BY <1>7, <1>9, <2>2, <2>4, <2>5 DEF Accounts
<1> QED  BY <1>10, <1>11 DEF receive_and_judge

\* A list that is not empty has a number.
LEMMA SomeId ==
  ASSUME NEW list \in Seq(TriggerActivity), list # <<>>
  PROVE  Ids(list) # {}
<1>1. 1 \in DOMAIN list  OBVIOUS
<1> QED  BY <1>1 DEF Ids

\* The makers that judge a window on closing it, whatever their clear() and
\* move() do, as long as the one empties the window and the other keeps it.
LEMMA ClosingTakes ==
  ASSUME Inv, maker \in Closing, ~ rejected, NEW ta \in NextTAs(received),
         NEW cleared, cleared.inputs = <<>>,
         NEW moved,
         ~ is_empty(m_current_window) =>
           /\ Charged(moved) /\ ta \in Range(moved.inputs)
           /\ Range(moved.inputs) \subseteq Range(m_current_window.inputs) \cup {ta},
         ~ is_empty(m_current_window) /\ maker = "PlaneCoincidence" =>
           /\ Loses(m_current_window, moved, ta, m_config["window_length"])
           /\ SpanAgrees(moved, m_config["window_length"]),
         receive_and_close(ta, cleared, moved)
  PROVE  WindowInv' /\ BundleInv' /\ Takes(ta)
<1>1. /\ ta \in TriggerActivity /\ ta.id = Len(received) + 1 /\ number = ta.id
      /\ received \in Seq(TriggerActivity)
  BY NextTA DEF Inv, StreamInv, number
<1>2. PICK w, length : w = m_current_window /\ length = m_config["window_length"]
  OBVIOUS
<1>3. /\ received' = Append(received, ta) /\ UNCHANGED <<maker, m_config>>
      /\ UNCHANGED <<m_current_tc, m_activity>>
  BY DEF receive_and_close, take, bundleVars
<1>4. BundleInv'  BY <1>3 DEF Inv, BundleInv
<1>5. /\ w.inputs \in Seq(TriggerActivity) /\ (w.inputs # <<>> => Charged(w))
      /\ FromStream(w.inputs, received) /\ (pass_through => w.inputs = <<>>)
      /\ maker = "PlaneCoincidence" => SpanAgrees(w, length)
  BY <1>2 DEF Inv, WindowInv, WindowSpan, is_empty
<1>6. Held = Ids(w.inputs) /\ Held' = Ids(m_current_window'.inputs)
  BY <1>2, <1>3, HeldIs, HeldBecomes
<1>7. Short(length)  BY <1>2, LengthIsShort DEF Inv
<1>8. FromStream(w.inputs, received')  BY <1>1, <1>3, <1>5, FromLongerStream
<1>9. maker \notin Judging /\ maker \notin Bundling /\ maker # "ADCSimpleWindow"
  BY DEF Judging, Closing, Bundling
<1>10. maker # "MichelElectron" => maker = "PlaneCoincidence"  BY DEF Closing
\* A window of the new TA only.
<1>11. ASSUME m_current_window' = reset(m_current_window, ta), ~ pass_through
       PROVE  WindowInv' /\ Held' = {number}
  <2>1. PICK u : u = reset(m_current_window, ta)  OBVIOUS
  <2>2. /\ Charged(u) /\ SpanAgrees(u, length)
        /\ u.inputs = <<ta>> /\ Range(u.inputs) = {ta}
    BY <1>1, <2>1, ResetKeeps
  <2>3. FromStream(u.inputs, received')
    <3>1. ta.id \in DOMAIN received' /\ received'[ta.id] = ta  BY <1>1, <1>3
    <3> QED  BY <2>2, <3>1 DEF FromStream
  <2>4. WindowInv'  BY <1>2, <1>3, <1>11, <2>1, <2>2, <2>3, FilledWindow
  <2>5. Held' = {number}  BY <1>1, <1>6, <1>11, <2>1, <2>2, RangeOfOne
  <2> QED  BY <2>4, <2>5
\* Nothing held is lost.
<1>12. ASSUME Accounts(Held) PROVE Takes(ta)
  <2>1. NoneDropped(Held, ta)  BY <1>9, <1>12 DEF NoneDropped
  <2>2. Held \in SUBSET Held  OBVIOUS
  <2> QED  BY <1>12, <2>1, <2>2 DEF Takes
<1>13. CASE start_window(ta)
  <2>1. /\ w.inputs = <<>> /\ ~ pass_through /\ UNCHANGED output_tc
        /\ m_current_window' = reset(m_current_window, ta)
    BY <1>2, <1>13 DEF start_window, is_empty
  <2>2. WindowInv' /\ Held' = {number}  BY <1>11, <2>1
  <2>3. Held = {}  BY <1>6, <2>1, RangeOfNone
  <2>4. Accounts(Held)  BY <2>1, <2>2, <2>3 DEF Accounts
  <2> QED  BY <1>4, <1>12, <2>2, <2>4
<1>14. CASE pass_ta(ta, cleared)
  <2>1. /\ w.inputs = <<>> /\ m_current_window' = cleared
        /\ output_tc' = Append(output_tc, construct_tc_to_last(reset(w, ta)))
    BY <1>2, <1>14 DEF pass_ta, is_empty
  <2>2. construct_tc_to_last(reset(w, ta)).inputs = <<ta>>
    BY DEF construct_tc_to_last, tc_of, reset
  <2>3. GivesOut({number})  BY <1>1, <2>1, <2>2, RangeOfOne DEF GivesOut
  <2>4. WindowInv'  BY <2>1, EmptiedWindow
  <2>5. Held = {} /\ Held' = {}  BY <1>6, <2>1, RangeOfNone
  <2>6. Accounts(Held)
    <3>1. Held \cup {number} = {number}  BY <2>5
    <3> QED  BY <2>3, <2>5, <3>1 DEF Accounts
  <2> QED  BY <1>4, <1>12, <2>4, <2>6
<1>15. CASE fill_window(ta)
  <2>1. PICK u : /\ w.inputs # <<>> /\ u = add(w, ta) /\ m_current_window' = u
                 /\ fits(ta.time_start, w.time_start, length) /\ UNCHANGED output_tc
    BY <1>2, <1>15 DEF fill_window, is_empty, in_window
  <2>2. Charged(u) /\ Range(u.inputs) = Range(w.inputs) \cup {ta}
    BY <1>1, <1>5, <2>1, AddKeeps
  <2>3. maker = "PlaneCoincidence" => SpanAgrees(u, length)
    BY <1>1, <1>5, <1>7, <2>1, AddKeepsSpan
  <2>4. FromStream(u.inputs, received')
    <3>1. ta.id \in DOMAIN received' /\ received'[ta.id] = ta  BY <1>1, <1>3
    <3> QED  BY <1>8, <2>2, <3>1 DEF FromStream
  <2>5. WindowInv'
    BY <1>2, <1>3, <1>5, <1>10, <2>1, <2>2, <2>3, <2>4, FilledWindow
  <2>6. Held' = Held \cup {number}
    <3>1. Ids(u.inputs) = Ids(w.inputs) \cup {ta.id}  BY <2>2, IdsOfRange
    <3> QED  BY <1>1, <1>6, <2>1, <3>1
  <2>7. Accounts(Held)  BY <2>1, <2>6 DEF Accounts
  <2> QED  BY <1>4, <1>12, <2>5, <2>7
<1>16. CASE emit_closed(ta)
  <2>1. /\ w.inputs # <<>> /\ m_current_window' = reset(m_current_window, ta)
        /\ output_tc' = Append(output_tc, construct_tc_to_last(w))
    BY <1>2, <1>16 DEF emit_closed, is_empty
  <2>2. construct_tc_to_last(w).inputs = w.inputs  BY DEF construct_tc_to_last, tc_of
  <2>3. GivesOut(Held)  BY <1>6, <2>1, <2>2 DEF GivesOut
  <2>4. WindowInv' /\ Held' = {number}  BY <1>5, <1>11, <2>1
  <2>5. Held # {}  BY <1>5, <1>6, <2>1, SomeId
  <2>6. Accounts(Held)  BY <2>3, <2>4, <2>5 DEF Accounts
  <2> QED  BY <1>4, <1>12, <2>4, <2>6
<1>17. CASE drop_closed(ta)
  <2>1. /\ w.inputs # <<>> /\ m_current_window' = reset(m_current_window, ta)
        /\ over_n_channels(w) /\ UNCHANGED output_tc
    BY <1>2, <1>17 DEF drop_closed, is_empty
  <2>2. maker # "PlaneCoincidence"
    BY <2>1 DEF Inv, ConfigInv, over_n_channels
  <2>3. WindowInv' /\ Held' = {number}  BY <1>5, <1>11, <2>1
  <2>4. Accounts({})  BY <2>1, <2>3 DEF Accounts
  <2>5. NoneDropped({}, ta)  BY <1>5, <1>9, <2>1, <2>2 DEF NoneDropped
  <2>6. {} \in SUBSET Held  OBVIOUS
  <2> QED  BY <1>4, <2>3, <2>4, <2>5, <2>6 DEF Takes
<1>18. CASE slide_window(ta, moved)
  <2>1. /\ w.inputs # <<>> /\ m_current_window' = moved /\ UNCHANGED output_tc
        /\ ~ pass_through
    BY <1>2, <1>5, <1>18 DEF slide_window, is_empty
  <2>2. /\ Charged(moved) /\ ta \in Range(moved.inputs)
        /\ Range(moved.inputs) \subseteq Range(w.inputs) \cup {ta}
        /\ maker = "PlaneCoincidence" =>
             Loses(w, moved, ta, length) /\ SpanAgrees(moved, length)
    BY <1>2, <2>1 DEF is_empty
  <2>3. PICK kept \in SUBSET Held :
          /\ Ids(moved.inputs) = kept \cup {number}
          /\ FromStream(moved.inputs, received')
          /\ \A x \in Held \ kept :
               received[x] \in Range(w.inputs) \ Range(moved.inputs)
    <3>1. LET kept == Ids(moved.inputs) \cap Ids(w.inputs)
          IN  /\ Ids(moved.inputs) = kept \cup {ta.id}
              /\ FromStream(moved.inputs, Append(received, ta))
              /\ \A x \in Ids(w.inputs) \ kept :
                   /\ x \in DOMAIN received
                   /\ received[x] \in Range(w.inputs) \ Range(moved.inputs)
      BY <1>1, <1>5, <2>2, ListTakes
    <3> QED  BY <1>1, <1>3, <1>6, <3>1
  <2>4. WindowInv'
    BY <1>2, <1>3, <1>10, <2>1, <2>2, <2>3, FilledWindow
  <2>5. Accounts(kept)  BY <1>6, <2>1, <2>3 DEF Accounts
  <2>6. maker = "PlaneCoincidence" =>
          \A x \in Held \ kept :
            ~ fits(ta.time_start, received[x].time_start, m_config["window_length"])
    BY <1>2, <2>2, <2>3 DEF Loses
  <2>7. NoneDropped(kept, ta)  BY <1>9, <2>1, <2>5, <2>6 DEF NoneDropped
  <2> QED  BY <1>4, <2>4, <2>5, <2>7 DEF Takes
<1> QED  BY <1>13, <1>14, <1>15, <1>16, <1>17, <1>18 DEF receive_and_close

LEMMA PlaneCoincidenceTakes ==
  ASSUME Inv, maker = "PlaneCoincidence", ~ rejected, NEW ta \in NextTAs(received),
         receive_pc(ta)
  PROVE  WindowInv' /\ BundleInv' /\ Takes(ta)
<1>1. maker \in Closing  BY DEF Closing
<1>2. PICK w, length : w = m_current_window /\ length = m_config["window_length"]
  OBVIOUS
<1>3. PICK moved : moved = move(w, ta, length)  OBVIOUS
<1>4. PICK cleared : cleared = clear(reset(w, ta)) /\ cleared.inputs = <<>>
  <2>1. clear(reset(w, ta)).inputs = <<>>  BY DEF clear, EmptyWindow
  <2> QED  BY <2>1
<1>5. receive_and_close(ta, cleared, moved)  BY <1>2, <1>3, <1>4 DEF receive_pc
<1>6. ASSUME w.inputs # <<>>
      PROVE  /\ Charged(moved) /\ ta \in Range(moved.inputs)
             /\ Range(moved.inputs) \subseteq Range(w.inputs) \cup {ta}
             /\ Loses(w, moved, ta, length) /\ SpanAgrees(moved, length)
  <2>1. Charged(w) /\ SpanAgrees(w, length)
    BY <1>2, <1>6 DEF Inv, WindowInv, WindowSpan, is_empty
  <2>2. Short(length)  BY <1>1, <1>2, LengthIsShort DEF Inv
  <2>3. ta \in TriggerActivity  BY NextTA DEF Inv, StreamInv
  <2>4. /\ Charged(moved) /\ ta \in Range(moved.inputs)
        /\ Range(moved.inputs) \subseteq Range(w.inputs) \cup {ta}
        /\ Loses(w, moved, ta, length)
        /\ SpanAgrees(w, length) => SpanAgrees(moved, length)
    BY <1>3, <1>6, <2>1, <2>2, <2>3, MoveKeeps
  <2> QED  BY <2>1, <2>4
<1> QED  BY <1>1, <1>2, <1>4, <1>5, <1>6, ClosingTakes DEF is_empty

LEMMA MichelElectronTakes ==
  ASSUME Inv, maker = "MichelElectron", ~ rejected, NEW ta \in NextTAs(received),
         receive_me(ta)
  PROVE  WindowInv' /\ BundleInv' /\ Takes(ta)
<1>1. maker \in Closing /\ maker # "PlaneCoincidence"  BY DEF Closing
<1>2. PICK w, length : w = m_current_window /\ length = m_config["window_length"]
  OBVIOUS
<1>3. PICK moved : moved = move_me(w, ta, length)  OBVIOUS
<1>4. PICK cleared : cleared = clear_me(reset(w, ta)) /\ cleared.inputs = <<>>
  <2>1. clear_me(reset(w, ta)).inputs = <<>>  BY DEF clear_me, reset
  <2> QED  BY <2>1
<1>5. receive_and_close(ta, cleared, moved)  BY <1>2, <1>3, <1>4 DEF receive_me
<1>6. ASSUME w.inputs # <<>>
      PROVE  /\ Charged(moved) /\ ta \in Range(moved.inputs)
             /\ Range(moved.inputs) \subseteq Range(w.inputs) \cup {ta}
  <2>1. Charged(w)  BY <1>2, <1>6 DEF Inv, WindowInv, is_empty
  <2>2. length \in Nat  BY <1>1, <1>2, LengthIsShort DEF Inv, Short
  <2>3. ta \in TriggerActivity  BY NextTA DEF Inv, StreamInv
  <2> QED  BY <1>3, <2>1, <2>2, <2>3, MoveMEKeeps
<1> QED  BY <1>1, <1>2, <1>4, <1>5, <1>6, ClosingTakes DEF is_empty

-----------------------------------------------------------------------------
(* The makers without a window *)

\* They leave the window empty.
LEMMA WindowStaysEmpty ==
  ASSUME Inv, maker \notin Judging \cup Closing, UNCHANGED m_current_window
  PROVE  WindowInv' /\ is_empty(m_current_window)
BY EmptiedWindow DEF Inv, WindowInv, is_empty

\* ADCSimpleWindow and Prescale hold nothing: a TA goes out by itself or not
\* at all.
LEMMA SingleTakes ==
  ASSUME Inv, NEW ta \in NextTAs(received),
         \/ maker = "ADCSimpleWindow" /\ receive_adcsw(ta)
         \/ maker = "Prescale" /\ receive_prescale(ta)
  PROVE  WindowInv' /\ BundleInv' /\ Takes(ta)
<1>1. ta.id = number
  BY NextTA DEF Inv, StreamInv, number
<1>2. maker \notin Judging \cup Closing /\ maker \notin Bundling /\ maker # "Supernova"
  BY DEF Judging, Closing, Bundling
<1>3. UNCHANGED <<maker, m_current_window, m_current_tc, m_activity>>
  BY DEF receive_adcsw, receive_prescale, take, members, bundleVars
<1>4. WindowInv' /\ m_current_window.inputs = <<>>
  BY <1>2, <1>3, WindowStaysEmpty DEF is_empty
<1>5. BundleInv'  BY <1>3 DEF Inv, BundleInv
<1>6. Held = {} /\ Held' = {}
  BY <1>3, <1>4, HeldIs, HeldBecomes, RangeOfNone
<1>7. ASSUME NEW tc, tc.inputs = <<ta>>, output_tc' = Append(output_tc, tc)
      PROVE  Accounts({})
  <2>1. Ids(tc.inputs) = {} \cup {number}  BY <1>1, <1>7, RangeOfOne
  <2>2. GivesOut({} \cup {number})  BY <1>7, <2>1 DEF GivesOut
  <2> QED  BY <1>6, <2>2 DEF Accounts
<1>8. ASSUME Accounts({}) \/ (maker = "Prescale" /\ UNCHANGED output_tc)
      PROVE  Takes(ta)
  <2>1. Accounts({}) \/ Passes({})  BY <1>6, <1>8 DEF Passes
  <2>2. NoneDropped({}, ta)  BY <1>2, <1>6, <1>8 DEF NoneDropped, Judging
  <2> QED  BY <2>1, <2>2 DEF Takes
<1>9. CASE maker = "ADCSimpleWindow" /\ receive_adcsw(ta)
  <2>1. PICK tc : tc.inputs = <<ta>> /\ output_tc' = Append(output_tc, tc)
    BY <1>9 DEF receive_adcsw, tc_of
  <2> QED  BY <1>4, <1>5, <1>7, <1>8, <2>1
<1>10. CASE maker = "Prescale" /\ receive_prescale(ta)
  <2>1. UNCHANGED output_tc \/ output_tc' = Append(output_tc, prescaled_tc(ta))
    BY <1>10 DEF receive_prescale
  <2>2. prescaled_tc(ta).inputs = <<ta>>  BY DEF prescaled_tc, tc_of
  <2> QED  BY <1>4, <1>5, <1>7, <1>8, <1>10, <2>1, <2>2
<1> QED  BY <1>9, <1>10

\* BundleN, ChannelDistance and DBSCAN
LEMMA BundleTakes ==
  ASSUME Inv, maker \in Bundling, NEW ta \in NextTAs(received),
         receive_bundle(ta) \/ receive_by_tp_count(ta)
  PROVE  WindowInv' /\ BundleInv' /\ Takes(ta)
<1>1. ta.id = number /\ ta \in TriggerActivity
  BY NextTA DEF Inv, StreamInv, number
<1>2. maker \notin Judging \cup Closing /\ maker # "Supernova"
  BY DEF Judging, Closing, Bundling
<1>3. UNCHANGED <<maker, m_current_window, m_activity>>
  BY DEF receive_bundle, receive_by_tp_count, take
<1>4. WindowInv'  BY <1>2, <1>3, WindowStaysEmpty
<1>5. m_current_tc \in Seq(TriggerActivity)  BY DEF Inv, BundleInv
<1>6. Held = Ids(m_current_tc) /\ Held' = Ids(m_current_tc')
  BY <1>3, HeldIs, HeldBecomes
<1>7. PICK more : more = Append(m_current_tc, ta)  OBVIOUS
<1>8. more \in Seq(TriggerActivity) /\ Ids(more) = Held \cup {number}
  <2>1. Ids(more) = Ids(m_current_tc) \cup {ta.id}  BY <1>1, <1>5, <1>7, RangeOfAppend
  <2> QED  BY <1>1, <1>5, <1>6, <1>7, <2>1
<1>9. ASSUME Accounts(Held), m_current_tc' \in Seq(TriggerActivity)
      PROVE  WindowInv' /\ BundleInv' /\ Takes(ta)
  <2>1. BundleInv'  BY <1>2, <1>3, <1>9 DEF Inv, BundleInv
  <2>2. NoneDropped(Held, ta)
    <3>1. maker \notin Judging \cup {"PlaneCoincidence"}  BY <1>2 DEF Closing
    <3> QED  BY <1>9, <3>1 DEF NoneDropped
  <2>3. Held \in SUBSET Held  OBVIOUS
  <2> QED  BY <1>4, <1>9, <2>1, <2>2, <2>3 DEF Takes
<1>10. \A inputs, candidate : bundled_tc(inputs, candidate).inputs = inputs
  BY DEF bundled_tc, tc_of
\* The TA joins those held,
<1>11. CASE m_current_tc' = more /\ UNCHANGED output_tc
  <2>1. Accounts(Held)  BY <1>6, <1>8, <1>11 DEF Accounts
  <2> QED  BY <1>8, <1>9, <1>11, <2>1
\* and goes out with them,
<1>12. CASE emit_bundle(ta)
  <2>1. /\ m_current_tc' = <<>>
        /\ output_tc' = Append(output_tc, bundled_tc(more, more[1]))
    BY <1>7, <1>12 DEF emit_bundle
  <2>2. GivesOut(Held \cup {number})  BY <1>8, <1>10, <2>1 DEF GivesOut
  <2>3. Held' = {}  BY <1>6, <2>1, RangeOfNone
  <2>4. Accounts(Held)  BY <2>2, <2>3 DEF Accounts
  <2>5. <<>> \in Seq(TriggerActivity)  OBVIOUS
  <2> QED  BY <1>9, <2>1, <2>4, <2>5
\* or is the first one, or the first of the next TC.
<1>13. ASSUME set_new_tc(ta)
       PROVE  m_current_tc' \in Seq(TriggerActivity) /\ Held' = {number}
  BY <1>1, <1>6, <1>13, RangeOfOne DEF set_new_tc
<1>14. CASE start_by_tp_count(ta)
  <2>1. set_new_tc(ta) /\ m_current_tc = <<>> /\ UNCHANGED output_tc
    BY <1>14 DEF start_by_tp_count
  <2>2. Held = {}  BY <1>6, <2>1, RangeOfNone
  <2>3. Accounts(Held)  BY <1>13, <2>1, <2>2 DEF Accounts
  <2> QED  BY <1>9, <1>13, <2>1, <2>3
<1>15. CASE emit_by_tp_count(ta)
  <2>1. PICK candidate :
          /\ m_current_tc # <<>>
          /\ output_tc' = Append(output_tc, bundled_tc(m_current_tc, candidate))
          /\ set_new_tc(ta)
    BY <1>15 DEF emit_by_tp_count
  <2>2. GivesOut(Held)  BY <1>6, <1>10, <2>1 DEF GivesOut
  <2>3. Held # {}  BY <1>5, <1>6, <2>1, SomeId
  <2>4. Accounts(Held)  BY <1>13, <2>1, <2>2, <2>3 DEF Accounts
  <2> QED  BY <1>9, <1>13, <2>1, <2>4
<1>16. grow_bundle(ta) \/ grow_by_tp_count(ta) => m_current_tc' = more /\ UNCHANGED output_tc
  BY <1>7 DEF grow_bundle, grow_by_tp_count
<1> QED
  BY <1>11, <1>12, <1>14, <1>15, <1>16 DEF receive_bundle, receive_by_tp_count

\* FlushOldActivity() keeps the TAs of the last ten seconds, and no others.
Recent(ta, time_now) == ~ (ta.time_start < time_now - SupernovaWindow)

LEMMA FlushKeepsSome ==
  ASSUME m_activity \in Seq(TriggerActivity), NEW time_now
  PROVE  LET left == FlushOldActivity(time_now)
         IN  /\ left \in Seq(TriggerActivity) /\ Len(left) <= Len(m_activity)
             /\ Ids(left) \subseteq Ids(m_activity)
             /\ Range(left) = { ta \in Range(m_activity) : Recent(ta, time_now) }
<1> DEFINE Old(k) == m_activity[k].time_start < time_now - SupernovaWindow
           Flushes(g, n) ==
             g = [k \in 0 .. n |->
                    IF k = 0 THEN <<>>
                    ELSE IF Old(k) THEN g[k - 1] ELSE Append(g[k - 1], m_activity[k])]
           T == { n \in Nat : \E g : Flushes(g, n) }
<1>1. PICK m \in Nat : m = Len(m_activity) /\ DOMAIN m_activity = 1 .. m
  OBVIOUS
<1> HIDE DEF Old
<1>2. 0 \in T
  <2>1. Flushes([k \in 0 .. 0 |-> <<>>], 0)  OBVIOUS
  <2> QED  BY <2>1
<1>3. ASSUME NEW n \in T PROVE n + 1 \in T
  <2>1. PICK g : Flushes(g, n)  OBVIOUS
  <2> DEFINE h == [k \in 0 .. (n + 1) |->
                     IF k = n + 1
                     THEN IF Old(n + 1) THEN g[n] ELSE Append(g[n], m_activity[n + 1])
                     ELSE g[k]]
  <2>2. ASSUME NEW k \in 0 .. (n + 1)
        PROVE  h[k] = IF k = 0 THEN <<>>
                      ELSE IF Old(k) THEN h[k - 1] ELSE Append(h[k - 1], m_activity[k])
    <3>1. CASE k = n + 1
      <4>1. k # 0 /\ k - 1 = n /\ n \in 0 .. (n + 1) /\ n # n + 1  BY <3>1
      <4>2. h[n] = g[n]  BY <4>1
      <4> QED  BY <3>1, <4>1, <4>2
    <3>2. CASE k # n + 1
      <4>1. k \in 0 .. n /\ h[k] = g[k]  BY <3>2
      <4>2. CASE k = 0  BY <2>1, <4>1, <4>2
      <4>3. CASE k # 0
        <5>1. k - 1 \in 0 .. (n + 1) /\ k - 1 # n + 1  BY <4>1, <4>3
        <5>2. h[k - 1] = g[k - 1]  BY <5>1
        <5> QED  BY <2>1, <4>1, <4>3, <5>2
      <4> QED  BY <4>2, <4>3
    <3> QED  BY <3>1, <3>2
  <2>3. Flushes(h, n + 1)
    <3> HIDE DEF h
    <3>1. h = [k \in 0 .. (n + 1) |-> h[k]]  BY DEF h
    <3> QED  BY <2>2, <3>1
  <2>4. n + 1 \in Nat  OBVIOUS
  <2> HIDE DEF h, Flushes
  <2> QED  BY <2>3, <2>4
<1>4. \E g : Flushes(g, m)
  <2>1. T \subseteq Nat  OBVIOUS
  <2> HIDE DEF T
  <2>2. T = Nat  BY <1>2, <1>3, <2>1, NaturalsBySuccessor
  <2>3. m \in T  BY <2>2
  <2> QED  BY <2>3 DEF T
<1>5. PICK f : Flushes(f, m) /\ FlushOldActivity(time_now) = f[m]
  <2> DEFINE f == CHOOSE g : Flushes(g, m)
  <2>1. FlushOldActivity(time_now) = f[m]  BY <1>1 DEF FlushOldActivity, Old
  <2> HIDE DEF Flushes
  <2>2. Flushes(f, m)  BY <1>4
  <2> HIDE DEF f
  <2> QED  BY <2>1, <2>2
<1>6. /\ f[0] = <<>>
      /\ \A k \in 1 .. m :
           f[k] = IF Old(k) THEN f[k - 1] ELSE Append(f[k - 1], m_activity[k])
  <2>1. \A k \in 0 .. m :
          f[k] = IF k = 0 THEN <<>>
                 ELSE IF Old(k) THEN f[k - 1] ELSE Append(f[k - 1], m_activity[k])
    BY <1>5
  <2> HIDE DEF Flushes
  <2>2. 0 \in 0 .. m /\ \A k \in 1 .. m : k \in 0 .. m /\ k # 0  OBVIOUS
  <2> QED  BY <2>1, <2>2
<1> HIDE DEF Flushes, T
<1> DEFINE of(k) == { m_activity[i] : i \in { x \in 1 .. k : ~ Old(x) } }
           Some(l, k) == /\ l \in Seq(TriggerActivity) /\ Len(l) <= k
                         /\ Range(l) = of(k)
           U == { k \in Nat : k <= m => Some(f[k], k) }
<1>7. 0 \in U
  <2>1. <<>> \in Seq(TriggerActivity) /\ Len(<<>>) <= 0 /\ of(0) = {}  OBVIOUS
  <2> QED  BY <1>6, <2>1, RangeOfNone
<1>8. ASSUME NEW k \in U PROVE k + 1 \in U
  <2>1. CASE k + 1 <= m
    <3>1. k + 1 \in 1 .. m /\ (k + 1) - 1 = k /\ k <= m  BY <2>1
    <3>2. PICK n \in 1 .. m : n = k + 1  BY <3>1
    <3>3. Some(f[k], k) /\ f[n] = IF Old(n) THEN f[k] ELSE Append(f[k], m_activity[n])
      BY <1>6, <3>1, <3>2
    <3>4. m_activity[n] \in TriggerActivity  BY <1>1
    <3>5. of(n) = IF Old(n) THEN of(k) ELSE of(k) \cup {m_activity[n]}
      <4>1. 1 .. n = (1 .. k) \cup {n}  BY <3>2
      <4> QED  BY <4>1
    <3> HIDE DEF of
    <3>6. Some(f[n], n)
      <4>1. CASE Old(n)  BY <3>2, <3>3, <3>5, <4>1
      <4>2. CASE ~ Old(n)
        <5>1. PICK l \in Seq(TriggerActivity) : l = f[k] /\ Len(l) <= k /\ Range(l) = of(k)
          BY <3>3
        <5>2. PICK e \in TriggerActivity : e = m_activity[n]  BY <3>4
        <5>3. f[n] = Append(l, e)  BY <3>3, <4>2, <5>1, <5>2
        <5>4. Append(l, e) \in Seq(TriggerActivity) /\ Len(Append(l, e)) = Len(l) + 1
          BY AppendProperties
        <5>5. Range(Append(l, e)) = Range(l) \cup {e}  BY RangeOfAppend
        <5>6. Len(l) + 1 <= n  BY <3>2, <5>1
        <5> QED  BY <3>5, <4>2, <5>1, <5>2, <5>3, <5>4, <5>5, <5>6
      <4> QED  BY <4>1, <4>2
    <3> QED  BY <3>2, <3>6
  <2>2. CASE ~ (k + 1 <= m)  BY <2>2
  <2> QED  BY <2>1, <2>2
<1>9. m \in U
  <2>1. U \subseteq Nat  OBVIOUS
  <2> HIDE DEF U
  <2> QED  BY <1>7, <1>8, <2>1, NaturalsBySuccessor
<1>10. Some(f[m], m)  BY <1>9
<1>11. of(m) = { ta \in Range(m_activity) : Recent(ta, time_now) }
  BY <1>1 DEF Old, Recent, Range
<1>12. of(m) \subseteq Range(m_activity)  BY <1>1 DEF Range
<1> HIDE DEF of
<1>13. Ids(f[m]) \subseteq Ids(m_activity)  BY <1>10, <1>12, IdsOfRange
<1> QED  BY <1>1, <1>5, <1>10, <1>11, <1>13

\* Supernova: a TA that is not busy is of no use, and never completes a TC.
LEMMA SupernovaTakes ==
  ASSUME Inv, maker = "Supernova", NEW ta \in NextTAs(received), receive_supernova(ta)
  PROVE  WindowInv' /\ BundleInv' /\ Takes(ta)
<1>1. ta.id = number /\ ta \in TriggerActivity
  BY NextTA DEF Inv, StreamInv, number
<1>2. maker \notin Judging \cup Closing /\ maker \notin Bundling
  BY DEF Judging, Closing, Bundling
<1>3. UNCHANGED <<maker, m_current_window, m_current_tc>>
  BY DEF receive_supernova, take, bundleVars
<1>4. WindowInv'  BY <1>2, <1>3, WindowStaysEmpty
<1>5. m_activity \in Seq(TriggerActivity) /\ Len(m_activity) <= SupernovaThreshold
  BY DEF Inv, BundleInv
<1>6. Held = Ids(m_activity) /\ Held' = Ids(m_activity')
  BY <1>3, HeldIs, HeldBecomes
<1>7. PICK left \in Seq(TriggerActivity) :
        /\ left = FlushOldActivity(ta.time_start) /\ Len(left) <= Len(m_activity)
        /\ Ids(left) \subseteq Held
  BY <1>5, <1>6, FlushKeepsSome
<1>8. PICK all : all = counted(ta)  OBVIOUS
<1>9. \/ all = left
      \/ all \in Seq(TriggerActivity) /\ Ids(all) = Ids(left) \cup {number}
  <2>1. CASE n_tps(ta) > SupernovaHitThreshold
    <3>1. all = left \o <<ta>>  BY <1>7, <1>8, <2>1 DEF counted
    <3>2. all = Append(left, ta)  BY <1>1, <1>7, <3>1, AppendIsConcat
    <3>3. Ids(all) = Ids(left) \cup {ta.id}  BY <1>1, <3>2, RangeOfAppend
    <3> QED  BY <1>1, <3>2, <3>3
  <2>2. CASE ~ (n_tps(ta) > SupernovaHitThreshold)
    <3>1. all = left \o <<>>  BY <1>7, <1>8, <2>2 DEF counted
    <3> QED  BY <3>1, ConcatEmptySeq
  <2> QED  BY <2>1, <2>2
<1>10. NoneDropped(Ids(left), ta)  BY <1>2 DEF NoneDropped, Closing
<1>11. ASSUME Accounts(Ids(left)) \/ Passes(Ids(left)) PROVE Takes(ta)
  BY <1>7, <1>10, <1>11 DEF Takes
<1>12. SupernovaThreshold \in Nat  BY CandidateBundleAssumption
<1>13. CASE wait_for_more(ta)
  <2>1. m_activity' = all /\ UNCHANGED output_tc /\ Len(all) <= SupernovaThreshold
    BY <1>8, <1>13 DEF wait_for_more
  <2>2. all \in Seq(TriggerActivity)  BY <1>7, <1>9
  <2>3. BundleInv'  BY <1>3, <2>1, <2>2 DEF Inv, BundleInv
  <2>4. Held' = Ids(all)  BY <1>6, <2>1
  <2>5. Accounts(Ids(left)) \/ Passes(Ids(left))
    BY <1>9, <2>1, <2>4 DEF Accounts, Passes
  <2> QED  BY <1>4, <1>11, <2>3, <2>5
<1>14. CASE emit_supernova(ta)
  <2>1. PICK tc : /\ m_activity' = <<>> /\ tc.inputs = all
                  /\ output_tc' = Append(output_tc, tc) /\ Len(all) > SupernovaThreshold
    BY <1>8, <1>14 DEF emit_supernova, tc_of
  <2>2. all # left
    <3>1. Len(left) \in Nat /\ Len(m_activity) \in Nat  BY <1>5
    <3> QED  BY <1>5, <1>7, <1>12, <2>1, <3>1
  <2>3. GivesOut(Ids(left) \cup {number})  BY <1>9, <2>1, <2>2 DEF GivesOut
  <2>4. Held' = {}  BY <1>6, <2>1, RangeOfNone
  <2>5. Accounts(Ids(left))  BY <2>3, <2>4 DEF Accounts
  <2>6. BundleInv'
    <3>1. <<>> \in Seq(TriggerActivity) /\ Len(<<>>) <= SupernovaThreshold  BY <1>12
    <3> QED  BY <1>3, <2>1, <3>1 DEF Inv, BundleInv
  <2> QED  BY <1>4, <1>11, <2>5, <2>6
<1> QED  BY <1>13, <1>14 DEF receive_supernova

-----------------------------------------------------------------------------
(* The steps of the caller *)

LEMMA InitKeeps == Init => Inv /\ Segments!Init
<1> SUFFICES ASSUME Init PROVE Inv /\ Segments!Init
  OBVIOUS
<1>1. /\ maker = NoMaker /\ received = <<>> /\ output_tc = <<>> /\ m_activity = <<>>
      /\ m_current_tc = <<>> /\ m_current_window = EmptyWindow
  BY DEF Init
<1>2. <<>> \in Seq(TriggerActivity) /\ DOMAIN <<>> = {} /\ Len(<<>>) = 0  OBVIOUS
<1>3. /\ NoMaker \notin Judging /\ NoMaker \notin Closing /\ NoMaker \notin Bundling
      /\ NoMaker \notin {"ADCSimpleWindow", "Prescale", "Supernova", "PlaneCoincidence"}
  BY DEF Judging, Closing, Bundling, NoMaker
<1>4. NoMaker \notin Makers  BY <1>3, TriggerCandidateFactoryAssumption
<1>5. StreamInv  BY <1>1, <1>2 DEF StreamInv, Outputs
<1>6. ConfigInv  BY <1>1, <1>3, <1>4 DEF ConfigInv
<1>7. WindowInv
  BY <1>1, <1>2, <1>3, RangeOfNone
     DEF WindowInv, EmptyWindow, is_empty, FromStream, WindowSpan
<1>8. BundleInv  BY <1>1, <1>2, <1>3 DEF BundleInv
<1>9. NothingDropped /\ NoTALostEarly
  BY <1>1, <1>2, <1>3 DEF NothingDropped, NoTALostEarly
<1>10. Segments!Init
  <2>1. Held = {}
    BY <1>1, <1>2, <1>3, RangeOfNone DEF Held, HeldList, EmptyWindow
  <2>2. [k \in DOMAIN output_tc |-> Ids(output_tc[k].inputs)] = <<>>
    BY <1>1, <1>2
  <2> QED  BY <1>1, <1>2, <2>1, <2>2 DEF Segments!Init
<1> QED  BY <1>5, <1>6, <1>7, <1>8, <1>9, <1>10 DEF Inv

\* Before the first TA nothing is held, given or lost, whatever the maker.
LEMMA Untouched ==
  ASSUME StreamInv, received = <<>>
  PROVE  /\ Held = {} /\ Emitted = {} /\ NothingDropped /\ NoTALostEarly
         /\ m_current_window.inputs = <<>>
<1>1. /\ m_current_window.inputs = <<>> /\ m_current_tc = <<>> /\ m_activity = <<>>
      /\ output_tc = <<>> /\ DOMAIN <<>> = {}
  BY DEF StreamInv, EmptyWindow
<1>2. HeldList = <<>>
  <2>1. CASE maker \in Bundling  BY <1>1, <2>1 DEF HeldList, Bundling
  <2>2. CASE maker = "Supernova"  BY <1>1, <2>2 DEF HeldList, Bundling
  <2>3. CASE maker \notin Bundling /\ maker # "Supernova"  BY <1>1, <2>3 DEF HeldList
  <2> QED  BY <2>1, <2>2, <2>3
<1>3. Held = {}  BY <1>2, RangeOfNone DEF Held
<1>4. Emitted = {}  BY <1>1 DEF Emitted
<1>5. DOMAIN received = {}  BY <1>1
<1> QED  BY <1>1, <1>3, <1>4, <1>5 DEF NothingDropped, NoTALostEarly

\* Building a maker, or configuring it, touches no TA.
LEMMA UntouchedKept ==
  ASSUME Inv, received = <<>>, UNCHANGED <<members, output_tc, received>>, ConfigInv'
  PROVE  Inv' /\ UNCHANGED Segments!segmentVars
<1>1. UNCHANGED <<m_current_window, m_current_tc, m_activity, output_tc, received>>
  BY DEF members, bundleVars
<1>2. StreamInv'  BY <1>1 DEF Inv, StreamInv, Outputs
<1>3. /\ Held' = {} /\ Emitted' = {} /\ NothingDropped' /\ NoTALostEarly'
      /\ m_current_window'.inputs = <<>>
  <2>1. /\ m_current_window'.inputs = <<>> /\ m_current_tc' = <<>> /\ m_activity' = <<>>
        /\ output_tc' = <<>> /\ received' = <<>> /\ DOMAIN <<>> = {}
    BY <1>1 DEF Inv, StreamInv, EmptyWindow
  <2>2. HeldList' = <<>>
    <3>1. CASE maker' \in Bundling  BY <2>1, <3>1 DEF HeldList, Bundling
    <3>2. CASE maker' = "Supernova"  BY <2>1, <3>2 DEF HeldList, Bundling
    <3>3. CASE maker' \notin Bundling /\ maker' # "Supernova"  BY <2>1, <3>3 DEF HeldList
    <3> QED  BY <3>1, <3>2, <3>3
  <2>3. Held' = {}  BY <2>2, RangeOfNone DEF Held, Ids
  <2>4. Emitted' = {}  BY <2>1 DEF Emitted
  <2>5. DOMAIN received' = {}  BY <2>1
  <2> QED  BY <2>1, <2>3, <2>4, <2>5 DEF NothingDropped, NoTALostEarly
<1>4. WindowInv'  BY <1>3, EmptiedWindow
<1>5. BundleInv'
  <2>1. m_activity' = <<>> /\ m_current_tc' = <<>> /\ Len(<<>>) = 0
    BY <1>1 DEF Inv, StreamInv
  <2>2. <<>> \in Seq(TriggerActivity) /\ SupernovaThreshold \in Nat
    BY CandidateBundleAssumption
  <2> QED  BY <2>1, <2>2 DEF BundleInv
<1>6. Held = {}  BY Untouched DEF Inv
<1>7. UNCHANGED Segments!segmentVars
  BY <1>1, <1>3, <1>6 DEF Segments!segmentVars
<1> QED  BY <1>2, <1>3, <1>4, <1>5, <1>7 DEF Inv

LEMMA BuildKeeps ==
  ASSUME Inv, NEW name \in Makers, build_maker(name)
  PROVE  Inv' /\ UNCHANGED Segments!segmentVars
<1>1. /\ maker = NoMaker /\ maker' = name /\ m_config' = Defaults[name]
      /\ UNCHANGED <<rejected, members, output_tc, received>>
  BY DEF build_maker
<1>2. received = <<>>  BY <1>1 DEF Inv, ConfigInv
<1>3. ValidConfig(Defaults[name], name) /\ ShortWindow(Defaults[name])
  BY TriggerCandidateMakerAssumption
<1>4. NoMaker \notin Makers
  BY TriggerCandidateFactoryAssumption DEF NoMaker, Judging, Closing, Bundling
<1>5. ConfigInv'
  <2>1. ValidConfig(m_config', maker') /\ ShortWindow(m_config')
    BY <1>1, <1>3
  <2>2. name = "PlaneCoincidence" => ~ m_config'["trigger_on_n_channels"]
    BY <1>1, TriggerCandidateFactoryAssumption
  <2> QED
    BY <1>1, <1>4, <2>1, <2>2 DEF ConfigInv, ValidConfig, ShortWindow
<1> QED  BY <1>1, <1>2, <1>5, UntouchedKept

\* configure() leaves values of the right types, and a short window.
LEMMA UpdatedConfig ==
  ASSUME ConfigInv, maker \in Makers, NEW config, ValidConfig(config, maker),
         ShortWindow(config)
  PROVE  LET new == updated(config)
         IN  DOMAIN new = DOMAIN m_config /\ ValidConfig(new, maker) /\ ShortWindow(new)
<1>1. PICK new : new = updated(config)  OBVIOUS
<1>2. /\ DOMAIN new = DOMAIN m_config
      /\ \A k \in DOMAIN m_config :
           new[k] = IF k \in DOMAIN config THEN config[k] ELSE m_config[k]
  BY <1>1 DEF updated
<1>3. ValidConfig(m_config, maker) /\ ShortWindow(m_config)
  BY DEF ConfigInv
<1>4. ValidConfig(new, maker)
  <2>1. DOMAIN new \subseteq DOMAIN Defaults[maker]  BY <1>2, <1>3 DEF ValidConfig
  <2>2. ASSUME NEW k \in DOMAIN new \cap Switches PROVE new[k] \in BOOLEAN
    BY <1>2, <1>3 DEF ValidConfig
  <2>3. ASSUME NEW k \in DOMAIN new \ Switches PROVE new[k] \in Nat
    BY <1>2, <1>3 DEF ValidConfig
  <2>4. ASSUME NEW k \in DOMAIN new \cap Ticks PROVE new[k] \in Timestamps
    BY <1>2, <1>3 DEF ValidConfig
  <2>5. "max_tp_count" \in DOMAIN new => new["max_tp_count"] < CountModulus
    BY <1>2, <1>3 DEF ValidConfig
  <2> QED  BY <2>1, <2>2, <2>3, <2>4, <2>5 DEF ValidConfig
<1>5. ShortWindow(new)
  BY <1>2, <1>3 DEF ShortWindow
<1> QED  BY <1>1, <1>2, <1>4, <1>5

LEMMA ConfigureKeeps ==
  ASSUME Inv, maker \in Makers, NEW config \in Configs[maker], configured(config)
  PROVE  Inv' /\ UNCHANGED Segments!segmentVars
<1>1. ValidConfig(config, maker) /\ ShortWindow(config)
  BY TriggerCandidateMakerAssumption
<1>2. ValidConfig(<<>>, maker) /\ ShortWindow(<<>>)
  BY DEF ValidConfig, ShortWindow
<1>3. PICK given, usable :
        /\ ValidConfig(given, maker) /\ ShortWindow(given) /\ configure(given, usable)
        /\ maker = "PlaneCoincidence" => usable = ~ updated(given)["trigger_on_n_channels"]
  <2>1. CASE maker = "HorizontalMuon" /\ configure_hm(config)
    BY <1>1, <2>1 DEF configure_hm
  <2>2. CASE maker = "ChannelAdjacency" /\ configure_ca(config)
    BY <1>1, <2>2 DEF configure_ca
  <2>3. CASE maker = "MichelElectron" /\ configure_me(config)
    BY <1>1, <2>3 DEF configure_me
  <2>4. CASE maker = "PlaneCoincidence" /\ configure_pc(config)
    BY <1>1, <2>4 DEF configure_pc
  <2>5. CASE maker = "Prescale" /\ configure_prescale(config)
    <3>1. configure(config, TRUE) \/ configure(<<>>, TRUE)
      BY <2>5 DEF configure_prescale
    <3> QED  BY <1>1, <1>2, <2>5, <3>1
  <2>6. CASE maker \in Bundling /\ configure(config, TRUE)
    <3>1. maker # "PlaneCoincidence"  BY <2>6 DEF Bundling
    <3> QED  BY <1>1, <2>6, <3>1
  <2> QED  BY <2>1, <2>2, <2>3, <2>4, <2>5, <2>6 DEF configured
<1>4. /\ received = <<>> /\ m_config' = updated(given) /\ rejected' = ~ usable
      /\ UNCHANGED <<maker, members, output_tc, received>>
  BY <1>3 DEF configure
<1>5. PICK new : new = updated(given)  OBVIOUS
<1>6. DOMAIN new = DOMAIN m_config /\ ValidConfig(new, maker) /\ ShortWindow(new)
  BY <1>3, <1>5, UpdatedConfig DEF Inv
<1>7. ConfigInv'
  <2>1. ValidConfig(m_config', maker') /\ ShortWindow(m_config')
    BY <1>4, <1>5, <1>6
  <2>2. maker' = "PlaneCoincidence" => rejected' \/ ~ m_config'["trigger_on_n_channels"]
    BY <1>3, <1>4
  <2>3. /\ maker' \in Makers \cup {NoMaker}
        /\ maker' = NoMaker => received' = <<>>
        /\ DOMAIN m_config' = DOMAIN Defaults[maker']
    BY <1>4, <1>5, <1>6 DEF Inv, ConfigInv
  <2> QED
    BY <2>1, <2>2, <2>3 DEF ConfigInv, ValidConfig, ShortWindow
<1> QED  BY <1>4, <1>7, UntouchedKept

\* Every maker takes the TA in as it should.
LEMMA CallTakes ==
  ASSUME Inv, maker \in Makers, ~ rejected, NEW ta \in NextTAs(received), call(ta)
  PROVE  /\ WindowInv' /\ BundleInv' /\ Takes(ta)
         /\ received' = Append(received, ta) /\ UNCHANGED <<maker, m_config, rejected>>
<1>1. /\ "HorizontalMuon" \in Judging /\ "ChannelAdjacency" \in Judging
      /\ "BundleN" \in Bundling /\ {"ChannelDistance", "DBSCAN"} \subseteq Bundling
  BY DEF Judging, Bundling
<1>2. CASE maker = "HorizontalMuon" /\ receive_hm(ta)
  BY <1>1, <1>2, JudgingTakes DEF receive_hm, receive_and_judge, take
<1>3. CASE maker = "ChannelAdjacency" /\ receive_ca(ta)
  BY <1>1, <1>3, JudgingTakes DEF receive_ca, receive_and_judge, take
<1>4. CASE maker = "MichelElectron" /\ receive_me(ta)
  BY <1>4, MichelElectronTakes DEF receive_me, receive_and_close, take
<1>5. CASE maker = "PlaneCoincidence" /\ receive_pc(ta)
  BY <1>5, PlaneCoincidenceTakes DEF receive_pc, receive_and_close, take
<1>6. CASE maker = "ADCSimpleWindow" /\ receive_adcsw(ta)
  BY <1>6, SingleTakes DEF receive_adcsw, take
<1>7. CASE maker = "Prescale" /\ receive_prescale(ta)
  BY <1>7, SingleTakes DEF receive_prescale, take
<1>8. CASE maker = "BundleN" /\ receive_bundle(ta)
  BY <1>1, <1>8, BundleTakes DEF receive_bundle, take
<1>9. CASE maker \in {"ChannelDistance", "DBSCAN"} /\ receive_by_tp_count(ta)
  BY <1>1, <1>9, BundleTakes DEF receive_by_tp_count, take
<1>10. CASE maker = "Supernova" /\ receive_supernova(ta)
  BY <1>10, SupernovaTakes DEF receive_supernova, take
<1> QED
  BY <1>2, <1>3, <1>4, <1>5, <1>6, <1>7, <1>8, <1>9, <1>10 DEF call

\* So nothing is dropped that should not be,
LEMMA CallDropsNothing ==
  ASSUME StreamInv, NothingDropped, NEW ta \in NextTAs(received), Takes(ta),
         received' = Append(received, ta), UNCHANGED <<maker, m_config>>
  PROVE  NothingDropped'
<1>1. SUFFICES ASSUME \/ maker \in Bundling \cup {"ADCSimpleWindow"}
                      \/ maker \in Closing /\ pass_through
               PROVE  (Emitted \cup Held = DOMAIN received)'
  BY DEF NothingDropped, pass_through
<1>2. PICK kept \in SUBSET Held : Accounts(kept) /\ kept = Held
  <2>1. PICK kept \in SUBSET Held : NoneDropped(kept, ta)  BY DEF Takes
  <2>2. Accounts(kept) /\ kept = Held  BY <1>1, <2>1 DEF NoneDropped
  <2> QED  BY <2>2
<1>3. Emitted' \cup Held' = Emitted \cup Held \cup {number}
  BY <1>2, NothingElseGoes DEF StreamInv
<1>4. Emitted \cup Held = DOMAIN received  BY <1>1 DEF NothingDropped
<1>5. received \in Seq(TriggerActivity) /\ ta \in TriggerActivity
  BY NextTA DEF StreamInv
<1>6. DOMAIN received' = DOMAIN received \cup {number}
  <2>1. PICK m \in Nat : m = Len(received) /\ DOMAIN received = 1 .. m  BY <1>5
  <2>2. DOMAIN received' = 1 .. (m + 1)  BY <1>5, <2>1
  <2>3. 1 .. (m + 1) = (1 .. m) \cup {m + 1}  OBVIOUS
  <2> QED  BY <2>1, <2>2, <2>3 DEF number
<1> QED  BY <1>3, <1>4, <1>6

\* and in an ordered stream what a moved window drops is out of date.
LEMMA CallLosesNothingEarly ==
  ASSUME StreamInv, ConfigInv, NoTALostEarly, NEW ta \in NextTAs(received), Takes(ta),
         received' = Append(received, ta), UNCHANGED <<maker, m_config>>
  PROVE  NoTALostEarly'
<1> DEFINE length == m_config["window_length"]
<1>1. SUFFICES ASSUME Ordered', maker \in Judging \cup {"PlaneCoincidence"},
                      NEW i \in DOMAIN received'
               PROVE  \/ i \in Emitted' \cup Held'
                      \/ \E j \in DOMAIN received' :
                           received'[j].time_start >= received'[i].time_start + length
  BY DEF NoTALostEarly
<1>2. received \in Seq(TriggerActivity) /\ ta \in TriggerActivity
  BY NextTA DEF StreamInv
<1>3. PICK m \in Nat :
        /\ m = Len(received) /\ DOMAIN received = 1 .. m /\ number = m + 1
        /\ DOMAIN received' = 1 .. (m + 1) /\ received'[m + 1] = ta
        /\ \A k \in 1 .. m : received'[k] = received[k]
        /\ \A k \in 1 .. m : received[k].time_start \in Nat
        /\ ta.time_start \in Nat
  <2>1. PICK m \in Nat : m = Len(received) /\ DOMAIN received = 1 .. m  BY <1>2
  <2>2. /\ DOMAIN received' = 1 .. (m + 1) /\ received'[m + 1] = ta
        /\ \A k \in 1 .. m : received'[k] = received[k]
    BY <1>2, <2>1
  <2>3. \A k \in 1 .. m : received[k].time_start \in Nat  BY <1>2, <2>1, TAType
  <2>4. ta.time_start \in Nat  BY <1>2, TAType
  <2> QED  BY <2>1, <2>2, <2>3, <2>4 DEF number
<1>4. Ordered
  <2>1. \A x, y \in 1 .. (m + 1) :
          x < y => received'[x].time_start <= received'[y].time_start
    BY <1>1, <1>3 DEF Ordered
  <2>2. \A x \in 1 .. m : x \in 1 .. (m + 1)  OBVIOUS
  <2> QED  BY <1>3, <2>1, <2>2 DEF Ordered
<1>5. PICK kept \in SUBSET Held :
        /\ Accounts(kept)
        /\ \A x \in Held \ kept : ~ fits(ta.time_start, received[x].time_start, length)
  BY <1>1 DEF Takes, NoneDropped
<1>6. Emitted' \cup Held' = Emitted \cup kept \cup {number}
  BY <1>5, NothingElseGoes DEF StreamInv
<1>7. CASE i = number  BY <1>6, <1>7
<1>8. CASE i # number
  <2>1. i \in 1 .. m /\ received'[i] = received[i] /\ i < m + 1  BY <1>3, <1>8
  <2>2. CASE i \in Emitted \cup kept  BY <1>6, <2>2
  <2>3. CASE i \in Held \ kept
    <3>1. PICK t \in Nat, r \in Nat :
            t = ta.time_start /\ r = received[i].time_start
      BY <1>3, <2>1
    <3>2. r <= t
      <4>1. i \in 1 .. (m + 1) /\ m + 1 \in 1 .. (m + 1)  BY <2>1
      <4> QED  BY <1>1, <1>3, <2>1, <3>1, <4>1 DEF Ordered
    <3>3. ~ fits(t, r, length)  BY <1>5, <2>3, <3>1
    <3>4. length \in Nat
      <4>1. maker \in Judging \cup Closing  BY <1>1 DEF Closing
      <4> QED  BY <4>1, LengthIsShort DEF Short
    <3> HIDE DEF length
    <3>5. t - r >= length  BY <3>2, <3>3, <3>4 DEF fits, elapsed, UIntMinus
    <3>6. t >= r + length  BY <3>4, <3>5
    <3>7. m + 1 \in DOMAIN received' /\ received'[m + 1].time_start >= received'[i].time_start + length
      BY <1>3, <2>1, <3>1, <3>6
    <3> QED  BY <3>7
  <2>4. CASE i \notin Emitted \cup Held
    <3>1. PICK j \in 1 .. m :
            received[j].time_start >= received[i].time_start + length
      BY <1>1, <1>3, <1>4, <2>1, <2>4 DEF NoTALostEarly
    <3>2. j \in DOMAIN received' /\ received'[j] = received[j]  BY <1>3
    <3> QED  BY <2>1, <3>1, <3>2
  <2> QED  BY <2>2, <2>3, <2>4
<1> QED  BY <1>7, <1>8

LEMMA CallKeeps ==
  ASSUME Inv, maker \in Makers, ~ rejected, NEW ta \in NextTAs(received), call(ta)
  PROVE  Inv' /\ Segments!Next
<1>1. /\ WindowInv' /\ BundleInv' /\ Takes(ta)
      /\ received' = Append(received, ta) /\ UNCHANGED <<maker, m_config, rejected>>
  BY CallTakes
<1>2. /\ ta \in TriggerActivity /\ ta.id = Len(received) + 1
      /\ received \in Seq(TriggerActivity)
  BY NextTA DEF Inv, StreamInv
<1>3. PICK kept \in SUBSET Held : Accounts(kept) \/ Passes(kept)
  BY <1>1 DEF Takes
<1>4. Segments!Next
  BY <1>1, <1>2, <1>3, CallIsAStep DEF Inv, StreamInv
<1>5. StreamInv'
  <2>1. Outputs'
    <3>1. CASE Accounts(kept)  BY <3>1, NothingElseGoes DEF Inv, StreamInv
    <3>2. CASE Passes(kept)  BY <3>2 DEF Passes, Inv, StreamInv, Outputs
    <3> QED  BY <1>3, <3>1, <3>2
  <2>2. received' \in Seq(TriggerActivity) /\ received' # <<>>
    BY <1>1, <1>2, AppendProperties
  <2>3. \A i \in DOMAIN received' : received'[i].id = i
    <3>1. PICK m \in Nat : m = Len(received) /\ DOMAIN received = 1 .. m  BY <1>2
    <3>2. /\ DOMAIN received' = 1 .. (m + 1) /\ received'[m + 1] = ta
          /\ \A k \in 1 .. m : received'[k] = received[k]
      BY <1>1, <1>2, <3>1
    <3>3. \A k \in 1 .. m : received[k].id = k  BY <3>1 DEF Inv, StreamInv
    <3>4. \A k \in 1 .. (m + 1) : k \in 1 .. m \/ k = m + 1  OBVIOUS
    <3> QED  BY <1>2, <3>1, <3>2, <3>3, <3>4
  <2> QED  BY <2>1, <2>2, <2>3 DEF StreamInv
<1>6. ConfigInv'
  <2>1. maker # NoMaker
    BY TriggerCandidateFactoryAssumption DEF NoMaker, Judging, Closing, Bundling
  <2> QED  BY <1>1, <2>1 DEF Inv, ConfigInv, ValidConfig, ShortWindow
<1>7. NothingDropped'  BY <1>1, CallDropsNothing DEF Inv
<1>8. NoTALostEarly'  BY <1>1, CallLosesNothingEarly DEF Inv
<1> QED  BY <1>1, <1>4, <1>5, <1>6, <1>7, <1>8 DEF Inv

LEMMA StepKeeps ==
  Inv /\ [Next]_vars => Inv' /\ [Segments!Next]_(Segments!segmentVars)
<1> SUFFICES ASSUME Inv, [Next]_vars
             PROVE  Inv' /\ [Segments!Next]_(Segments!segmentVars)
  OBVIOUS
<1>1. ASSUME NEW name \in Makers, build_maker(name)
      PROVE  Inv' /\ UNCHANGED Segments!segmentVars
  BY <1>1, BuildKeeps
<1>2. ASSUME maker \in Makers, NEW config \in Configs[maker], configured(config)
      PROVE  Inv' /\ UNCHANGED Segments!segmentVars
  BY <1>2, ConfigureKeeps
<1>3. ASSUME maker \in Makers, ~ rejected, NEW ta \in NextTAs(received), call(ta)
      PROVE  Inv' /\ Segments!Next
  BY <1>3, CallKeeps
<1>4. CASE UNCHANGED vars
  <2>1. /\ UNCHANGED <<maker, m_config, rejected, m_current_window, m_current_tc>>
        /\ UNCHANGED <<m_activity, output_tc, received>>
    BY <1>4 DEF vars, members, bundleVars
  <2>2. StreamInv' /\ ConfigInv' /\ BundleInv'
    BY <2>1 DEF Inv, StreamInv, Outputs, ConfigInv, BundleInv, ValidConfig, ShortWindow
  <2>3. WindowInv'
    BY <2>1
       DEF Inv, WindowInv, FromStream, Charged, ChargeAgrees, is_empty, pass_through,
           WindowSpan, SpanAgrees
  <2>4. Held' = Held /\ Emitted' = Emitted
    BY <2>1 DEF Held, HeldList, Ids, Emitted
  <2>5. NothingDropped' /\ NoTALostEarly'
    BY <2>1, <2>4 DEF Inv, NothingDropped, NoTALostEarly, Ordered, pass_through
  <2> QED  BY <2>1, <2>2, <2>3, <2>4, <2>5 DEF Inv, Segments!segmentVars
<1> QED  BY <1>1, <1>2, <1>3, <1>4 DEF Next

-----------------------------------------------------------------------------
(* Types and totals *)

TCs ==
  [time_start : Timestamps, time_end : Timestamps, time_candidate : Times,
   inputs : Seq(TriggerActivity)]

\* Every member is of its type, and a window that is not empty has counted the
\* hits of its TAs.
MemberInv ==
  /\ rejected \in BOOLEAN
  /\ m_current_window \in Windows
  /\ ~ is_empty(m_current_window) => Kept(m_current_window)
  /\ m_current_tp_count \in 0 .. CountModulus - 1
  /\ m_activity_count \in Nat
  /\ output_tc \in Seq(TCs)

LEMMA TimesType ==
  ASSUME NEW a \in Timestamps, NEW b \in Timestamps
  PROVE  /\ UIntMinus(a, b, TimeModulus) \in Timestamps
         /\ UIntPlus(a, b, TimeModulus) \in Timestamps
<1>1. a \in 0 .. TimeModulus - 1 /\ b \in 0 .. TimeModulus - 1 /\ TimeModulus \in Nat \ {0}
  BY TimeModulusAssumption DEF Timestamps
<1>2. UIntMinus(a, b, TimeModulus) \in 0 .. TimeModulus - 1  BY <1>1 DEF UIntMinus
<1>3. (a + b) % TimeModulus \in 0 .. TimeModulus - 1
  <2>1. PICK x \in Nat, y \in Nat : x = a /\ y = b  BY <1>1
  <2>2. (x + y) % TimeModulus \in 0 .. TimeModulus - 1  BY TimeModulusAssumption
  <2> QED  BY <2>1, <2>2
<1> QED  BY <1>2, <1>3 DEF Timestamps, UIntPlus

LEMMA TimeIsATimestamp ==
  ASSUME NEW ta \in TriggerActivity
  PROVE  /\ ta.time_start \in Times /\ ta.time_start \in Timestamps
         /\ ta.time_end \in Timestamps
<1>1. ta.time_start \in Times  BY TAType
<1>2. ta.time_end \in Timestamps  BY DEF TriggerActivity
<1> QED  BY <1>1, <1>2, TAAssumption

LEMMA ATC ==
  ASSUME NEW a \in Timestamps, NEW b \in Timestamps, NEW c \in Times,
         NEW l \in Seq(TriggerActivity)
  PROVE  tc_of(a, b, c, l) \in TCs /\ tc_of(a, b, c, l).inputs = l
BY DEF tc_of, TCs

\* The readout margins of the makers that have them are timestamps.
LEMMA MarginsType ==
  ASSUME ConfigInv, maker \in Judging \cup Closing \cup {"Prescale"}
  PROVE  /\ m_config["readout_window_ticks_before"] \in Timestamps
         /\ m_config["readout_window_ticks_after"] \in Timestamps
<1>1. maker \in Makers  BY TriggerCandidateFactoryAssumption
<1>2. /\ "readout_window_ticks_before" \in DOMAIN Defaults[maker]
      /\ "readout_window_ticks_after" \in DOMAIN Defaults[maker]
  BY TriggerCandidateFactoryAssumption DEF WindowMembers
<1>3. /\ "readout_window_ticks_before" \in DOMAIN m_config \cap Ticks
      /\ "readout_window_ticks_after" \in DOMAIN m_config \cap Ticks
  BY <1>1, <1>2 DEF ConfigInv, Ticks
<1> QED  BY <1>1, <1>3 DEF ConfigInv, ValidConfig

LEMMA WindowTCType ==
  ASSUME ConfigInv, maker \in Judging \cup Closing, NEW w, Kept(w)
  PROVE  /\ construct_tc(w) \in TCs
         /\ w.inputs # <<>> => construct_tc_to_last(w) \in TCs
<1>1. PICK before \in Timestamps, after \in Timestamps :
        /\ before = m_config["readout_window_ticks_before"]
        /\ after = m_config["readout_window_ticks_after"]
  BY MarginsType
<1>2. PICK t \in Times, l \in Seq(TriggerActivity) : t = w.time_start /\ l = w.inputs
  BY KeptParts
<1>3. t \in Timestamps  BY TAAssumption
<1>4. construct_tc(w) \in TCs
  BY <1>1, <1>2, <1>3, TimesType, ATC DEF construct_tc
<1>5. ASSUME l # <<>> PROVE construct_tc_to_last(w) \in TCs
  <2>1. l[Len(l)] \in TriggerActivity
    <3>1. Len(l) # 0 /\ Len(l) \in Nat  BY <1>5, EmptySeq
    <3>2. Len(l) \in 1 .. Len(l)  BY <3>1
    <3> QED  BY <3>2, ElementOfSeq
  <2>2. PICK e \in Timestamps : e = l[Len(l)].time_end  BY <2>1, TimeIsATimestamp
  <2>3. construct_tc_to_last(w) = tc_of(UIntMinus(t, before, TimeModulus),
                                        UIntPlus(e, after, TimeModulus), t, l)
    BY <1>1, <1>2, <2>2 DEF construct_tc_to_last
  <2> QED  BY <1>3, <2>3, TimesType, ATC
<1> QED  BY <1>2, <1>4, <1>5

LEMMA JoinedKept ==
  ASSUME MemberInv, NEW ta \in TriggerActivity
  PROVE  Kept(joined(ta))
<1>1. CASE is_empty(m_current_window)
  <2>1. joined(ta) = reset(m_current_window, ta)  BY <1>1 DEF joined
  <2> QED  BY <2>1, ResetKept
<1>2. CASE ~ is_empty(m_current_window) /\ in_window(ta)
  <2>1. joined(ta) = add(m_current_window, ta)  BY <1>2 DEF joined
  <2> QED  BY <1>2, <2>1, AddKept DEF MemberInv
<1>3. CASE ~ is_empty(m_current_window) /\ ~ in_window(ta)
  <2>1. joined(ta) = move(m_current_window, ta, m_config["window_length"])
    BY <1>3 DEF joined
  <2> QED  BY <1>3, <2>1, MoveKept DEF MemberInv
<1> QED  BY <1>1, <1>2, <1>3

LEMMA KeptIsAWindow ==
  ASSUME NEW w, Kept(w)
  PROVE  w \in Windows
BY DEF Kept

\* What a call has to leave for the members to be of their types.
LEMMA MembersStay ==
  ASSUME MemberInv, UNCHANGED rejected,
         \/ Kept(m_current_window')
         \/ m_current_window' \in Windows /\ is_empty(m_current_window')
         \/ UNCHANGED m_current_window,
         UNCHANGED output_tc \/ \E tc \in TCs : output_tc' = Append(output_tc, tc),
         m_current_tp_count' \in 0 .. CountModulus - 1,
         m_activity_count' \in Nat
  PROVE  MemberInv'
<1>1. m_current_window' \in Windows
  BY KeptIsAWindow DEF MemberInv
<1>2. ~ is_empty(m_current_window') => Kept(m_current_window')
  BY DEF MemberInv
<1>3. output_tc' \in Seq(TCs)
  <2>1. CASE UNCHANGED output_tc  BY <2>1 DEF MemberInv
  <2>2. ASSUME NEW tc \in TCs, output_tc' = Append(output_tc, tc) PROVE output_tc' \in Seq(TCs)
    BY <2>2, AppendProperties DEF MemberInv
  <2> QED  BY <2>1, <2>2
<1>4. (~ is_empty(m_current_window) => Kept(m_current_window))'
  BY <1>2 DEF is_empty, Kept, TAHits, TAWeight
<1> QED  BY <1>1, <1>3, <1>4 DEF MemberInv

LEMMA JudgingMembers ==
  ASSUME ConfigInv, MemberInv, maker \in Judging, NEW ta \in TriggerActivity, receive_and_judge(ta)
  PROVE  MemberInv'
<1>1. PICK u : u = joined(ta)  OBVIOUS
<1>2. Kept(u)  BY <1>1, JoinedKept
<1>3. /\ UNCHANGED rejected /\ UNCHANGED <<m_current_tp_count, m_activity_count>>
  BY DEF receive_and_judge, take, bundleVars
<1>4. m_current_tp_count' \in 0 .. CountModulus - 1 /\ m_activity_count' \in Nat
  BY <1>3 DEF MemberInv
<1>5. CASE hold_ta(ta)
  <2>1. Kept(m_current_window') /\ UNCHANGED output_tc  BY <1>1, <1>2, <1>5 DEF hold_ta
  <2> QED  BY <1>3, <1>4, <2>1, MembersStay
<1>6. CASE emit_tc(ta)
  <2>1. m_current_window' = EmptyWindow /\ output_tc' = Append(output_tc, construct_tc(u))
    BY <1>1, <1>6 DEF emit_tc, clear
  <2>2. construct_tc(u) \in TCs  BY <1>2, WindowTCType
  <2>3. m_current_window' \in Windows /\ is_empty(m_current_window')
    BY <2>1, EmptyIsAWindow DEF is_empty, EmptyWindow
  <2> QED  BY <1>3, <1>4, <2>1, <2>2, <2>3, MembersStay
<1> QED  BY <1>5, <1>6 DEF receive_and_judge

LEMMA ClosingMembers ==
  ASSUME ConfigInv, MemberInv, maker \in Closing, NEW ta \in TriggerActivity,
         NEW cleared, cleared \in Windows, is_empty(cleared),
         NEW moved, ~ is_empty(m_current_window) => Kept(moved),
         receive_and_close(ta, cleared, moved)
  PROVE  MemberInv'
<1>1. PICK w : w = m_current_window /\ (~ is_empty(w) => Kept(w))  BY DEF MemberInv
<1>2. UNCHANGED rejected /\ UNCHANGED <<m_current_tp_count, m_activity_count>>
  BY DEF receive_and_close, take, bundleVars
<1>3. m_current_tp_count' \in 0 .. CountModulus - 1 /\ m_activity_count' \in Nat
  BY <1>2 DEF MemberInv
<1>4. PICK u : u = reset(w, ta) /\ Kept(u) /\ u.inputs # <<>>
  <2>1. reset(w, ta).inputs # <<>>  BY DEF reset
  <2> QED  BY <2>1, ResetKept
<1>5. CASE start_window(ta) \/ drop_closed(ta)
  <2>1. Kept(m_current_window') /\ UNCHANGED output_tc
    BY <1>1, <1>4, <1>5 DEF start_window, drop_closed
  <2> QED  BY <1>2, <1>3, <2>1, MembersStay
<1>6. CASE pass_ta(ta, cleared)
  <2>1. m_current_window' = cleared /\ output_tc' = Append(output_tc, construct_tc_to_last(u))
    BY <1>1, <1>4, <1>6 DEF pass_ta
  <2>2. construct_tc_to_last(u) \in TCs  BY <1>4, WindowTCType
  <2> QED  BY <1>2, <1>3, <2>1, <2>2, MembersStay
<1>7. CASE fill_window(ta)
  <2>1. Kept(m_current_window') /\ UNCHANGED output_tc
    BY <1>1, <1>7, AddKept DEF fill_window
  <2> QED  BY <1>2, <1>3, <2>1, MembersStay
<1>8. CASE emit_closed(ta)
  <2>1. /\ w.inputs # <<>> /\ Kept(w) /\ m_current_window' = u
        /\ output_tc' = Append(output_tc, construct_tc_to_last(w))
    BY <1>1, <1>4, <1>8 DEF emit_closed, is_empty
  <2>2. construct_tc_to_last(w) \in TCs  BY <2>1, WindowTCType
  <2> QED  BY <1>2, <1>3, <1>4, <2>1, <2>2, MembersStay
<1>9. CASE slide_window(ta, moved)
  <2>1. Kept(m_current_window') /\ UNCHANGED output_tc  BY <1>9 DEF slide_window
  <2> QED  BY <1>2, <1>3, <2>1, MembersStay
<1> QED  BY <1>5, <1>6, <1>7, <1>8, <1>9 DEF receive_and_close

LEMMA PlaneCoincidenceMembers ==
  ASSUME ConfigInv, MemberInv, maker = "PlaneCoincidence", NEW ta \in TriggerActivity,
         receive_pc(ta)
  PROVE  MemberInv'
<1>1. PICK w : w = m_current_window /\ (~ is_empty(w) => Kept(w))  BY DEF MemberInv
<1>2. PICK cleared : cleared = clear(reset(w, ta))  OBVIOUS
<1>3. cleared \in Windows /\ is_empty(cleared)
  BY <1>2, EmptyIsAWindow DEF clear, is_empty, EmptyWindow
<1>4. PICK moved : moved = move(w, ta, m_config["window_length"])  OBVIOUS
<1>5. ~ is_empty(m_current_window) => Kept(moved)  BY <1>1, <1>4, MoveKept
<1>6. receive_and_close(ta, cleared, moved)  BY <1>1, <1>2, <1>4 DEF receive_pc
<1> QED  BY <1>3, <1>5, <1>6, ClosingMembers DEF Closing

LEMMA MichelElectronMembers ==
  ASSUME ConfigInv, MemberInv, maker = "MichelElectron", NEW ta \in TriggerActivity,
         receive_me(ta)
  PROVE  MemberInv'
<1>1. PICK w : w = m_current_window /\ (~ is_empty(w) => Kept(w))  BY DEF MemberInv
<1>2. PICK cleared : cleared = clear_me(reset(w, ta))  OBVIOUS
<1>3. cleared \in Windows /\ is_empty(cleared)
  <2>1. cleared.inputs = <<>>  BY <1>2 DEF clear_me, reset
  <2> QED  BY <1>2, <2>1, ResetKept DEF is_empty
<1>4. PICK moved : moved = move_me(w, ta, m_config["window_length"])  OBVIOUS
<1>5. ~ is_empty(m_current_window) => Kept(moved)  BY <1>1, <1>4, MoveMEKept
<1>6. receive_and_close(ta, cleared, moved)  BY <1>1, <1>2, <1>4 DEF receive_me
<1> QED  BY <1>3, <1>5, <1>6, ClosingMembers DEF Closing

LEMMA SingleMembers ==
  ASSUME ConfigInv, MemberInv, NEW ta \in TriggerActivity,
         \/ maker = "ADCSimpleWindow" /\ receive_adcsw(ta)
         \/ maker = "Prescale" /\ receive_prescale(ta)
  PROVE  MemberInv'
<1>1. PICK t \in Times, e \in Timestamps : t = ta.time_start /\ e = ta.time_end
  BY TimeIsATimestamp
<1>2. t \in Timestamps  BY TAAssumption
<1>3. PICK l \in Seq(TriggerActivity) : l = <<ta>>
  <2>1. <<ta>> \in Seq(TriggerActivity)  OBVIOUS
  <2> QED  BY <2>1
<1>4. CASE maker = "ADCSimpleWindow" /\ receive_adcsw(ta)
  <2>1. /\ output_tc' = Append(output_tc, tc_of(t, e, t, l))
        /\ UNCHANGED rejected /\ UNCHANGED <<m_current_window, m_current_tp_count>>
        /\ UNCHANGED m_activity_count
    BY <1>1, <1>3, <1>4 DEF receive_adcsw, take, members, bundleVars
  <2>2. tc_of(t, e, t, l) \in TCs  BY <1>2, ATC
  <2>3. m_current_tp_count' \in 0 .. CountModulus - 1 /\ m_activity_count' \in Nat
    BY <2>1 DEF MemberInv
  <2> QED  BY <2>1, <2>2, <2>3, MembersStay
<1>5. CASE maker = "Prescale" /\ receive_prescale(ta)
  <2>1. /\ UNCHANGED output_tc \/ output_tc' = Append(output_tc, prescaled_tc(ta))
        /\ UNCHANGED rejected /\ UNCHANGED <<m_current_window, m_current_tp_count>>
        /\ m_activity_count' = m_activity_count + 1
    BY <1>5 DEF receive_prescale, take, bundleVars
  <2>2. PICK before \in Timestamps, after \in Timestamps :
          /\ before = m_config["readout_window_ticks_before"]
          /\ after = m_config["readout_window_ticks_after"]
    BY <1>5, MarginsType
  <2>3. prescaled_tc(ta) \in TCs
    BY <1>1, <1>2, <1>3, <2>2, TimesType, ATC DEF prescaled_tc
  <2>4. m_current_tp_count' \in 0 .. CountModulus - 1 /\ m_activity_count' \in Nat
    BY <2>1 DEF MemberInv
  <2> QED  BY <2>1, <2>3, <2>4, MembersStay
<1> QED  BY <1>4, <1>5

\* A TC of a list that is not empty, from the first start to the last end.
LEMMA BundledTCType ==
  ASSUME NEW list \in Seq(TriggerActivity), list # <<>>, NEW candidate \in TriggerActivity
  PROVE  bundled_tc(list, candidate) \in TCs
<1>1. Len(list) \in Nat \ {0}  BY EmptySeq
<1>2. 1 \in 1 .. Len(list) /\ Len(list) \in 1 .. Len(list)  BY <1>1
<1>3. list[1] \in TriggerActivity /\ list[Len(list)] \in TriggerActivity
  BY <1>2, ElementOfSeq
<1> QED  BY <1>3, TimeIsATimestamp, ATC DEF bundled_tc

LEMMA BundleMembers ==
  ASSUME BundleInv, MemberInv, NEW ta \in TriggerActivity,
         \/ receive_bundle(ta)
         \/ receive_by_tp_count(ta)
  PROVE  MemberInv'
<1>1. PICK held \in Seq(TriggerActivity) : held = m_current_tc  BY DEF BundleInv
<1>2. PICK grown \in Seq(TriggerActivity) :
        /\ grown = Append(held, ta) /\ grown # <<>>
  <2>1. Append(held, ta) \in Seq(TriggerActivity) /\ Append(held, ta) # <<>>
    BY AppendProperties
  <2> QED  BY <2>1
<1>3. n_tps(ta) \in Nat
  <2>1. PICK channels \in Seq(Nat) : channels = ta.channels  BY TAChannels
  <2> QED  BY <2>1 DEF n_tps
<1>4. CASE receive_bundle(ta)
  <2>1. /\ UNCHANGED <<rejected, m_current_window>>
        /\ UNCHANGED <<m_current_tp_count, m_activity_count>>
        /\ \/ UNCHANGED output_tc
           \/ output_tc' = Append(output_tc, bundled_tc(grown, grown[1]))
    BY <1>1, <1>2, <1>4 DEF receive_bundle, take, grow_bundle, emit_bundle
  <2>2. m_current_tp_count' \in 0 .. CountModulus - 1 /\ m_activity_count' \in Nat
    BY <2>1 DEF MemberInv
  <2>3. bundled_tc(grown, grown[1]) \in TCs
    <3>1. Len(grown) \in Nat \ {0}  BY <1>2, EmptySeq
    <3>2. 1 \in 1 .. Len(grown)  BY <3>1
    <3>3. grown[1] \in TriggerActivity  BY <3>2, ElementOfSeq
    <3> QED  BY <1>2, <3>3, BundledTCType
  <2> QED  BY <2>1, <2>2, <2>3, MembersStay
<1>5. CASE receive_by_tp_count(ta)
  <2>1. /\ UNCHANGED <<rejected, m_current_window>> /\ UNCHANGED m_activity_count
        /\ \/ UNCHANGED output_tc
           \/ held # <<>> /\ output_tc' = Append(output_tc, bundled_tc(held, held[Len(held)]))
        /\ \/ m_current_tp_count' = n_tps(ta) % CountModulus
           \/ m_current_tp_count' = UIntPlus(m_current_tp_count, n_tps(ta), CountModulus)
    BY <1>1, <1>5
       DEF receive_by_tp_count, take, start_by_tp_count, emit_by_tp_count, grow_by_tp_count,
           set_new_tc
  <2>2. m_current_tp_count' \in 0 .. CountModulus - 1
    <3>0. m_current_tp_count \in 0 .. CountModulus - 1  BY DEF MemberInv
    <3>1. PICK x \in Nat, y \in Nat : x = m_current_tp_count /\ y = n_tps(ta)
      BY <1>3, <3>0, ChannelStatesAssumption
    <3>2. /\ y % CountModulus \in 0 .. CountModulus - 1
          /\ (x + y) % CountModulus \in 0 .. CountModulus - 1
      BY ChannelStatesAssumption
    <3> QED  BY <2>1, <3>1, <3>2 DEF UIntPlus
  <2>3. m_activity_count' \in Nat  BY <2>1 DEF MemberInv
  <2>4. ASSUME held # <<>> PROVE bundled_tc(held, held[Len(held)]) \in TCs
    <3>1. Len(held) \in Nat \ {0}  BY <2>4, EmptySeq
    <3>2. Len(held) \in 1 .. Len(held)  BY <3>1
    <3>3. held[Len(held)] \in TriggerActivity  BY <3>2, ElementOfSeq
    <3> QED  BY <2>4, <3>3, BundledTCType
  <2> QED  BY <2>1, <2>2, <2>3, <2>4, MembersStay
<1> QED  BY <1>4, <1>5

\* What Supernova counts is a list of TAs.
LEMMA CountedType ==
  ASSUME BundleInv, NEW ta \in TriggerActivity
  PROVE  counted(ta) \in Seq(TriggerActivity)
<1>1. PICK s \in Seq(TriggerActivity) : s = m_activity  BY DEF BundleInv
<1>2. PICK kept : kept = FlushOldActivity(ta.time_start)  OBVIOUS
<1>3. kept \in Seq(TriggerActivity)  BY <1>2, FlushKeepsSome DEF BundleInv
<1>4. <<ta>> \in Seq(TriggerActivity) /\ <<>> \in Seq(TriggerActivity)  OBVIOUS
<1>5. PICK o \in Seq(TriggerActivity) :
        o = IF n_tps(ta) > SupernovaHitThreshold THEN <<ta>> ELSE <<>>
  BY <1>4
<1>6. kept \o o \in Seq(TriggerActivity)  BY <1>3, ConcatProperties
<1> QED  BY <1>2, <1>5, <1>6 DEF counted

LEMMA SupernovaMembers ==
  ASSUME BundleInv, MemberInv, NEW ta \in TriggerActivity, receive_supernova(ta)
  PROVE  MemberInv'
<1>1. PICK t \in Times, e \in Timestamps : t = ta.time_start /\ e = ta.time_end
  BY TimeIsATimestamp
<1>2. t \in Timestamps /\ SupernovaWindow \in Timestamps
  BY TAAssumption, CandidateBundleAssumption
<1>3. PICK l \in Seq(TriggerActivity) : l = counted(ta)  BY CountedType
<1>4. PICK tc : tc = tc_of(UIntMinus(t, SupernovaWindow, TimeModulus), e, t, l)  OBVIOUS
<1>5. tc \in TCs  BY <1>2, <1>4, TimesType, ATC
<1>6. /\ UNCHANGED <<rejected, m_current_window>>
      /\ UNCHANGED <<m_current_tp_count, m_activity_count>>
      /\ UNCHANGED output_tc \/ output_tc' = Append(output_tc, tc)
  BY <1>1, <1>3, <1>4
     DEF receive_supernova, take, wait_for_more, emit_supernova, bundleVars
<1>7. m_current_tp_count' \in 0 .. CountModulus - 1 /\ m_activity_count' \in Nat
  BY <1>6 DEF MemberInv
<1> QED  BY <1>5, <1>6, <1>7, MembersStay

LEMMA CallMembers ==
  ASSUME Inv, MemberInv, maker \in Makers, NEW ta \in NextTAs(received), call(ta)
  PROVE  MemberInv'
<1>1. ta \in TriggerActivity /\ ConfigInv /\ BundleInv  BY NextTA DEF Inv, StreamInv
<1>2. CASE maker = "HorizontalMuon" /\ receive_hm(ta)
  BY <1>1, <1>2, JudgingMembers DEF receive_hm, Judging
<1>3. CASE maker = "ChannelAdjacency" /\ receive_ca(ta)
  BY <1>1, <1>3, JudgingMembers DEF receive_ca, Judging
<1>4. CASE maker = "MichelElectron" /\ receive_me(ta)
  BY <1>1, <1>4, MichelElectronMembers
<1>5. CASE maker = "PlaneCoincidence" /\ receive_pc(ta)
  BY <1>1, <1>5, PlaneCoincidenceMembers
<1>6. CASE \/ maker = "ADCSimpleWindow" /\ receive_adcsw(ta)
           \/ maker = "Prescale" /\ receive_prescale(ta)
  BY <1>1, <1>6, SingleMembers
<1>7. CASE receive_bundle(ta) \/ receive_by_tp_count(ta)
  BY <1>1, <1>7, BundleMembers
<1>8. CASE maker = "Supernova" /\ receive_supernova(ta)
  BY <1>1, <1>8, SupernovaMembers
<1> QED  BY <1>2, <1>3, <1>4, <1>5, <1>6, <1>7, <1>8 DEF call

LEMMA InitMembers == Init => MemberInv
<1>1. <<>> \in Seq(TCs) /\ 0 \in 0 .. CountModulus - 1  BY ChannelStatesAssumption
<1>2. is_empty(EmptyWindow)  BY DEF is_empty, EmptyWindow
<1> SUFFICES ASSUME Init PROVE MemberInv
  OBVIOUS
<1>3. m_current_window \in Windows /\ is_empty(m_current_window)
  BY <1>2, EmptyIsAWindow DEF Init
<1> QED  BY <1>1, <1>3 DEF Init, MemberInv

LEMMA StepMembers == Inv /\ MemberInv /\ [Next]_vars => MemberInv'
<1> SUFFICES ASSUME Inv, MemberInv, [Next]_vars PROVE MemberInv'
  OBVIOUS
<1>1. ASSUME NEW b \in BOOLEAN, rejected' = b, UNCHANGED <<members, output_tc>>
      PROVE  MemberInv'
  <2>1. /\ UNCHANGED m_current_window /\ UNCHANGED <<m_current_tp_count, m_activity_count>>
        /\ UNCHANGED output_tc
    BY <1>1 DEF members, bundleVars
  <2> QED
    BY <1>1, <2>1 DEF MemberInv, is_empty, Kept, TAHits, TAWeight
<1>2. ASSUME NEW name \in Makers, build_maker(name)
      PROVE  MemberInv'
  <2>1. rejected' = rejected /\ UNCHANGED <<members, output_tc>> /\ rejected \in BOOLEAN
    BY <1>2 DEF build_maker, MemberInv
  <2> QED  BY <1>1, <2>1
<1>3. ASSUME NEW config, configured(config)
      PROVE  MemberInv'
  <2>1. rejected' \in BOOLEAN /\ UNCHANGED <<members, output_tc>>
    <3>1. CASE configure_hm(config)  BY <3>1 DEF configure_hm, configure
    <3>2. CASE configure_ca(config)  BY <3>2 DEF configure_ca, configure
    <3>3. CASE configure_me(config)  BY <3>3 DEF configure_me, configure
    <3>4. CASE configure_pc(config)  BY <3>4 DEF configure_pc, configure
    <3>5. CASE configure_prescale(config)  BY <3>5 DEF configure_prescale, configure
    <3>6. CASE configure(config, TRUE)  BY <3>6 DEF configure
    <3> QED  BY <1>3, <3>1, <3>2, <3>3, <3>4, <3>5, <3>6 DEF configured
  <2> QED  BY <1>1, <2>1
<1>4. ASSUME maker \in Makers, NEW ta \in NextTAs(received), call(ta)
      PROVE  MemberInv'
  BY <1>4, CallMembers
<1>5. CASE UNCHANGED vars
  <2>1. rejected' = rejected /\ UNCHANGED <<members, output_tc>> /\ rejected \in BOOLEAN
    BY <1>5 DEF vars, MemberInv
  <2> QED  BY <1>1, <2>1
<1> QED  BY <1>2, <1>3, <1>4, <1>5 DEF Next

\* The TPs of a list on a channel, counted one by one.
LEMMA TPsOnCounted ==
  ASSUME NEW list \in Seq(TriggerActivity), NEW c \in Nat
  PROVE  /\ IsFiniteSet(TPsOn(list, c)) /\ Cardinality(TPsOn(list, c)) = TAHits(list)[c]
         /\ TAHits(list)[c] # 0 <=> c \in HitChannels(list)
<1>1. PICK w \in [TriggerActivity -> Nat] :
        w = TAWeight(c) /\ \A ta \in TriggerActivity : w[ta] = HitsOn(ta.channels)[c]
  BY TAWeightType
<1>2. PICK has : has = [i \in DOMAIN list |->
                          { j \in DOMAIN list[i].channels : list[i].channels[j] = c }]
  OBVIOUS
<1>3. ASSUME NEW i \in DOMAIN list
      PROVE  IsFiniteSet(has[i]) /\ Cardinality(has[i]) = w[list[i]]
  <2>1. PICK ta \in TriggerActivity : ta = list[i]  OBVIOUS
  <2>2. PICK channels \in Seq(Nat) : channels = ta.channels  BY TAChannels
  <2>3. PICK on : on = { j \in DOMAIN channels : channels[j] \in {c} }  OBVIOUS
  <2>4. IsFiniteSet(on) /\ Cardinality(on) = Weight(channels, Indicator(Nat, {c}))
    BY <2>3, CountOf
  <2>6. has[i] = on
    <3>1. has[i] = { j \in DOMAIN list[i].channels : list[i].channels[j] = c }  BY <1>2, <1>3
    <3>2. has[i] = { j \in DOMAIN channels : channels[j] = c }  BY <2>1, <2>2, <3>1
    <3> QED  BY <2>3, <3>2
  <2>5. HitsOn(channels)[c] = Weight(channels, Indicator(Nat, {c}))  BY DEF HitsOn
  <2> QED  BY <1>1, <2>1, <2>2, <2>4, <2>5, <2>6
<1>4. HaveAll(list, has, w)  BY <1>3 DEF HaveAll
<1>5. PICK pairs : pairs = TPsOn(list, c)  OBVIOUS
<1>6. pairs = UNION { {i} \X has[i] : i \in DOMAIN list }
  BY <1>2, <1>5 DEF TPsOn
<1>7. IsFiniteSet(pairs) /\ Cardinality(pairs) = Weight(list, w)
  <2>1. pairs = Pairs(list, has)  BY <1>6 DEF Pairs
  <2> QED  BY <1>4, <2>1, CountPairs
<1>8. TAHits(list)[c] = Weight(list, w)  BY <1>1 DEF TAHits
<1>9. pairs # {} <=> c \in HitChannels(list)
  <2>1. ASSUME NEW p \in pairs PROVE c \in HitChannels(list)
    <3>1. PICK i \in DOMAIN list : p \in {i} \X has[i]  BY <1>6
    <3>2. PICK j : j \in has[i]  BY <3>1
    <3>3. j \in DOMAIN list[i].channels /\ list[i].channels[j] = c  BY <1>2, <3>2
    <3> QED  BY <3>3 DEF HitChannels
  <2>2. ASSUME c \in HitChannels(list) PROVE pairs # {}
    <3>1. PICK i \in DOMAIN list : \E j \in DOMAIN list[i].channels : list[i].channels[j] = c
      BY <2>2 DEF HitChannels
    <3>2. PICK j : j \in has[i]  BY <1>2, <3>1
    <3>3. <<i, j>> \in {i} \X has[i]  BY <3>2
    <3> QED  BY <1>6, <3>3
  <2> QED  BY <2>1, <2>2
<1>10. Cardinality(pairs) = 0 <=> pairs = {}  BY <1>7, FS_EmptySet
<1> QED  BY <1>5, <1>7, <1>8, <1>9, <1>10

\* No channel has more TPs in the window than a count can tell.
CountsFit ==
  \A ch \in Channels : Cardinality(TPsOn(m_current_window.inputs, ch)) < CountModulus

LEMMA KeptAgrees ==
  ASSUME NEW w, Kept(w),
         \A ch \in Channels : Cardinality(TPsOn(w.inputs, ch)) < CountModulus
  PROVE  CountsAgree(w)
<1>1. PICK list \in Seq(TriggerActivity) : list = w.inputs  BY KeptParts
<1>2. PICK f \in Tallies : f = TAHits(list)  BY TAHitsType
<1>3. PICK states \in CountMaps(Channels) : states = w.channel_states /\ Counted(states, f)
  BY <1>1, <1>2, KeptParts
<1>4. Channels \subseteq Nat  BY TAChannels
<1>5. DOMAIN states \subseteq Channels  BY CountMapType
<1>6. ASSUME NEW c \in Channels
      PROVE  /\ c \in DOMAIN states <=> c \in HitChannels(list)
             /\ c \in DOMAIN states =>
                  states[c] = Cardinality(TPsOn(list, c)) % CountModulus
  <2>1. PICK n \in Nat : n = f[c]  BY <1>4 DEF Tallies
  <2>2. Cardinality(TPsOn(list, c)) = n /\ (n # 0 <=> c \in HitChannels(list))
    BY <1>2, <1>4, <2>1, TPsOnCounted
  <2>3. n < CountModulus  BY <1>1, <2>2
  <2>4. /\ c \in DOMAIN states <=> n # 0
        /\ c \in DOMAIN states => states[c] = n
    BY <1>3, <1>4, <2>1, <2>3, CountedSmall
  <2>5. n % CountModulus = n  BY <2>3, ChannelStatesAssumption
  <2> QED  BY <2>2, <2>4, <2>5
<1>7. HitChannels(list) \subseteq Channels
  <2>1. ASSUME NEW i \in DOMAIN list, NEW j \in DOMAIN list[i].channels
        PROVE  list[i].channels[j] \in Channels
    <3>1. list[i] \in TriggerActivity  OBVIOUS
    <3>2. list[i].channels \in ChannelLists  BY <3>1 DEF TriggerActivity
    <3> QED  BY <3>2 DEF Channels
  <2> QED  BY <2>1 DEF HitChannels
<1> QED  BY <1>1, <1>3, <1>5, <1>6, <1>7 DEF CountsAgree

-----------------------------------------------------------------------------
(* What a TC is given out for *)

\* How many TPs a TA has.
TPWeight == [ta \in TriggerActivity |-> n_tps(ta)]

LEMMA TPWeightType ==
  /\ TPWeight \in [TriggerActivity -> Nat]
  /\ \A ta \in TriggerActivity : TPWeight[ta] = n_tps(ta) /\ n_tps(ta) \in Nat
<1>1. ASSUME NEW ta \in TriggerActivity PROVE n_tps(ta) \in Nat
  <2>1. PICK channels \in Seq(Nat) : channels = ta.channels  BY TAChannels
  <2> QED  BY <2>1 DEF n_tps
<1> QED  BY <1>1 DEF TPWeight

\* The TPs of a list of TAs are counted one TA after another.
LEMMA TPsCounted ==
  ASSUME NEW list \in Seq(TriggerActivity)
  PROVE  IsFiniteSet(TPsOf(list)) /\ CountTPs(list) = Weight(list, TPWeight)
<1>1. PICK has : has = [k \in DOMAIN list |-> DOMAIN list[k].channels]  OBVIOUS
<1>2. TPsOf(list) = Pairs(list, has)  BY <1>1 DEF TPsOf, Pairs
<1>3. ASSUME NEW k \in DOMAIN list
      PROVE  IsFiniteSet(has[k]) /\ Cardinality(has[k]) = TPWeight[list[k]]
  <2>1. PICK ta \in TriggerActivity : ta = list[k]  OBVIOUS
  <2>2. PICK channels \in Seq(Nat) : channels = ta.channels  BY TAChannels
  <2>3. PICK n \in Nat : n = Len(channels) /\ DOMAIN channels = 1 .. n  BY <2>2
  <2>4. IsFiniteSet(1 .. n) /\ Cardinality(1 .. n) = n
    <3>1. IsFiniteSet(1 .. n) /\ Cardinality(1 .. n) = IF 1 > n THEN 0 ELSE n - 1 + 1
      BY FS_Interval
    <3> QED  BY <3>1
  <2>5. has[k] = 1 .. n  BY <1>1, <2>1, <2>2, <2>3
  <2>6. TPWeight[ta] = n  BY <2>2, <2>3, TPWeightType DEF n_tps
  <2> QED  BY <2>1, <2>4, <2>5, <2>6
<1>4. HaveAll(list, has, TPWeight)  BY <1>3 DEF HaveAll
<1> QED  BY <1>2, <1>4, TPWeightType, CountPairs DEF CountTPs

LEMMA TPsOfMore ==
  ASSUME NEW list \in Seq(TriggerActivity), NEW ta \in TriggerActivity
  PROVE  /\ CountTPs(<<ta>>) = n_tps(ta) /\ CountTPs(list) \in Nat
         /\ CountTPs(Append(list, ta)) = CountTPs(list) + n_tps(ta)
<1>1. <<ta>> \in Seq(TriggerActivity) /\ Append(list, ta) \in Seq(TriggerActivity)
  BY AppendProperties
<1>2. Weight(<<ta>>, TPWeight) = TPWeight[ta]  BY TPWeightType, WeightOfOne
<1>3. Weight(Append(list, ta), TPWeight) = Weight(list, TPWeight) + TPWeight[ta]
  BY TPWeightType, WeightAppend
<1>4. Weight(list, TPWeight) \in Nat  BY TPWeightType, WeightStep
<1> QED  BY <1>1, <1>2, <1>3, <1>4, TPsCounted, TPWeightType

\* The channels of a list are finitely many.
LEMMA HitChannelsFinite ==
  ASSUME NEW list \in Seq(TriggerActivity)
  PROVE  IsFiniteSet(HitChannels(list))
<1>1. PICK tps : tps = TPsOf(list) /\ IsFiniteSet(tps)  BY TPsCounted
<1>2. PICK on : on = [p \in tps |-> list[p[1]].channels[p[2]]]  OBVIOUS
<1>3. PICK chs : chs = { on[p] : p \in tps }  OBVIOUS
<1>4. on \in Surjection(tps, chs)
  <2>1. on \in [tps -> chs]  BY <1>2, <1>3
  <2>2. \A c \in chs : \E p \in tps : on[p] = c  BY <1>3
  <2> QED  BY <2>1, <2>2 DEF Surjection
<1>5. IsFiniteSet(chs)  BY <1>1, <1>4, FS_Surjection
<1>6. HitChannels(list) \subseteq chs
  <2>1. ASSUME NEW i \in DOMAIN list, NEW j \in DOMAIN list[i].channels
        PROVE  list[i].channels[j] \in chs
    <3>1. PICK p : p = <<i, j>>  OBVIOUS
    <3>2. p \in {i} \X DOMAIN list[i].channels  BY <3>1
    <3>3. p \in tps  BY <1>1, <3>2 DEF TPsOf
    <3>4. p[1] = i /\ p[2] = j  BY <3>1
    <3>5. on[p] = list[i].channels[j]  BY <1>2, <3>3, <3>4
    <3> QED  BY <1>3, <3>3, <3>5
  <2> QED  BY <2>1 DEF HitChannels
<1> QED  BY <1>5, <1>6, FS_Subset

LEMMA ModIsLess ==
  ASSUME NEW a \in Nat, NEW m \in Nat \ {0}
  PROVE  a % m \in Nat /\ a % m <= a
<1>0. PICK r : r = a % m  OBVIOUS
<1>1. r \in 0 .. m - 1 /\ \E q \in Int : a = m * q + r
  <2>1. a \in Int  OBVIOUS
  <2>2. a % m \in 0 .. m - 1 /\ \E q \in Int : a = m * q + (a % m)  BY <2>1, ModDefinition
  <2> QED  BY <1>0, <2>2
<1>5. PICK q \in Int : a = m * q + r  BY <1>1
<1>2. q >= 0
  <2>1. ASSUME q <= -1 PROVE FALSE
    <3>1. PICK p \in Nat : q = -1 - p  BY <2>1
    <3>2. m * p \in Nat /\ m * q = - m - m * p  BY <3>1
    <3> QED  BY <1>1, <1>5, <3>2
  <2> QED  BY <2>1
<1>3. m * q \in Nat  BY <1>2
<1> QED  BY <1>0, <1>1, <1>3, <1>5

\* A window is never over a threshold that its TAs are not over: what has
\* wrapped is smaller than what it stands for.
LEMMA OverIsTriggered ==
  ASSUME ConfigInv, maker \in Judging \cup Closing, NEW w, Charged(w), Kept(w),
         over_threshold(w)
  PROVE  Triggers(w.inputs)
<1>1. maker \in Makers  BY TriggerCandidateFactoryAssumption
<1>2. DOMAIN m_config = WindowMembers  BY <1>1, TriggerCandidateFactoryAssumption DEF ConfigInv
<1>3. {"adc_threshold", "n_channels_threshold"} \subseteq DOMAIN m_config \ Switches
  BY <1>2 DEF WindowMembers, Switches
<1>4. m_config["adc_threshold"] \in Nat /\ m_config["n_channels_threshold"] \in Nat
  BY <1>1, <1>3 DEF ConfigInv, ValidConfig
<1>5. PICK list \in Seq(TriggerActivity) : list = w.inputs  BY DEF Charged
<1>6. CASE over_adc(w)
  <2>1. \A e \in TriggerActivity : e.adc_integral \in Nat  BY TAType
  <2>2. PICK all \in Nat : all = TotalAdc(list)  BY <2>1, TotalAdcType
  <2>3. w.adc_integral = all % AdcModulus  BY <1>5, <2>2 DEF Charged, ChargeAgrees
  <2>4. all % AdcModulus \in Nat /\ all % AdcModulus <= all
    BY ModIsLess, TAWindowAssumption
  <2>5. m_config["trigger_on_adc"] /\ all % AdcModulus > m_config["adc_threshold"]
    BY <1>6, <2>3 DEF over_adc
  <2>6. all > m_config["adc_threshold"]  BY <1>4, <2>4, <2>5
  <2> QED  BY <1>5, <2>2, <2>5, <2>6 DEF Triggers
<1>7. CASE over_n_channels(w)
  <2>1. PICK states : /\ states = w.channel_states /\ states \in CountMaps(Channels)
                      /\ Counted(states, TAHits(list))
    BY <1>5, KeptParts
  <2>2. DOMAIN states \subseteq HitChannels(list)
    <3>1. ASSUME NEW c \in DOMAIN states PROVE c \in HitChannels(list)
      <4>1. c \in Nat  BY <2>1, CountMapType, TAChannels
      <4>2. TAHits(list)[c] > 0  BY <2>1 DEF Counted
      <4>3. TAHits(list)[c] # 0  BY <4>2
      <4> QED  BY <4>1, <4>3, TPsOnCounted
    <3> QED  BY <3>1
  <2>3. /\ IsFiniteSet(HitChannels(list)) /\ IsFiniteSet(DOMAIN states)
        /\ Cardinality(DOMAIN states) <= Cardinality(HitChannels(list))
    BY <2>2, HitChannelsFinite, FS_Subset
  <2>4. PICK n \in Nat, all \in Nat :
          n = Cardinality(DOMAIN states) /\ all = Cardinality(HitChannels(list)) /\ n <= all
    BY <2>3, FS_CardinalityType
  <2>5. n % CountModulus \in Nat /\ n % CountModulus <= n
    BY ModIsLess, ChannelStatesAssumption
  <2>6. m_config["trigger_on_n_channels"] /\ n % CountModulus > m_config["n_channels_threshold"]
    BY <1>7, <2>1, <2>4 DEF over_n_channels, n_channels_hit, n_channels
  <2>7. all > m_config["n_channels_threshold"]  BY <1>4, <2>4, <2>5, <2>6
  <2> QED  BY <1>5, <2>4, <2>6, <2>7 DEF Triggers
<1> QED  BY <1>6, <1>7 DEF over_threshold

\* A list in the span of a window is short, or has one TA.
LEMMA SpanIsShort ==
  ASSUME NEW w, w.inputs \in Seq(TriggerActivity), w.inputs # <<>>, NEW length \in Nat,
         SpanAgrees(w, length)
  PROVE  span(w.inputs) < length \/ Len(w.inputs) = 1
<1>1. PICK s \in Seq(TriggerActivity), m \in Nat :
        s = w.inputs /\ m = Len(s) /\ DOMAIN s = 1 .. m /\ m # 0
  BY EmptySeq
<1> SUFFICES ASSUME m # 1 PROVE span(s) < length
  BY <1>1
<1>7. m # 0  BY <1>1
<1>2. m \in 2 .. m /\ 1 \in 1 .. m /\ m \in 1 .. m /\ 1 < m  BY <1>7
<1>3. s[1].time_start \in Nat /\ s[m].time_start \in Nat
  <2>1. s[1] \in TriggerActivity /\ s[m] \in TriggerActivity  BY <1>1, <1>2
  <2> QED  BY <2>1, TAType
<1>4. /\ w.time_start = s[1].time_start /\ s[1].time_start <= s[m].time_start
      /\ fits(s[m].time_start, w.time_start, length)
  BY <1>1, <1>2 DEF SpanAgrees
<1>5. PICK x \in Nat, y \in Nat : x = s[1].time_start /\ y = s[m].time_start  BY <1>3
<1>6. y - x < length  BY <1>4, <1>5 DEF fits, elapsed, UIntMinus
<1> QED  BY <1>1, <1>5, <1>6 DEF span

\* A TA never has more TPs than an uint16_t can count.
TPsFit == \A i \in DOMAIN received : n_tps(received[i]) < CountModulus

\* The window of MichelElectron is one in order and in its span, or a single TA
\* under a start time that is a window older.
MichelSpan(w, length) ==
  w.inputs # <<>> =>
    \/ SpanAgrees(w, length)
    \/ Len(w.inputs) = 1 /\ w.time_start + length <= w.inputs[1].time_start

\* What a maker knows of the TAs it holds, as it will give them out.
ReasonInv ==
  /\ maker = "BundleN" =>
       m_current_tc = <<>> \/ Len(m_current_tc) < m_config["bundle_size"]
  /\ maker \in {"ChannelDistance", "DBSCAN"} /\ TPsFit /\ m_current_tc # <<>> =>
       /\ m_current_tp_count = CountTPs(m_current_tc)
       /\ Len(m_current_tc) = 1 \/ CountTPs(m_current_tc) <= m_config["max_tp_count"]
  /\ maker \in {NoMaker, "Prescale"} => m_activity_count = Len(received)
  /\ maker = "Supernova" =>
       /\ FromStream(m_activity, received)
       /\ Len(m_activity) <= SupernovaThreshold
       /\ \A ta \in Range(m_activity) : n_tps(ta) > SupernovaHitThreshold
  /\ maker = "MichelElectron" /\ Ordered =>
       MichelSpan(m_current_window, m_config["window_length"])

\* A TC that goes out is justified.
Justifies ==
  \/ UNCHANGED output_tc
  \/ \E tc : output_tc' = Append(output_tc, tc) /\ (TPsFit' => Justified(tc.inputs)')

\* The names are all different.
LEMMA ReasonNames ==
  /\ maker \in Judging \cup {"PlaneCoincidence", "ADCSimpleWindow"} =>
       /\ maker # "BundleN" /\ maker \notin {"ChannelDistance", "DBSCAN"}
       /\ maker \notin {NoMaker, "Prescale"} /\ maker # "Supernova" /\ maker # "MichelElectron"
  /\ maker = "MichelElectron" =>
       /\ maker # "BundleN" /\ maker \notin {"ChannelDistance", "DBSCAN"}
       /\ maker \notin {NoMaker, "Prescale"} /\ maker # "Supernova"
  /\ maker \in Makers => maker # NoMaker
BY TriggerCandidateFactoryAssumption DEF Judging, Closing, Bundling, NoMaker

\* What is a good reason now is one later.
LEMMA JustifiedStays ==
  ASSUME UNCHANGED <<maker, m_config>>, Ordered' => Ordered, NEW tas, Justified(tas)
  PROVE  Justified(tas)'
<1>1. Triggers(tas)' <=> Triggers(tas)  BY DEF Triggers
<1>2. pass_through' <=> pass_through  BY DEF pass_through
<1>3. CASE maker \in Judging
  BY <1>1, <1>3 DEF Justified, Closing, Judging
<1>4. CASE maker \in Closing /\ pass_through
  BY <1>2, <1>4 DEF Justified, Closing, Judging
<1>5. CASE maker \in Closing /\ ~ pass_through
  BY <1>1, <1>2, <1>5 DEF Justified, Closing, Judging
<1>6. CASE maker = "BundleN"
  BY <1>6 DEF Justified, Closing, Judging
<1>7. CASE maker \in {"ChannelDistance", "DBSCAN"}
  BY <1>7 DEF Justified, Closing, Judging
<1>8. CASE maker = "Prescale"
  BY <1>8 DEF Justified, Closing, Judging
<1>9. CASE maker = "Supernova"
  BY <1>9 DEF Justified, Closing, Judging
<1>10. CASE maker \notin Judging \cup Closing \cup
                 {"BundleN", "ChannelDistance", "DBSCAN", "Prescale", "Supernova"}
  BY <1>10 DEF Justified, Closing, Judging
<1> QED  BY <1>3, <1>4, <1>5, <1>6, <1>7, <1>8, <1>9, <1>10

\* The hypotheses about the stream hold earlier if they hold later.
LEMMA StreamWasSo ==
  ASSUME received \in Seq(TriggerActivity), NEW ta \in TriggerActivity,
         received' = Append(received, ta)
  PROVE  /\ Ordered' => Ordered
         /\ Ordered' => \A i \in DOMAIN received : received[i].time_start <= ta.time_start
         /\ TPsFit' => TPsFit /\ n_tps(ta) < CountModulus
<1>1. PICK m \in Nat : m = Len(received) /\ DOMAIN received = 1 .. m  OBVIOUS
<1>2. /\ DOMAIN received' = 1 .. (m + 1) /\ received'[m + 1] = ta
      /\ \A k \in 1 .. m : received'[k] = received[k]
  BY <1>1
<1>3. \A k \in 1 .. m : k \in 1 .. (m + 1) /\ m + 1 \in 1 .. (m + 1) /\ k < m + 1  OBVIOUS
<1>4. Ordered' => Ordered
  BY <1>1, <1>2, <1>3 DEF Ordered
<1>5. Ordered' => \A i \in DOMAIN received : received[i].time_start <= ta.time_start
  BY <1>1, <1>2, <1>3 DEF Ordered
<1>6. m + 1 \in 1 .. (m + 1)  OBVIOUS
<1>7. TPsFit' => TPsFit  BY <1>1, <1>2, <1>3 DEF TPsFit
<1>8. TPsFit' => n_tps(ta) < CountModulus
  <2>1. ASSUME TPsFit' PROVE n_tps(ta) < CountModulus
    <3>1. n_tps(received'[m + 1]) < CountModulus  BY <1>2, <1>6, <2>1 DEF TPsFit
    <3> QED  BY <1>2, <3>1
  <2> QED  BY <2>1
<1> QED  BY <1>4, <1>5, <1>7, <1>8

LEMMA JudgingReasons ==
  ASSUME Inv, MemberInv, maker \in Judging, NEW ta \in NextTAs(received), receive_and_judge(ta)
  PROVE  ReasonInv' /\ Justifies
<1>1. ta \in TriggerActivity  BY NextTA DEF Inv, StreamInv
<1>2. PICK u : u = joined(ta)  OBVIOUS
<1>3. PICK length : length = m_config["window_length"]  OBVIOUS
<1>4. Charged(u) /\ SpanAgrees(u, length) /\ Kept(u) /\ u.inputs # <<>>
  <2>1. Charged(u) /\ SpanAgrees(u, length) /\ ta \in Range(u.inputs)
    BY <1>1, <1>2, <1>3, JoinedKeeps DEF Inv
  <2>2. u.inputs # <<>>  BY <2>1, RangeOfNone
  <2> QED  BY <1>1, <1>2, <2>1, <2>2, JoinedKept
<1>5. UNCHANGED <<maker, m_config>>  BY DEF receive_and_judge, take
<1>6. ReasonInv'  BY <1>5, ReasonNames DEF ReasonInv
<1>7. CASE hold_ta(ta)
  BY <1>6, <1>7 DEF hold_ta, Justifies
<1>8. CASE emit_tc(ta)
  <2>1. output_tc' = Append(output_tc, construct_tc(u)) /\ over_threshold(u)
    BY <1>2, <1>8 DEF emit_tc
  <2>2. construct_tc(u).inputs = u.inputs  BY DEF construct_tc, tc_of
  <2>3. Triggers(u.inputs)  BY <1>4, <2>1, OverIsTriggered DEF Inv
  <2>4. span(u.inputs) < length \/ Len(u.inputs) = 1
    <3>1. length \in Nat  BY <1>3, LengthIsShort DEF Inv, Short
    <3> QED  BY <1>4, <3>1, SpanIsShort DEF Charged
  <2>5. PICK l : l = u.inputs  OBVIOUS
  <2>6. Justified(l)'
    <3>1. Triggers(l)'  BY <1>5, <2>3, <2>5 DEF Triggers
    <3> QED  BY <1>3, <1>5, <2>4, <2>5, <3>1 DEF Justified, Closing, Judging
  <2> QED  BY <1>6, <2>1, <2>2, <2>5, <2>6 DEF Justifies
<1> QED  BY <1>7, <1>8 DEF receive_and_judge

\* ADCSimpleWindow and Prescale
LEMMA SingleReasons ==
  ASSUME Inv, ReasonInv, NEW ta \in NextTAs(received),
         \/ maker = "ADCSimpleWindow" /\ receive_adcsw(ta)
         \/ maker = "Prescale" /\ receive_prescale(ta)
  PROVE  ReasonInv' /\ Justifies
<1>1. /\ ta.id = Len(received) + 1 /\ ta \in TriggerActivity
      /\ received \in Seq(TriggerActivity)
  BY NextTA DEF Inv, StreamInv
<1>2. PICK l : l = <<ta>>  OBVIOUS
<1>3. Len(l) = 1 /\ l[1] = ta  BY <1>2
<1>4. CASE maker = "ADCSimpleWindow" /\ receive_adcsw(ta)
  <2>1. /\ UNCHANGED <<maker, m_config>>
        /\ \E tc : output_tc' = Append(output_tc, tc) /\ tc.inputs = l
    BY <1>2, <1>4 DEF receive_adcsw, take, tc_of
  <2>2. Justified(l)'
    BY <1>3, <1>4, <2>1 DEF Justified, Closing, Judging
  <2>3. ReasonInv'  BY <1>4, <2>1, ReasonNames DEF ReasonInv
  <2> QED  BY <2>1, <2>2, <2>3 DEF Justifies
<1>5. CASE maker = "Prescale" /\ receive_prescale(ta)
  <2>1. /\ UNCHANGED <<maker, m_config>> /\ m_activity_count' = m_activity_count + 1
        /\ received' = Append(received, ta)
        /\ \/ UNCHANGED output_tc
           \/ /\ output_tc' = Append(output_tc, prescaled_tc(ta))
              /\ m_activity_count % m_config["prescale"] = 0
    BY <1>5 DEF receive_prescale, take
  <2>2. m_activity_count = Len(received)  BY <1>5 DEF ReasonInv
  <2>3. Len(received') = Len(received) + 1  BY <1>1, <2>1
  <2>4. ReasonInv'
    <3>1. /\ maker # "BundleN" /\ maker \notin {"ChannelDistance", "DBSCAN"}
          /\ maker # "Supernova" /\ maker # "MichelElectron"
      BY <1>5
    <3> QED  BY <2>1, <2>2, <2>3, <3>1 DEF ReasonInv
  <2>5. prescaled_tc(ta).inputs = l  BY <1>2 DEF prescaled_tc, tc_of
  <2>6. ASSUME m_activity_count % m_config["prescale"] = 0 PROVE Justified(l)'
    <3>1. ta.id - 1 = m_activity_count  BY <1>1, <2>2
    <3>2. (l[1].id - 1) % m_config["prescale"] = 0  BY <1>3, <2>6, <3>1
    <3> QED  BY <1>3, <1>5, <2>1, <3>2 DEF Justified, Closing, Judging
  <2> QED  BY <2>1, <2>4, <2>5, <2>6 DEF Justifies
<1> QED  BY <1>4, <1>5

\* BundleN
LEMMA BundleNReasons ==
  ASSUME Inv, ReasonInv, maker = "BundleN", NEW ta \in NextTAs(received), receive_bundle(ta)
  PROVE  ReasonInv' /\ Justifies
<1>1. ta \in TriggerActivity  BY NextTA DEF Inv, StreamInv
<1>2. PICK size \in Nat : size = m_config["bundle_size"]
  <2>1. maker \in Makers  BY TriggerCandidateFactoryAssumption DEF Bundling
  <2>2. "bundle_size" \in DOMAIN m_config \ Switches
    BY <2>1, TriggerCandidateFactoryAssumption DEF Inv, ConfigInv, Switches
  <2>3. m_config["bundle_size"] \in Nat  BY <2>1, <2>2 DEF Inv, ConfigInv, ValidConfig
  <2> QED  BY <2>3
<1>3. PICK held \in Seq(TriggerActivity), k \in Nat : held = m_current_tc /\ k = Len(held)
  BY DEF Inv, BundleInv
<1>4. k = 0 \/ k < size
  <2>1. held = <<>> \/ Len(held) < size  BY <1>2, <1>3 DEF ReasonInv
  <2>2. held = <<>> => k = 0  BY <1>3
  <2> QED  BY <1>3, <2>1, <2>2
<1>5. PICK more : more = Append(held, ta) /\ Len(more) = k + 1
  <2>1. Len(Append(held, ta)) = Len(held) + 1  BY <1>1
  <2> QED  BY <1>3, <2>1
<1>6. UNCHANGED <<maker, m_config>>  BY DEF receive_bundle, take
<1>7. ASSUME m_current_tc' = <<>> \/ Len(m_current_tc') < size PROVE ReasonInv'
  <2>1. /\ maker \notin {"ChannelDistance", "DBSCAN"} /\ maker \notin {NoMaker, "Prescale"}
        /\ maker # "Supernova" /\ maker # "MichelElectron"
    BY DEF NoMaker
  <2> QED  BY <1>2, <1>6, <1>7, <2>1 DEF ReasonInv
<1>8. CASE grow_bundle(ta)
  <2>1. /\ ~ (k + 1 = size \/ k + 1 > size) /\ UNCHANGED output_tc /\ m_current_tc' = more
    BY <1>2, <1>3, <1>5, <1>8 DEF grow_bundle, bundle_ready
  <2>2. k + 1 < size  BY <2>1
  <2> QED  BY <1>5, <1>7, <2>1, <2>2 DEF Justifies
<1>9. CASE emit_bundle(ta)
  <2>1. /\ k + 1 = size \/ k + 1 > size
        /\ m_current_tc' = <<>> /\ output_tc' = Append(output_tc, bundled_tc(more, more[1]))
    BY <1>2, <1>3, <1>5, <1>9 DEF emit_bundle, bundle_ready
  <2>2. bundled_tc(more, more[1]).inputs = more  BY DEF bundled_tc, tc_of
  <2>3. k + 1 = IF size = 0 THEN 1 ELSE size  BY <1>4, <2>1
  <2>4. Justified(more)'
    BY <1>2, <1>5, <1>6, <2>3 DEF Justified, Closing, Judging
  <2> QED  BY <1>7, <2>1, <2>2, <2>4 DEF Justifies
<1> QED  BY <1>8, <1>9 DEF receive_bundle

\* ChannelDistance and DBSCAN
LEMMA TPCountReasons ==
  ASSUME Inv, ReasonInv, maker \in {"ChannelDistance", "DBSCAN"},
         NEW ta \in NextTAs(received), receive_by_tp_count(ta)
  PROVE  ReasonInv' /\ Justifies
<1>1. ta \in TriggerActivity /\ received \in Seq(TriggerActivity)
  BY NextTA DEF Inv, StreamInv
<1>2. PICK max \in Nat : max = m_config["max_tp_count"] /\ max < CountModulus
  <2>1. maker \in Makers  BY TriggerCandidateFactoryAssumption DEF Bundling
  <2>2. "max_tp_count" \in DOMAIN m_config \ Switches
    BY <2>1, TriggerCandidateFactoryAssumption DEF Inv, ConfigInv, Switches
  <2>3. m_config["max_tp_count"] \in Nat /\ m_config["max_tp_count"] < CountModulus
    BY <2>1, <2>2 DEF Inv, ConfigInv, ValidConfig
  <2> QED  BY <2>3
<1>3. PICK held \in Seq(TriggerActivity) : held = m_current_tc
  BY DEF Inv, BundleInv
<1>4. PICK n \in Nat : n = n_tps(ta)  BY <1>1, TPWeightType
<1>5. UNCHANGED <<maker, m_config>> /\ received' = Append(received, ta)
  BY DEF receive_by_tp_count, take
<1>6. TPsFit' => TPsFit /\ n < CountModulus  BY <1>1, <1>4, <1>5, StreamWasSo
<1>7. ASSUME TPsFit' => \/ m_current_tc' = <<>>
                        \/ /\ m_current_tp_count' = CountTPs(m_current_tc')
                           /\ Len(m_current_tc') = 1 \/ CountTPs(m_current_tc') <= max
      PROVE  ReasonInv'
  <2>1. /\ maker # "BundleN" /\ maker \notin {NoMaker, "Prescale"}
        /\ maker # "Supernova" /\ maker # "MichelElectron"
    BY DEF NoMaker
  <2>2. CountTPs(m_current_tc)' = CountTPs(m_current_tc')  BY DEF CountTPs, TPsOf
  <2> QED  BY <1>2, <1>5, <1>7, <2>1, <2>2 DEF ReasonInv
<1>8. ASSUME set_new_tc(ta) PROVE ReasonInv'
  <2>1. m_current_tc' = <<ta>> /\ m_current_tp_count' = n % CountModulus
    BY <1>4, <1>8 DEF set_new_tc
  <2>2. n < CountModulus => n % CountModulus = n  BY ChannelStatesAssumption
  <2>3. CountTPs(<<ta>>) = n /\ Len(<<ta>>) = 1
    <3>1. CountTPs(<<ta>>) = n_tps(ta)  BY <1>1, <1>3, TPsOfMore
    <3>2. Len(<<ta>>) = 1  OBVIOUS
    <3> QED  BY <1>4, <3>1, <3>2
  <2> QED  BY <1>6, <1>7, <2>1, <2>2, <2>3
<1>9. ASSUME held # <<>>, TPsFit
      PROVE  /\ m_current_tp_count = CountTPs(held)
             /\ Len(held) = 1 \/ CountTPs(held) <= max
  BY <1>2, <1>3, <1>9 DEF ReasonInv
<1>10. CASE start_by_tp_count(ta)
  BY <1>8, <1>10 DEF start_by_tp_count, Justifies
<1>11. CASE emit_by_tp_count(ta)
  <2>1. /\ set_new_tc(ta) /\ held # <<>>
        /\ output_tc' = Append(output_tc, bundled_tc(held, held[Len(held)]))
    BY <1>3, <1>11 DEF emit_by_tp_count
  <2>2. bundled_tc(held, held[Len(held)]).inputs = held  BY DEF bundled_tc, tc_of
  <2>3. ASSUME TPsFit' PROVE Justified(held)'
    <3>1. Len(held) = 1 \/ CountTPs(held) <= max  BY <1>6, <1>9, <2>1, <2>3
    <3> QED  BY <1>2, <1>5, <3>1 DEF Justified, Closing, Judging
  <2> QED  BY <1>8, <2>1, <2>2, <2>3 DEF Justifies
<1>12. CASE grow_by_tp_count(ta)
  <2>1. PICK more : more = Append(held, ta)  OBVIOUS
  <2>2. /\ held # <<>> /\ n + m_current_tp_count <= max /\ m_current_tc' = more
        /\ m_current_tp_count' = (m_current_tp_count + n) % CountModulus
        /\ UNCHANGED output_tc
    BY <1>2, <1>3, <1>4, <1>12, <2>1 DEF grow_by_tp_count, UIntPlus
  <2>3. PICK all \in Nat : all = CountTPs(held) /\ CountTPs(more) = all + n
    BY <1>1, <1>4, <2>1, TPsOfMore
  <2>4. ASSUME TPsFit'
        PROVE  m_current_tp_count' = CountTPs(more) /\ CountTPs(more) <= max
    <3>1. m_current_tp_count = all  BY <1>6, <1>9, <2>2, <2>3, <2>4
    <3>2. n + all <= max  BY <2>2, <3>1
    <3>3. all + n \in 0 .. CountModulus - 1 /\ all + n <= max
      BY <1>2, <3>2, ChannelStatesAssumption
    <3>4. (all + n) % CountModulus = all + n  BY <3>3, ChannelStatesAssumption
    <3> QED  BY <2>2, <2>3, <3>1, <3>3, <3>4
  <2>5. ReasonInv'  BY <1>7, <2>2, <2>4
  <2> QED  BY <2>2, <2>5 DEF Justifies
<1> QED  BY <1>10, <1>11, <1>12 DEF receive_by_tp_count

\* What Supernova counts: the busy TAs of the last ten seconds.
LEMMA CountedAre ==
  ASSUME BundleInv, NEW ta \in TriggerActivity
  PROVE  /\ counted(ta) \in Seq(TriggerActivity)
         /\ Range(counted(ta)) = { e \in Range(m_activity) : Recent(e, ta.time_start) }
                                   \cup { e \in {ta} : n_tps(e) > SupernovaHitThreshold }
<1>1. PICK left \in Seq(TriggerActivity) :
        /\ left = FlushOldActivity(ta.time_start)
        /\ Range(left) = { e \in Range(m_activity) : Recent(e, ta.time_start) }
  <2>1. LET left == FlushOldActivity(ta.time_start)
        IN  /\ left \in Seq(TriggerActivity) /\ Len(left) <= Len(m_activity)
            /\ Ids(left) \subseteq Ids(m_activity)
            /\ Range(left) = { e \in Range(m_activity) : Recent(e, ta.time_start) }
    BY FlushKeepsSome DEF BundleInv
  <2> QED  BY <2>1
<1>2. CASE n_tps(ta) > SupernovaHitThreshold
  <2>1. <<ta>> \in Seq(TriggerActivity)  OBVIOUS
  <2>2. counted(ta) = left \o <<ta>>  BY <1>1, <1>2 DEF counted
  <2>3. left \o <<ta>> \in Seq(TriggerActivity)  BY <2>1, ConcatProperties
  <2>4. Range(left \o <<ta>>) = Range(left) \cup {ta}
    <3>1. PICK one \in Seq(TriggerActivity) : one = <<ta>> /\ Range(one) = {ta}
      BY <2>1, RangeOfOne
    <3>2. Range(left \o one) = Range(left) \cup Range(one)  BY RangeOfConcat
    <3> QED  BY <3>1, <3>2
  <2> QED  BY <1>1, <1>2, <2>2, <2>3, <2>4
<1>3. CASE ~ (n_tps(ta) > SupernovaHitThreshold)
  <2>1. counted(ta) = left \o <<>>  BY <1>1, <1>3 DEF counted
  <2>2. counted(ta) = left  BY <2>1, ConcatEmptySeq
  <2> QED  BY <1>1, <1>3, <2>2
<1> QED  BY <1>2, <1>3

\* When there are more of them than were held, the TA that came is the last.
LEMMA CountedLast ==
  ASSUME BundleInv, NEW ta \in TriggerActivity, Len(counted(ta)) > Len(m_activity)
  PROVE  counted(ta) # <<>> /\ counted(ta)[Len(counted(ta))] = ta
<1>1. PICK left \in Seq(TriggerActivity) :
        left = FlushOldActivity(ta.time_start) /\ Len(left) <= Len(m_activity)
  <2>1. LET left == FlushOldActivity(ta.time_start)
        IN  /\ left \in Seq(TriggerActivity) /\ Len(left) <= Len(m_activity)
            /\ Ids(left) \subseteq Ids(m_activity)
            /\ Range(left) = { e \in Range(m_activity) : Recent(e, ta.time_start) }
    BY FlushKeepsSome DEF BundleInv
  <2> QED  BY <2>1
<1>2. CASE n_tps(ta) > SupernovaHitThreshold
  <2>1. counted(ta) = Append(left, ta)
    <3>1. counted(ta) = left \o <<ta>>  BY <1>1, <1>2 DEF counted
    <3> QED  BY <3>1
  <2> QED  BY <2>1, AppendProperties
<1>3. CASE ~ (n_tps(ta) > SupernovaHitThreshold)
  <2>1. counted(ta) = left \o <<>>  BY <1>1, <1>3 DEF counted
  <2>2. counted(ta) = left  BY <2>1, ConcatEmptySeq
  <2>3. Len(m_activity) \in Nat  BY DEF BundleInv
  <2> QED  BY <1>1, <2>2, <2>3
<1> QED  BY <1>2, <1>3

LEMMA SupernovaReasons ==
  ASSUME Inv, ReasonInv, maker = "Supernova", NEW ta \in NextTAs(received), receive_supernova(ta)
  PROVE  ReasonInv' /\ Justifies
<1>1. /\ ta \in TriggerActivity /\ ta.id = Len(received) + 1
      /\ received \in Seq(TriggerActivity)
  BY NextTA DEF Inv, StreamInv
<1>2. UNCHANGED <<maker, m_config>> /\ received' = Append(received, ta)
  BY DEF receive_supernova, take
<1>3. PICK l \in Seq(TriggerActivity) :
        /\ l = counted(ta)
        /\ \A e \in Range(l) :
             \/ e \in Range(m_activity) /\ Recent(e, ta.time_start)
             \/ e = ta /\ n_tps(ta) > SupernovaHitThreshold
  BY <1>1, CountedAre DEF Inv
<1>4. /\ FromStream(m_activity, received)
      /\ \A e \in Range(m_activity) : n_tps(e) > SupernovaHitThreshold
  BY DEF ReasonInv
<1>5. \A e \in Range(l) : n_tps(e) > SupernovaHitThreshold
  BY <1>3, <1>4
<1>6. FromStream(l, received')
  <2>1. FromStream(m_activity, received')  BY <1>1, <1>2, <1>4, FromLongerStream
  <2>2. ta.id \in DOMAIN received' /\ received'[ta.id] = ta  BY <1>1, <1>2
  <2> QED  BY <1>3, <2>1, <2>2 DEF FromStream
<1>7. SupernovaWindow \in Nat /\ SupernovaThreshold \in Nat  BY CandidateBundleAssumption
<1>8. ASSUME Ordered', NEW e \in Range(l)
      PROVE  ta.time_start - SupernovaWindow <= e.time_start /\ e.time_start <= ta.time_start
  <2>1. PICK t \in Nat : t = ta.time_start  BY <1>1, TAType
  <2>2. CASE e \in Range(m_activity) /\ Recent(e, ta.time_start)
    <3>1. e.id \in DOMAIN received /\ received[e.id] = e  BY <1>4, <2>2 DEF FromStream
    <3>2. e.time_start <= t  BY <1>1, <1>2, <1>8, <2>1, <3>1, StreamWasSo
    <3>3. e \in TriggerActivity  BY <1>1, <3>1
    <3>4. e.time_start \in Nat  BY <3>3, TAType
    <3> QED  BY <1>7, <2>1, <2>2, <3>2, <3>4 DEF Recent
  <2>3. CASE e = ta  BY <1>7, <2>1, <2>3
  <2> QED  BY <1>3, <2>2, <2>3
<1>9. ASSUME FromStream(m_activity', received'), Len(m_activity') <= SupernovaThreshold,
             \A e \in Range(m_activity') : n_tps(e) > SupernovaHitThreshold
      PROVE  ReasonInv'
  <2>1. /\ maker # "BundleN" /\ maker \notin {NoMaker, "Prescale"}
        /\ maker \notin {"ChannelDistance", "DBSCAN"} /\ maker # "MichelElectron"
    BY DEF NoMaker
  <2>2. /\ FromStream(m_activity, received)' /\ Range(m_activity)' = Range(m_activity')
        /\ (Len(m_activity) <= SupernovaThreshold)'
    BY <1>9 DEF FromStream, Range
  <2> QED  BY <1>2, <1>9, <2>1, <2>2 DEF ReasonInv, n_tps
<1>10. CASE wait_for_more(ta)
  <2>1. /\ m_activity' = l /\ Len(l) <= SupernovaThreshold
        /\ UNCHANGED output_tc
    BY <1>3, <1>10 DEF wait_for_more
  <2> QED  BY <1>5, <1>6, <1>9, <2>1 DEF Justifies
<1>11. CASE emit_supernova(ta)
  <2>1. PICK tc : /\ m_activity' = <<>> /\ tc.inputs = l /\ output_tc' = Append(output_tc, tc)
                  /\ Len(l) > SupernovaThreshold
    BY <1>3, <1>11 DEF emit_supernova, tc_of
  <2>2. ReasonInv'
    <3>1. Len(<<>>) <= SupernovaThreshold  BY <1>7
    <3> QED  BY <1>9, <2>1, <3>1, RangeOfNone DEF FromStream
  <2>3. PICK k \in Nat : k = Len(l) /\ DOMAIN l = 1 .. k  OBVIOUS
  <2>4. 1 \in 1 .. k /\ k \in 1 .. k  BY <1>7, <2>1, <2>3
  <2>5. \A i \in 1 .. k : l[i] \in Range(l) /\ l[i] \in TriggerActivity
    BY <2>3 DEF Range
  <2>6. ASSUME Ordered' PROVE span(l) <= SupernovaWindow
    <3>1. PICK t \in Nat, a \in Nat, b \in Nat :
            t = ta.time_start /\ a = l[1].time_start /\ b = l[k].time_start
      BY <1>1, <2>4, <2>5, TAType
    <3>2. t - SupernovaWindow <= a /\ b <= t  BY <1>8, <2>4, <2>5, <2>6, <3>1
    <3>3. b - a <= SupernovaWindow  BY <1>7, <3>2
    <3> QED  BY <2>3, <3>1, <3>3 DEF span
  <2>7. Justified(l)'
    BY <1>2, <1>5, <2>1, <2>3, <2>5, <2>6 DEF Justified, Closing, Judging
  <2> QED  BY <2>1, <2>2, <2>7 DEF Justifies
<1> QED  BY <1>10, <1>11 DEF receive_supernova

\* move() of MichelElectron, for a TA that is not late: the list is one in
\* order, or the TA alone, under a time it does not fit.
LEMMA MoveMESpan ==
  ASSUME NEW w, Charged(w), w.inputs # <<>>, w.time_start \in Nat,
         NEW length, Short(length), MichelSpan(w, length),
         NEW ta \in TriggerActivity, \A e \in Range(w.inputs) : e.time_start <= ta.time_start
  PROVE  MichelSpan(move_me(w, ta, length), length)
<1>1. PICK u : u = move_me(w, ta, length)  OBVIOUS
<1>2. PICK s \in Seq(TriggerActivity), m \in Nat :
        s = w.inputs /\ m = Len(s) /\ DOMAIN s = 1 .. m /\ m # 0
  BY EmptySeq DEF Charged
<1>3. m # 0  BY <1>2
<1>4. 1 \in 1 .. m  BY <1>3
<1>5. PICK first \in Nat, t \in Nat :
        first = s[1].time_start /\ t = ta.time_start /\ first <= t
  <2>1. s[1] \in TriggerActivity /\ s[1] \in Range(w.inputs)  BY <1>2, <1>4 DEF Range
  <2> QED  BY <2>1, TAType
<1>6. length \in Nat  BY DEF Short
<1>7. PICK n \in 0 .. m :
        /\ n = n_to_erase(w.inputs, ta.time_start, length)
        /\ \A i \in 1 .. n : ~ fits(ta.time_start, s[i].time_start, length)
        /\ n < m => fits(ta.time_start, s[n + 1].time_start, length)
  BY <1>2, NToErase
<1>8. CASE n < m
  <2>1. PICK v : v = erase_front(w, n) /\ u = add(v, ta)  BY <1>1, <1>2, <1>7, <1>8 DEF move_me
  <2>2. /\ Charged(v) /\ v.inputs # <<>>
        /\ v.inputs = SubSeq(s, n + 1, Len(s)) /\ v.time_start = s[n + 1].time_start
        /\ SpanAgrees(w, length) => SpanAgrees(v, length)
    <3>1. n \in Nat /\ n < Len(w.inputs)  BY <1>2, <1>8
    <3> QED  BY <1>2, <1>6, <2>1, <3>1, EraseKeeps
  <2>3. CASE ~ SpanAgrees(w, length)
    <3>1. m = 1  BY <1>2, <2>3 DEF MichelSpan
    <3>2. n = 0  BY <1>8, <3>1
    <3>3. n \in 0 .. Len(s)  BY <1>2
    <3>4. PICK q \in Seq(TriggerActivity) :
            q = v.inputs /\ Len(q) = 1 /\ DOMAIN q = 1 .. 1 /\ q[1] = s[1]
      <4>1. LET q == SubSeq(s, n + 1, Len(s))
            IN  /\ q \in Seq(TriggerActivity)
                /\ Len(q) = Len(s) - n /\ DOMAIN q = 1 .. (Len(s) - n)
                /\ \A i \in 1 .. (Len(s) - n) : q[i] = s[n + i]
                /\ Range(q) \subseteq Range(s)
        BY <3>3, EndOfList
      <4>2. Len(s) - n = 1 /\ 1 \in 1 .. 1 /\ n + 1 = 1  BY <1>2, <3>1, <3>2
      <4> QED  BY <2>2, <4>1, <4>2
    <3>5. v.time_start = q[1].time_start  BY <2>2, <3>2, <3>4
    <3>6. \A i, j \in 1 .. 1 : ~ (i < j)  OBVIOUS
    <3>7. 2 .. 1 = {}  OBVIOUS
    <3>8. SpanAgrees(v, length)  BY <3>4, <3>5, <3>6, <3>7 DEF SpanAgrees
    <3>9. fits(ta.time_start, v.time_start, length)  BY <1>7, <1>8, <2>2
    <3> QED  BY <1>1, <2>1, <2>2, <3>8, <3>9, AddKeepsSpan DEF Charged, MichelSpan
  <2>4. CASE SpanAgrees(w, length)
    <3>1. fits(ta.time_start, v.time_start, length)  BY <1>7, <1>8, <2>2
    <3> QED  BY <1>1, <2>1, <2>2, <2>4, <3>1, AddKeepsSpan DEF Charged, MichelSpan
  <2> QED  BY <2>3, <2>4
<1>9. CASE ~ (n < m)
  <2>1. PICK start \in Nat : start = w.time_start  OBVIOUS
  <2>2. start <= first
    <3>1. SpanAgrees(w, length) \/ start + length <= first  BY <1>2, <1>5, <2>1 DEF MichelSpan
    <3>2. SpanAgrees(w, length) => start = first  BY <1>2, <1>5, <2>1 DEF SpanAgrees
    <3> QED  BY <1>6, <3>1, <3>2
  <2>3. ~ fits(t, first, length)
    <3>1. 1 \in 1 .. n  BY <1>3, <1>9
    <3> QED  BY <1>5, <1>7, <3>1
  <2>4. start + length <= t
    <3>1. t - first >= length  BY <1>5, <1>6, <2>3 DEF fits, elapsed, UIntMinus
    <3> QED  BY <1>6, <2>2, <3>1
  <2>5. u.inputs = insert(<<>>, ta) /\ u.time_start = start
    BY <1>1, <1>2, <1>7, <1>9, <2>1 DEF move_me, add
  <2>6. PICK r : r = insert(<<>>, ta)  OBVIOUS
  <2>7. Len(r) = 1 /\ r[1] = ta
    <3>1. <<>> \in Seq(TriggerActivity) /\ Len(<<>>) = 0  OBVIOUS
    <3>2. PICK k \in 0 .. 0 : Inserted(<<>>, ta, k, r)  BY <2>6, <3>1, InsertPlaces
    <3>3. k = 0 /\ 0 + 1 = 1  OBVIOUS
    <3> QED  BY <3>1, <3>2, <3>3 DEF Inserted
  <2> QED  BY <1>1, <1>5, <2>4, <2>5, <2>6, <2>7 DEF MichelSpan
<1> QED  BY <1>8, <1>9

\* MichelElectron and PlaneCoincidence, whatever their move() and clear() do, as
\* long as the one keeps the span in an ordered stream and the other empties the
\* window.
LEMMA ClosingReasons ==
  ASSUME Inv, MemberInv, ReasonInv, maker \in Closing, NEW ta \in NextTAs(received),
         NEW cleared, cleared.inputs = <<>>, NEW moved,
         maker = "MichelElectron" /\ Ordered' /\ ~ is_empty(m_current_window) =>
           MichelSpan(moved, m_config["window_length"]),
         receive_and_close(ta, cleared, moved)
  PROVE  ReasonInv' /\ Justifies
<1>1. ta \in TriggerActivity /\ received \in Seq(TriggerActivity)
  BY NextTA DEF Inv, StreamInv
<1>2. PICK w, length : w = m_current_window /\ length = m_config["window_length"]
  OBVIOUS
<1>3. UNCHANGED <<maker, m_config>> /\ received' = Append(received, ta)
  BY DEF receive_and_close, take
<1>4. Ordered' => Ordered  BY <1>1, <1>3, StreamWasSo
<1>5. /\ w.inputs \in Seq(TriggerActivity)
      /\ w.inputs # <<>> => Charged(w) /\ Kept(w) /\ ~ pass_through
      /\ FromStream(w.inputs, received)
  BY <1>2 DEF Inv, WindowInv, MemberInv, is_empty
<1>6. Short(length) /\ length \in Nat  BY <1>2, LengthIsShort DEF Inv, Short
<1>7. maker = "MichelElectron" /\ Ordered' => MichelSpan(w, length)
  BY <1>2, <1>4 DEF ReasonInv
<1>8. maker # "MichelElectron" => maker = "PlaneCoincidence"  BY DEF Closing
<1>9. ASSUME maker = "MichelElectron" /\ Ordered' => MichelSpan(m_current_window', length)
      PROVE  ReasonInv'
  <2>1. CASE maker = "MichelElectron"
    <3>1. (maker = "MichelElectron" /\ Ordered =>
             MichelSpan(m_current_window, m_config["window_length"]))'
      BY <1>2, <1>3, <1>9 DEF MichelSpan, SpanAgrees
    <3> QED  BY <1>3, <2>1, <3>1, ReasonNames DEF ReasonInv
  <2>2. CASE maker = "PlaneCoincidence"  BY <1>3, <2>2, ReasonNames DEF ReasonInv
  <2> QED  BY <1>8, <2>1, <2>2
<1>10. ASSUME m_current_window' = reset(m_current_window, ta) PROVE ReasonInv'
  <2>1. SpanAgrees(reset(m_current_window, ta), length)  BY <1>1, ResetKeeps
  <2> QED  BY <1>9, <1>10, <2>1 DEF MichelSpan
<1>11. CASE start_window(ta) \/ drop_closed(ta)
  BY <1>10, <1>11 DEF start_window, drop_closed, Justifies
<1>12. CASE pass_ta(ta, cleared)
  <2>1. /\ m_current_window' = cleared /\ pass_through
        /\ output_tc' = Append(output_tc, construct_tc_to_last(reset(w, ta)))
    BY <1>2, <1>12 DEF pass_ta
  <2>2. PICK l : l = <<ta>>  OBVIOUS
  <2>3. construct_tc_to_last(reset(w, ta)).inputs = l
    BY <2>2 DEF construct_tc_to_last, tc_of, reset
  <2>4. Justified(l)'
    <3>1. Len(l) = 1 /\ pass_through'  BY <1>3, <2>1, <2>2 DEF pass_through
    <3> QED  BY <1>3, <3>1 DEF Justified, Closing, Judging
  <2>5. ReasonInv'  BY <1>9, <2>1 DEF MichelSpan
  <2> QED  BY <2>1, <2>3, <2>4, <2>5 DEF Justifies
<1>13. CASE fill_window(ta)
  <2>1. PICK u : /\ w.inputs # <<>> /\ u = add(w, ta) /\ m_current_window' = u
                 /\ fits(ta.time_start, w.time_start, length) /\ UNCHANGED output_tc
    BY <1>2, <1>13 DEF fill_window, is_empty, in_window
  <2>2. ASSUME maker = "MichelElectron", Ordered' PROVE MichelSpan(u, length)
    <3>1. CASE SpanAgrees(w, length)
      BY <1>1, <1>5, <1>6, <2>1, <3>1, AddKeepsSpan DEF MichelSpan
    <3>2. CASE ~ SpanAgrees(w, length)
      <4>1. PICK start \in Nat, t \in Nat : start = w.time_start /\ t = ta.time_start
        <5>1. w.time_start \in Times  BY <1>5, <2>1, KeptParts
        <5>2. w.time_start \in Timestamps  BY <5>1, TAAssumption
        <5>3. w.time_start \in Nat  BY <5>2, TimeModulusAssumption DEF Timestamps
        <5> QED  BY <1>1, <5>3, TAType
      <4>2. Len(w.inputs) = 1 /\ start + length <= w.inputs[1].time_start
        BY <1>7, <2>1, <2>2, <3>2, <4>1 DEF MichelSpan
      <4>3. w.inputs[1] \in Range(w.inputs) /\ w.inputs[1] \in TriggerActivity
        <5>1. PICK s \in Seq(TriggerActivity) : s = w.inputs /\ Len(s) = 1  BY <1>5, <4>2
        <5>2. 1 \in DOMAIN s  BY <5>1
        <5> QED  BY <5>1, <5>2 DEF Range
      <4>4. PICK first \in Nat : first = w.inputs[1].time_start  BY <4>3, TAType
      <4>5. first <= t
        <5>1. PICK i \in DOMAIN received : received[i] = w.inputs[1]
          BY <1>5, <4>3 DEF FromStream
        <5> QED  BY <1>1, <1>3, <2>2, <4>1, <4>4, <5>1, StreamWasSo
      <4>6. ~ fits(t, start, length)
        BY <1>6, <4>2, <4>4, <4>5 DEF fits, elapsed, UIntMinus
      <4> QED  BY <2>1, <4>1, <4>6
    <3> QED  BY <3>1, <3>2
  <2> QED  BY <1>9, <2>1, <2>2 DEF Justifies
<1>14. CASE emit_closed(ta)
  <2>1. /\ w.inputs # <<>> /\ m_current_window' = reset(m_current_window, ta)
        /\ over_adc(w) /\ output_tc' = Append(output_tc, construct_tc_to_last(w))
    BY <1>2, <1>14 DEF emit_closed, is_empty
  <2>2. PICK l : l = w.inputs  OBVIOUS
  <2>3. construct_tc_to_last(w).inputs = l  BY <2>2 DEF construct_tc_to_last, tc_of
  <2>4. Triggers(l)
    BY <1>5, <2>1, <2>2, OverIsTriggered DEF Inv, over_threshold
  <2>5. \/ span(l) < length \/ Len(l) = 1
        \/ maker = "MichelElectron" /\ ~ Ordered'
    <3>1. SpanAgrees(w, length) => span(l) < length \/ Len(l) = 1
      BY <1>5, <1>6, <2>1, <2>2, SpanIsShort
    <3>2. maker = "PlaneCoincidence" => SpanAgrees(w, length)
      BY <1>2 DEF Inv, WindowInv, WindowSpan
    <3>3. maker = "MichelElectron" /\ Ordered' => SpanAgrees(w, length) \/ Len(l) = 1
      BY <1>7, <2>1, <2>2 DEF MichelSpan
    <3> QED  BY <1>8, <3>1, <3>2, <3>3
  <2>6. Justified(l)'
    <3>1. ~ pass_through' /\ Triggers(l)'
      BY <1>3, <1>5, <2>1, <2>4 DEF pass_through, Triggers
    <3> QED  BY <1>2, <1>3, <2>5, <3>1 DEF Justified, Closing, Judging
  <2>7. ReasonInv'  BY <1>10, <2>1
  <2> QED  BY <2>1, <2>3, <2>6, <2>7 DEF Justifies
<1>15. CASE slide_window(ta, moved)
  <2>1. m_current_window' = moved /\ ~ is_empty(m_current_window) /\ UNCHANGED output_tc
    BY <1>15 DEF slide_window
  <2> QED  BY <1>2, <1>9, <2>1 DEF Justifies
<1> QED  BY <1>11, <1>12, <1>13, <1>14, <1>15 DEF receive_and_close

LEMMA PlaneCoincidenceReasons ==
  ASSUME Inv, MemberInv, ReasonInv, maker = "PlaneCoincidence", NEW ta \in NextTAs(received),
         receive_pc(ta)
  PROVE  ReasonInv' /\ Justifies
<1>1. PICK cleared : cleared = clear(reset(m_current_window, ta)) /\ cleared.inputs = <<>>
  <2>1. clear(reset(m_current_window, ta)).inputs = <<>>  BY DEF clear, EmptyWindow
  <2> QED  BY <2>1
<1>2. PICK moved : moved = move(m_current_window, ta, m_config["window_length"])  OBVIOUS
<1>3. receive_and_close(ta, cleared, moved)  BY <1>1, <1>2 DEF receive_pc
<1> QED  BY <1>1, <1>3, ClosingReasons DEF Closing

LEMMA MichelElectronReasons ==
  ASSUME Inv, MemberInv, ReasonInv, maker = "MichelElectron", NEW ta \in NextTAs(received),
         receive_me(ta)
  PROVE  ReasonInv' /\ Justifies
<1>1. PICK cleared : cleared = clear_me(reset(m_current_window, ta)) /\ cleared.inputs = <<>>
  <2>1. clear_me(reset(m_current_window, ta)).inputs = <<>>  BY DEF clear_me, reset
  <2> QED  BY <2>1
<1>2. PICK w, length : w = m_current_window /\ length = m_config["window_length"]  OBVIOUS
<1>3. PICK moved : moved = move_me(w, ta, length)  OBVIOUS
<1>4. receive_and_close(ta, cleared, moved)  BY <1>1, <1>2, <1>3 DEF receive_me
<1>5. /\ ta \in TriggerActivity /\ received \in Seq(TriggerActivity)
      /\ received' = Append(received, ta)
  BY NextTA DEF Inv, StreamInv, receive_me, receive_and_close, take
<1>6. ASSUME Ordered', w.inputs # <<>> PROVE MichelSpan(moved, length)
  <2>1. Charged(w) /\ Kept(w) /\ FromStream(w.inputs, received)
    BY <1>2, <1>6 DEF Inv, WindowInv, MemberInv, is_empty
  <2>2. Short(length)  BY <1>2, LengthIsShort DEF Inv, Closing
  <2>3. MichelSpan(w, length)
    BY <1>2, <1>5, <1>6, StreamWasSo DEF ReasonInv
  <2>4. w.time_start \in Nat
    <3>1. w.time_start \in Times  BY <2>1, KeptParts
    <3>2. w.time_start \in Timestamps  BY <3>1, TAAssumption
    <3> QED  BY <3>2, TimeModulusAssumption DEF Timestamps
  <2>5. \A e \in Range(w.inputs) : e.time_start <= ta.time_start
    BY <1>5, <1>6, <2>1, StreamWasSo DEF FromStream
  <2> QED  BY <1>3, <1>5, <1>6, <2>1, <2>2, <2>3, <2>4, <2>5, MoveMESpan
<1> QED  BY <1>1, <1>2, <1>4, <1>6, ClosingReasons DEF Closing, is_empty

LEMMA CallReasons ==
  ASSUME Inv, MemberInv, ReasonInv, maker \in Makers, NEW ta \in NextTAs(received), call(ta)
  PROVE  ReasonInv' /\ Justifies
<1>1. CASE maker = "HorizontalMuon" /\ receive_hm(ta)
  BY <1>1, JudgingReasons DEF receive_hm, Judging
<1>2. CASE maker = "ChannelAdjacency" /\ receive_ca(ta)
  BY <1>2, JudgingReasons DEF receive_ca, Judging
<1>3. CASE maker = "MichelElectron" /\ receive_me(ta)
  BY <1>3, MichelElectronReasons
<1>4. CASE maker = "PlaneCoincidence" /\ receive_pc(ta)
  BY <1>4, PlaneCoincidenceReasons
<1>5. CASE \/ maker = "ADCSimpleWindow" /\ receive_adcsw(ta)
           \/ maker = "Prescale" /\ receive_prescale(ta)
  BY <1>5, SingleReasons
<1>6. CASE maker = "BundleN" /\ receive_bundle(ta)
  BY <1>6, BundleNReasons
<1>7. CASE maker \in {"ChannelDistance", "DBSCAN"} /\ receive_by_tp_count(ta)
  BY <1>7, TPCountReasons
<1>8. CASE maker = "Supernova" /\ receive_supernova(ta)
  BY <1>8, SupernovaReasons
<1> QED  BY <1>1, <1>2, <1>3, <1>4, <1>5, <1>6, <1>7, <1>8 DEF call

\* What every TC so far was given out for.
AllJustified == TPsFit => TCsJustified

LEMMA CallJustifies ==
  ASSUME Inv, MemberInv, ReasonInv, AllJustified, maker \in Makers, ~ rejected,
         NEW ta \in NextTAs(received), call(ta)
  PROVE  ReasonInv' /\ AllJustified'
<1>1. ReasonInv' /\ Justifies  BY CallReasons
<1>2. received' = Append(received, ta) /\ UNCHANGED <<maker, m_config, rejected>>
  BY CallTakes
<1>3. ta \in TriggerActivity /\ received \in Seq(TriggerActivity)
  BY NextTA DEF Inv, StreamInv
<1>4. (Ordered' => Ordered) /\ (TPsFit' => TPsFit)  BY <1>2, <1>3, StreamWasSo
<1> SUFFICES ASSUME TPsFit' PROVE TCsJustified'
  BY <1>1 DEF AllJustified
<1>5. \A k \in DOMAIN output_tc : Justified(output_tc[k].inputs)
  BY <1>4 DEF AllJustified, TCsJustified
<1>6. ASSUME NEW tas, Justified(tas) PROVE Justified(tas)'
  BY <1>2, <1>4, <1>6, JustifiedStays
<1>7. CASE UNCHANGED output_tc
  <2>1. ASSUME NEW k \in DOMAIN output_tc' PROVE (Justified(output_tc[k].inputs))'
    <3>1. PICK l : l = output_tc[k].inputs  OBVIOUS
    <3>2. Justified(l)  BY <1>5, <1>7, <2>1, <3>1
    <3>3. Justified(l)'  BY <1>6, <3>2
    <3> QED  BY <1>7, <3>1, <3>3
  <2> QED  BY <2>1 DEF TCsJustified
<1>8. CASE ~ UNCHANGED output_tc
  <2>1. PICK tc : output_tc' = Append(output_tc, tc) /\ Justified(tc.inputs)'
    BY <1>1, <1>8 DEF Justifies
  <2>2. PICK S : output_tc \in Seq(S)  BY DEF Inv, StreamInv, Outputs
  <2>3. PICK m \in Nat : m = Len(output_tc) /\ DOMAIN output_tc = 1 .. m  BY <2>2
  <2>4. /\ DOMAIN output_tc' = 1 .. (m + 1) /\ output_tc'[m + 1] = tc
        /\ \A k \in 1 .. m : output_tc'[k] = output_tc[k]
    BY <2>1, <2>2, <2>3
  <2>5. ASSUME NEW k \in DOMAIN output_tc' PROVE (Justified(output_tc[k].inputs))'
    <3>1. CASE k = m + 1  BY <2>1, <2>4, <3>1
    <3>2. CASE k # m + 1
      <4>1. k \in 1 .. m  BY <2>4, <2>5, <3>2
      <4>2. PICK l : l = output_tc[k].inputs  OBVIOUS
      <4>3. Justified(l)'  BY <1>5, <1>6, <2>3, <4>1, <4>2
      <4>4. output_tc'[k].inputs = l  BY <2>4, <4>1, <4>2
      <4> QED  BY <4>3, <4>4
    <3> QED  BY <3>1, <3>2
  <2> QED  BY <2>5 DEF TCsJustified
<1> QED  BY <1>7, <1>8

LEMMA InitReasons == Init => ReasonInv /\ AllJustified
<1> SUFFICES ASSUME Init PROVE ReasonInv /\ AllJustified
  OBVIOUS
<1>1. /\ maker = NoMaker /\ received = <<>> /\ output_tc = <<>> /\ m_activity_count = 0
      /\ DOMAIN <<>> = {} /\ Len(<<>>) = 0
  BY DEF Init
<1>2. ReasonInv  BY <1>1 DEF ReasonInv, NoMaker
<1>3. TCsJustified  BY <1>1 DEF TCsJustified
<1> QED  BY <1>2, <1>3 DEF AllJustified

\* Building a maker, or configuring it, happens before the first TA.
LEMMA UntouchedReasons ==
  ASSUME Inv, ReasonInv, received = <<>>, UNCHANGED <<members, output_tc, received>>,
         maker' = maker \/ maker = NoMaker
  PROVE  ReasonInv' /\ AllJustified'
<1>1. UNCHANGED <<m_current_window, m_current_tc, m_activity, m_activity_count>>
  BY DEF members, bundleVars
<1>2. /\ m_current_tc' = <<>> /\ m_activity' = <<>> /\ output_tc' = <<>>
      /\ m_current_window'.inputs = <<>> /\ DOMAIN <<>> = {} /\ Range(<<>>) = {}
  BY <1>1, Untouched, RangeOfNone DEF Inv, StreamInv
<1>3. maker' \in {NoMaker, "Prescale"} => m_activity_count' = Len(received')
  BY <1>1 DEF ReasonInv
<1>4. FromStream(m_activity, received)'  BY <1>2, RangeOfNone DEF FromStream
<1>5. Range(m_activity)' = {}
  <2>1. Range(m_activity') = {}  BY <1>2, RangeOfNone
  <2> QED  BY <2>1 DEF Range
<1>9. (Len(m_activity) <= SupernovaThreshold)'
  <2>1. Len(<<>>) = 0 /\ SupernovaThreshold \in Nat  BY CandidateBundleAssumption
  <2> QED  BY <1>2, <2>1
<1>6. ReasonInv'  BY <1>2, <1>3, <1>4, <1>5, <1>9 DEF ReasonInv, MichelSpan
<1>7. TCsJustified'  BY <1>2 DEF TCsJustified
<1> QED  BY <1>6, <1>7 DEF AllJustified

LEMMA StepReasons ==
  Inv /\ MemberInv /\ ReasonInv /\ AllJustified /\ [Next]_vars => ReasonInv' /\ AllJustified'
<1> SUFFICES ASSUME Inv, MemberInv, ReasonInv, AllJustified, [Next]_vars
             PROVE  ReasonInv' /\ AllJustified'
  OBVIOUS
<1>1. ASSUME NEW name \in Makers, build_maker(name) PROVE ReasonInv' /\ AllJustified'
  <2>1. maker = NoMaker /\ UNCHANGED <<members, output_tc, received>>
    BY <1>1 DEF build_maker
  <2>2. received = <<>>  BY <2>1 DEF Inv, ConfigInv
  <2> QED  BY <2>1, <2>2, UntouchedReasons
<1>2. ASSUME NEW config, configured(config) PROVE ReasonInv' /\ AllJustified'
  <2>1. maker' = maker /\ received = <<>> /\ UNCHANGED <<members, output_tc, received>>
    <3>1. CASE configure_hm(config)  BY <3>1 DEF configure_hm, configure
    <3>2. CASE configure_ca(config)  BY <3>2 DEF configure_ca, configure
    <3>3. CASE configure_me(config)  BY <3>3 DEF configure_me, configure
    <3>4. CASE configure_pc(config)  BY <3>4 DEF configure_pc, configure
    <3>5. CASE configure_prescale(config)  BY <3>5 DEF configure_prescale, configure
    <3>6. CASE configure(config, TRUE)  BY <3>6 DEF configure
    <3> QED  BY <1>2, <3>1, <3>2, <3>3, <3>4, <3>5, <3>6 DEF configured
  <2> QED  BY <2>1, UntouchedReasons
<1>3. ASSUME maker \in Makers, ~ rejected, NEW ta \in NextTAs(received), call(ta)
      PROVE  ReasonInv' /\ AllJustified'
  BY <1>3, CallJustifies
<1>4. CASE UNCHANGED vars
  <2>1. /\ UNCHANGED <<maker, m_config, m_current_window, m_current_tc, m_activity>>
        /\ UNCHANGED <<m_current_tp_count, m_activity_count, output_tc, received>>
    BY <1>4 DEF vars, members, bundleVars
  <2>2. (Ordered' <=> Ordered) /\ (TPsFit' <=> TPsFit)
    BY <2>1 DEF Ordered, TPsFit, n_tps
  <2>3. CountTPs(m_current_tc)' = CountTPs(m_current_tc)  BY <2>1 DEF CountTPs, TPsOf
  <2>4. FromStream(m_activity, received)' <=> FromStream(m_activity, received)
    BY <2>1 DEF FromStream, Range
  <2>5. Range(m_activity)' = Range(m_activity)  BY <2>1 DEF Range
  <2>6. MichelSpan(m_current_window, m_config["window_length"])'
          <=> MichelSpan(m_current_window, m_config["window_length"])
    BY <2>1 DEF MichelSpan, SpanAgrees
  <2>7. ReasonInv'
    BY <2>1, <2>2, <2>3, <2>4, <2>5, <2>6 DEF ReasonInv, n_tps
  <2>8. ASSUME TCsJustified PROVE TCsJustified'
    <3>1. ASSUME NEW k \in DOMAIN output_tc' PROVE (Justified(output_tc[k].inputs))'
      <4>1. PICK l : l = output_tc[k].inputs  OBVIOUS
      <4>2. Justified(l)  BY <2>1, <2>8, <3>1, <4>1 DEF TCsJustified
      <4>3. Justified(l)'  BY <2>1, <2>2, <4>2, JustifiedStays
      <4> QED  BY <2>1, <4>1, <4>3
    <3> QED  BY <3>1 DEF TCsJustified
  <2> QED  BY <2>2, <2>7, <2>8 DEF AllJustified
<1> QED  BY <1>1, <1>2, <1>3, <1>4 DEF Next

-----------------------------------------------------------------------------
(* What the readout of a TC covers *)

\* In the readout of a TC each of its TAs begins, and the last one ends.
Covers(tc) ==
  \A i \in DOMAIN tc.inputs :
    /\ fits(tc.inputs[i].time_start, tc.time_start, elapsed(tc.time_end, tc.time_start))
    /\ tc.inputs[i].time_end <= tc.inputs[Len(tc.inputs)].time_end
         => tc.inputs[i].time_end <= tc.time_end

MarginsFit(before, after) ==
  \A t \in Times, d \in Durations : t + d + before + after < TimeModulus

\* A TA takes some time, and no readout is as long as the clock goes round or
\* ends after it has.
ReadoutFits ==
  /\ \A d \in Durations : 0 < d
  /\ maker = "Supernova" => \A d \in Durations : SupernovaWindow + d < TimeModulus
  /\ maker \in {"PlaneCoincidence", "Prescale"} =>
       MarginsFit(m_config["readout_window_ticks_before"],
                  m_config["readout_window_ticks_after"])

\* The makers whose TCs cover their TAs, some only in an ordered stream.
Covering ==
  \/ maker = "PlaneCoincidence"
  \/ Ordered /\ maker \in Bundling \cup {"ADCSimpleWindow", "Prescale", "Supernova"}

\* A list of TAs in order of time.
InTime(list) ==
  \A i, j \in DOMAIN list : i < j => list[i].time_start <= list[j].time_start

\* The TAs collected for a TC are TAs of the stream, in its order.
ReadoutInv ==
  maker \in Bundling =>
    FromStream(m_current_tc, received) /\ (Ordered => InTime(m_current_tc))

\* A TC that goes out covers its TAs.
CoversNext ==
  \/ UNCHANGED output_tc
  \/ \E tc : output_tc' = Append(output_tc, tc) /\ (ReadoutFits' /\ Covering' => Covers(tc))

\* A readout may begin before time 0, that is at the end of the clock.
LEMMA ReadoutFitsOne ==
  ASSUME NEW t \in Nat, NEW d \in Nat, 0 < d, NEW m \in Nat, NEW first \in Int,
         NEW last \in Nat, - m < first, last < m, last - first < m,
         first <= t, t + d <= last
  PROVE  LET start == IF first >= 0 THEN first ELSE first + m
         IN  UIntMinus(t, start, m) < UIntMinus(last, start, m)
<1>1. CASE first >= 0  BY <1>1 DEF UIntMinus
<1>2. CASE first < 0
  <2>1. PICK s \in Nat : s = first + m  BY <1>2
  <2>2. last < s /\ t < s /\ t < last  BY <2>1
  <2> QED  BY <1>2, <2>1, <2>2 DEF UIntMinus
<1> QED  BY <1>1, <1>2

\* Of a TA its time_start is a natural number, and so is how long it takes.
LEMMA TAEnds ==
  ASSUME NEW ta \in TriggerActivity
  PROVE  \E d \in Nat : d \in Durations /\ ta.time_end = ta.time_start + d
<1>1. PICK d \in Durations : ta.time_end = ta.time_start + d  BY DEF TriggerActivity
<1>2. d \in Nat  BY TAAssumption DEF Durations
<1> QED  BY <1>1, <1>2

\* It is enough that the last TA ends in time and that any other begins as long
\* before the end of the readout as some time d.
LEMMA ReadoutCovers ==
  ASSUME NEW list \in Seq(TriggerActivity), NEW first \in Int, NEW last \in Nat,
         last < TimeModulus, - TimeModulus < first, last - first < TimeModulus,
         NEW d \in Nat, 0 < d, list # <<>>, list[Len(list)].time_end <= last,
         \A ta \in Range(list) : first <= ta.time_start /\ ta.time_start + d <= last,
         NEW tc, tc.inputs = list, tc.time_end = last,
         tc.time_start = IF first >= 0 THEN first ELSE first + TimeModulus
  PROVE  Covers(tc)
<1>1. TimeModulus \in Nat  BY TimeModulusAssumption
<1>2. list[Len(list)].time_end \in Nat
  <2>1. Len(list) \in DOMAIN list  BY EmptySeq
  <2>2. list[Len(list)] \in TriggerActivity  BY <2>1
  <2> QED  BY <1>1, <2>2, TimeIsATimestamp DEF Timestamps
<1>3. ASSUME NEW i \in DOMAIN list
      PROVE  /\ fits(list[i].time_start, tc.time_start, elapsed(tc.time_end, tc.time_start))
             /\ list[i].time_end <= list[Len(list)].time_end => list[i].time_end <= tc.time_end
  <2>1. list[i] \in TriggerActivity /\ list[i] \in Range(list)  BY DEF Range
  <2>2. PICK t \in Nat : t = list[i].time_start  BY <2>1, TAType
  <2>3. first <= t /\ t + d <= last  BY <2>1, <2>2
  <2>4. LET start == IF first >= 0 THEN first ELSE first + TimeModulus
        IN  UIntMinus(t, start, TimeModulus) < UIntMinus(last, start, TimeModulus)
    BY <1>1, <2>3, ReadoutFitsOne
  <2>5. list[i].time_end \in Nat  BY <1>1, <2>1, TimeIsATimestamp DEF Timestamps
  <2>6. list[i].time_end <= list[Len(list)].time_end => list[i].time_end <= last
    BY <1>2, <2>5
  <2> QED  BY <2>2, <2>4, <2>6 DEF fits, elapsed
<1> QED  BY <1>3 DEF Covers

\* A list in time order begins with its first element and ends with its last.
LEMMA InTimeEnds ==
  ASSUME NEW list \in Seq(TriggerActivity), list # <<>>, InTime(list)
  PROVE  /\ list[1] \in TriggerActivity /\ list[Len(list)] \in TriggerActivity
         /\ list[1] \in Range(list) /\ list[Len(list)] \in Range(list)
         /\ \A ta \in Range(list) : /\ list[1].time_start <= ta.time_start
                                    /\ ta.time_start <= list[Len(list)].time_start
<1>1. PICK n \in Nat : n = Len(list) /\ DOMAIN list = 1 .. n /\ n # 0  BY EmptySeq
<1>2. n # 0  BY <1>1
<1>3. 1 \in 1 .. n /\ n \in 1 .. n  BY <1>2
<1>4. \A i \in 1 .. n : list[i].time_start \in Nat  BY <1>1, TAType
<1>5. \A i \in 1 .. n : 1 < i \/ i = 1  OBVIOUS
<1>6. \A i \in 1 .. n : i < n \/ i = n  OBVIOUS
<1>7. \A i \in 1 .. n : /\ list[1].time_start <= list[i].time_start
                        /\ list[i].time_start <= list[n].time_start
  BY <1>1, <1>3, <1>4, <1>5, <1>6 DEF InTime
<1> QED  BY <1>1, <1>3, <1>7 DEF Range

Brackets(s, t, m, d, b, a, first, last) ==
  /\ last = t + d + a /\ last % m = last /\ last < m
  /\ first = s - b /\ - m < first /\ last - first < m
  /\ UIntMinus(s, b, m) = IF first >= 0 THEN first ELSE first + m
  /\ \A u \in Nat : s <= u /\ u <= t => first <= u /\ u + d <= last

LEMMA MarginsArithmetic ==
  ASSUME NEW s \in Nat, NEW t \in Nat, s <= t, NEW m \in Nat, NEW d \in Nat,
         NEW b \in Nat, NEW a \in Nat, t + d + b + a < m
  PROVE  \E first \in Int, last \in Nat : Brackets(s, t, m, d, b, a, first, last)
<1>1. PICK last \in Nat, first \in Int : last = t + d + a /\ first = s - b  OBVIOUS
<1>2. last < m /\ - m < first /\ last - first < m  BY <1>1
<1>3. last % m = last
  <2>1. last \in 0 .. m - 1  BY <1>2
  <2> QED  BY <2>1
<1>4. UIntMinus(s, b, m) = IF first >= 0 THEN first ELSE first + m
  BY <1>1 DEF UIntMinus
<1>5. \A u \in Nat : s <= u /\ u <= t => first <= u /\ u + d <= last  BY <1>1
<1> QED  BY <1>1, <1>2, <1>3, <1>4, <1>5 DEF Brackets

\* What readout margins a maker of windows or Prescale puts round a stretch.
LEMMA MarginsCover ==
  ASSUME NEW list \in Seq(TriggerActivity), list # <<>>, InTime(list),
         NEW before \in Timestamps, NEW after \in Timestamps, \A d \in Durations : 0 < d,
         MarginsFit(before, after), NEW tc, tc.inputs = list,
         tc.time_start = UIntMinus(list[1].time_start, before, TimeModulus),
         tc.time_end = UIntPlus(list[Len(list)].time_end, after, TimeModulus)
  PROVE  Covers(tc)
<1>1. PICK x \in TriggerActivity, y \in TriggerActivity :
        /\ x = list[1] /\ y = list[Len(list)]
        /\ \A ta \in Range(list) : x.time_start <= ta.time_start /\ ta.time_start <= y.time_start
        /\ x \in Range(list)
  BY InTimeEnds
<1>2. PICK s \in Nat, t \in Nat :
        s = x.time_start /\ t = y.time_start /\ s <= t /\ t \in Times
  BY <1>1, TAType
<1>10. PICK d \in Nat : d \in Durations /\ y.time_end = y.time_start + d
  BY TAEnds
<1>3. PICK m \in Nat, b \in Nat, a \in Nat :
        m = TimeModulus /\ b = before /\ a = after /\ b < m /\ m # 0
  BY <1>10, TimeModulusAssumption DEF Timestamps
<1>4. t + d + b + a < m /\ 0 < d  BY <1>2, <1>3, <1>10 DEF MarginsFit
<1>5. PICK first \in Int, last \in Nat : Brackets(s, t, m, d, b, a, first, last)
  BY <1>2, <1>3, <1>4, MarginsArithmetic
<1>6. /\ last = t + d + a /\ last % m = last /\ last < m
      /\ first = s - b /\ - m < first /\ last - first < m
      /\ UIntMinus(s, b, m) = IF first >= 0 THEN first ELSE first + m
      /\ \A u \in Nat : s <= u /\ u <= t => first <= u /\ u + d <= last
  BY <1>5 DEF Brackets
<1>7. tc.time_end = last
  <2>1. tc.time_end = (t + d + a) % m  BY <1>1, <1>2, <1>3, <1>10 DEF UIntPlus
  <2> QED  BY <1>6, <2>1
<1>8. tc.time_start = IF first >= 0 THEN first ELSE first + m
  BY <1>1, <1>2, <1>3, <1>6
<1>9. ASSUME NEW ta \in Range(list)
      PROVE  first <= ta.time_start /\ ta.time_start + d <= last
  <2>1. ta \in TriggerActivity  BY DEF Range
  <2>2. PICK u \in Nat : u = ta.time_start /\ s <= u /\ u <= t  BY <1>1, <1>2, <2>1, TAType
  <2>3. first <= u /\ u + d <= last  BY <1>6, <2>2
  <2> QED  BY <2>2, <2>3
<1>11. list[Len(list)].time_end <= last
  <2>1. list[Len(list)].time_end = t + d  BY <1>1, <1>2, <1>10
  <2>2. t + d <= last  BY <1>6
  <2> QED  BY <2>1, <2>2
<1> QED  BY <1>3, <1>4, <1>6, <1>7, <1>8, <1>9, <1>11, ReadoutCovers

\* A bundle needs no margins.
LEMMA BundleCovers ==
  ASSUME NEW list \in Seq(TriggerActivity), list # <<>>, InTime(list),
         \A d \in Durations : 0 < d, NEW tc, tc.inputs = list,
         tc.time_start = list[1].time_start, tc.time_end = list[Len(list)].time_end
  PROVE  Covers(tc)
<1>1. PICK x \in TriggerActivity, y \in TriggerActivity :
        /\ x = list[1] /\ y = list[Len(list)]
        /\ \A ta \in Range(list) : x.time_start <= ta.time_start /\ ta.time_start <= y.time_start
  BY InTimeEnds
<1>8. PICK d \in Nat : d \in Durations /\ y.time_end = y.time_start + d
  BY TAEnds
<1>2. PICK s \in Nat, t \in Nat, m \in Nat :
        /\ s = x.time_start /\ t = y.time_start /\ m = TimeModulus /\ m # 0
        /\ 0 < d
  BY <1>1, <1>8, TAType, TimeModulusAssumption
<1>3. PICK last \in Nat : last = t + d  OBVIOUS
<1>4. last < m
  <2>1. y.time_end \in Timestamps  BY TimeIsATimestamp
  <2> QED  BY <1>2, <1>3, <1>8, <2>1 DEF Timestamps
<1>5. /\ tc.time_end = last /\ tc.time_start = s
      /\ list[Len(list)].time_end <= last
  BY <1>1, <1>2, <1>3, <1>8
<1>6. ASSUME NEW ta \in Range(list) PROVE s <= ta.time_start /\ ta.time_start + d <= last
  <2>1. ta \in TriggerActivity  BY DEF Range
  <2>2. PICK u \in Nat : u = ta.time_start /\ s <= u /\ u <= t  BY <1>1, <1>2, <2>1, TAType
  <2> QED  BY <1>2, <1>3, <2>2
<1>7. s \in Int /\ s >= 0 /\ - m < s /\ last - s < m
  BY <1>2, <1>4
<1> QED  BY <1>2, <1>4, <1>5, <1>6, <1>7, ReadoutCovers

LEMMA OneIsInTime ==
  ASSUME NEW ta \in TriggerActivity
  PROVE  /\ <<ta>> \in Seq(TriggerActivity) /\ <<ta>> # <<>> /\ InTime(<<ta>>)
         /\ <<ta>>[1] = ta /\ <<ta>>[Len(<<ta>>)] = ta
<1>1. <<ta>> \in Seq(TriggerActivity) /\ Len(<<ta>>) = 1 /\ <<ta>>[1] = ta  OBVIOUS
<1>2. \A i, j \in DOMAIN <<ta>> : ~ (i < j)  OBVIOUS
<1> QED  BY <1>1, <1>2 DEF InTime

\* HorizontalMuon, ChannelAdjacency and MichelElectron promise no readout.
LEMMA OthersCover ==
  ASSUME maker \in Judging \cup {"MichelElectron"}, UNCHANGED maker, Justifies
  PROVE  ReadoutInv' /\ CoversNext
<1>1. /\ maker \notin Bundling /\ maker # "PlaneCoincidence"
      /\ maker \notin Bundling \cup {"ADCSimpleWindow", "Prescale", "Supernova"}
  BY DEF Judging, Bundling
<1>2. ReadoutInv'  BY <1>1 DEF ReadoutInv
<1>3. ~ Covering'  BY <1>1 DEF Covering
<1> QED  BY <1>2, <1>3 DEF Justifies, CoversNext

LEMMA SingleCovers ==
  ASSUME Inv, NEW ta \in TriggerActivity,
         \/ maker = "ADCSimpleWindow" /\ receive_adcsw(ta)
         \/ maker = "Prescale" /\ receive_prescale(ta)
  PROVE  ReadoutInv' /\ CoversNext
<1>1. UNCHANGED <<maker, m_config>>  BY DEF receive_adcsw, receive_prescale, take
<1>2. ReadoutInv'  BY <1>1 DEF ReadoutInv, Bundling
<1>3. PICK l : /\ l = <<ta>> /\ l \in Seq(TriggerActivity) /\ l # <<>> /\ InTime(l)
               /\ l[1] = ta /\ l[Len(l)] = ta
  BY OneIsInTime
<1>4. CASE maker = "ADCSimpleWindow" /\ receive_adcsw(ta)
  <2>1. PICK tc : /\ output_tc' = Append(output_tc, tc) /\ tc.inputs = l
                  /\ tc.time_start = ta.time_start /\ tc.time_end = ta.time_end
    BY <1>3, <1>4 DEF receive_adcsw, tc_of
  <2>2. ReadoutFits' => Covers(tc)
    <3>1. ReadoutFits' => \A d \in Durations : 0 < d  BY DEF ReadoutFits
    <3> QED  BY <1>3, <2>1, <3>1, BundleCovers
  <2> QED  BY <1>2, <2>1, <2>2 DEF CoversNext
<1>5. CASE maker = "Prescale" /\ receive_prescale(ta)
  <2>1. PICK tc : tc = prescaled_tc(ta)  OBVIOUS
  <2>2. UNCHANGED output_tc \/ output_tc' = Append(output_tc, tc)
    BY <1>5, <2>1 DEF receive_prescale
  <2>3. PICK before \in Timestamps, after \in Timestamps :
          /\ before = m_config["readout_window_ticks_before"]
          /\ after = m_config["readout_window_ticks_after"]
    BY <1>5, MarginsType DEF Inv
  <2>4. /\ tc.inputs = l
        /\ tc.time_start = UIntMinus(l[1].time_start, before, TimeModulus)
        /\ tc.time_end = UIntPlus(l[Len(l)].time_end, after, TimeModulus)
    BY <1>3, <2>1, <2>3 DEF prescaled_tc, tc_of
  <2>5. ReadoutFits' => Covers(tc)
    <3>1. ReadoutFits' => (\A d \in Durations : 0 < d) /\ MarginsFit(before, after)
      BY <1>1, <1>5, <2>3 DEF ReadoutFits, MarginsFit
    <3> QED  BY <1>3, <2>4, <3>1, MarginsCover
  <2> QED  BY <1>2, <2>2, <2>5 DEF CoversNext
<1> QED  BY <1>4, <1>5

\* BundleN, ChannelDistance and DBSCAN
LEMMA BundlingCovers ==
  ASSUME Inv, ReadoutInv, maker \in Bundling, NEW ta \in NextTAs(received),
         receive_bundle(ta) \/ receive_by_tp_count(ta)
  PROVE  ReadoutInv' /\ CoversNext
<1>1. /\ ta \in TriggerActivity /\ ta.id = Len(received) + 1
      /\ received \in Seq(TriggerActivity)
  BY NextTA DEF Inv, StreamInv
<1>2. UNCHANGED <<maker, m_config>> /\ received' = Append(received, ta)
  BY DEF receive_bundle, receive_by_tp_count, take
<1>3. PICK held \in Seq(TriggerActivity) : held = m_current_tc  BY DEF Inv, BundleInv
<1>4. FromStream(held, received) /\ (Ordered => InTime(held))  BY <1>3 DEF ReadoutInv
<1>5. FromStream(held, received')  BY <1>1, <1>2, <1>4, FromLongerStream
<1>6. ta.id \in DOMAIN received' /\ received'[ta.id] = ta  BY <1>1, <1>2
<1>7. Ordered' => Ordered /\ \A e \in Range(held) : e.time_start <= ta.time_start
  BY <1>1, <1>2, <1>4, StreamWasSo DEF FromStream
<1>8. PICK more \in Seq(TriggerActivity) : more = Append(held, ta) /\ more # <<>>
  BY <1>1, <1>3, AppendProperties
<1>9. FromStream(more, received') /\ (Ordered' => InTime(more))
  <2>1. Range(more) = Range(held) \cup {ta}  BY <1>1, <1>8, RangeOfAppend
  <2>2. FromStream(more, received')  BY <1>5, <1>6, <2>1 DEF FromStream
  <2>3. PICK n \in Nat : n = Len(held) /\ DOMAIN held = 1 .. n  OBVIOUS
  <2>4. /\ DOMAIN more = 1 .. (n + 1) /\ more[n + 1] = ta
        /\ \A k \in 1 .. n : more[k] = held[k]
    BY <1>1, <1>8, <2>3
  <2>5. ASSUME Ordered', NEW i \in 1 .. (n + 1), NEW j \in 1 .. (n + 1), i < j
        PROVE  more[i].time_start <= more[j].time_start
    <3>1. i \in 1 .. n  BY <2>5
    <3>2. CASE j \in 1 .. n
      BY <1>4, <1>7, <2>3, <2>4, <2>5, <3>1, <3>2 DEF InTime
    <3>3. CASE j = n + 1
      <4>1. held[i] \in Range(held)  BY <2>3, <3>1 DEF Range
      <4> QED  BY <1>7, <2>4, <2>5, <3>1, <3>3, <4>1
    <3> QED  BY <3>2, <3>3
  <2>6. Ordered' => InTime(more)  BY <2>4, <2>5 DEF InTime
  <2> QED  BY <2>2, <2>6
<1>10. PICK one : /\ one = <<ta>> /\ one \in Seq(TriggerActivity) /\ InTime(one)
                  /\ Range(one) = {ta}
  BY <1>1, OneIsInTime, RangeOfOne
<1>11. FromStream(one, received')  BY <1>6, <1>10 DEF FromStream
<1>12. ASSUME m_current_tc' = <<>> \/ m_current_tc' = more \/ m_current_tc' = one
       PROVE  ReadoutInv'
  <2>1. PICK l : /\ m_current_tc' = l /\ FromStream(l, received')
                 /\ Ordered' => InTime(l)
    <3>1. FromStream(<<>>, received') /\ InTime(<<>>)
      BY RangeOfNone DEF FromStream, InTime
    <3> QED  BY <1>9, <1>10, <1>11, <1>12, <3>1
  <2>2. FromStream(m_current_tc, received)' /\ (Ordered' => InTime(m_current_tc)')
    BY <2>1 DEF FromStream, InTime, Range
  <2> QED  BY <2>2 DEF ReadoutInv
<1>13. ASSUME NEW list \in Seq(TriggerActivity), list # <<>>, Ordered' => InTime(list),
              NEW candidate, output_tc' = Append(output_tc, bundled_tc(list, candidate))
       PROVE  CoversNext
  <2>1. PICK tc : tc = bundled_tc(list, candidate)  OBVIOUS
  <2>2. /\ tc.inputs = list /\ tc.time_start = list[1].time_start
        /\ tc.time_end = list[Len(list)].time_end
    BY <2>1 DEF bundled_tc, tc_of
  <2>3. ReadoutFits' => \A d \in Durations : 0 < d  BY DEF ReadoutFits
  <2>4. Covering' => Ordered'  BY <1>2 DEF Covering, Bundling
  <2>5. ReadoutFits' /\ Covering' => Covers(tc)
    BY <1>13, <2>2, <2>3, <2>4, BundleCovers
  <2> QED  BY <1>13, <2>1, <2>5 DEF CoversNext
<1>14. CASE grow_bundle(ta) \/ grow_by_tp_count(ta) \/ start_by_tp_count(ta)
  <2>1. UNCHANGED output_tc /\ (m_current_tc' = more \/ m_current_tc' = one)
    BY <1>3, <1>8, <1>10, <1>14
       DEF grow_bundle, grow_by_tp_count, start_by_tp_count, set_new_tc
  <2> QED  BY <1>12, <2>1 DEF CoversNext
<1>15. CASE emit_bundle(ta)
  <2>1. /\ m_current_tc' = <<>>
        /\ output_tc' = Append(output_tc, bundled_tc(more, more[1]))
    BY <1>3, <1>8, <1>15 DEF emit_bundle
  <2> QED  BY <1>8, <1>9, <1>12, <1>13, <2>1
<1>16. CASE emit_by_tp_count(ta)
  <2>1. /\ m_current_tc' = one /\ held # <<>>
        /\ output_tc' = Append(output_tc, bundled_tc(held, held[Len(held)]))
    BY <1>3, <1>10, <1>16 DEF emit_by_tp_count, set_new_tc
  <2> QED  BY <1>4, <1>7, <1>12, <1>13, <2>1
<1> QED  BY <1>14, <1>15, <1>16 DEF receive_bundle, receive_by_tp_count

\* Supernova: the readout goes back as far as a TA that still counts.
LEMMA SupernovaCovers ==
  ASSUME Inv, ReasonInv, maker = "Supernova", NEW ta \in NextTAs(received), receive_supernova(ta)
  PROVE  ReadoutInv' /\ CoversNext
<1>1. ta \in TriggerActivity /\ received \in Seq(TriggerActivity)
  BY NextTA DEF Inv, StreamInv
<1>2. UNCHANGED <<maker, m_config>> /\ received' = Append(received, ta)
  BY DEF receive_supernova, take
<1>3. ReadoutInv'  BY <1>2 DEF ReadoutInv, Bundling
<1>4. CASE wait_for_more(ta)
  BY <1>3, <1>4 DEF wait_for_more, CoversNext
<1>5. CASE emit_supernova(ta)
  <2>1. PICK l \in Seq(TriggerActivity) :
          /\ l = counted(ta)
          /\ \A e \in Range(l) : \/ e \in Range(m_activity) /\ Recent(e, ta.time_start)
                                 \/ e = ta
    BY <1>1, CountedAre DEF Inv
  <2>2. PICK d \in Nat : d \in Durations /\ ta.time_end = ta.time_start + d
    BY <1>1, TAEnds
  <2>3. PICK t \in Nat, s \in Nat, m \in Nat :
          /\ t = ta.time_start /\ s = SupernovaWindow /\ m = TimeModulus
          /\ s < m /\ m # 0
    BY <1>1, <2>2, TAType, CandidateBundleAssumption, TimeModulusAssumption DEF Timestamps
  <2>4. PICK last \in Nat, first \in Int : last = t + d /\ first = t - s  OBVIOUS
  <2>5. PICK tc : /\ output_tc' = Append(output_tc, tc) /\ tc.inputs = l
                  /\ tc.time_start = UIntMinus(t, s, m) /\ tc.time_end = last
    <3>1. PICK tc : tc = tc_of(UIntMinus(ta.time_start, SupernovaWindow, TimeModulus),
                               ta.time_end, ta.time_start, l)
      OBVIOUS
    <3>2. output_tc' = Append(output_tc, tc)  BY <1>5, <2>1, <3>1 DEF emit_supernova
    <3>3. /\ tc.inputs = l /\ tc.time_end = ta.time_end
          /\ tc.time_start = UIntMinus(ta.time_start, SupernovaWindow, TimeModulus)
      BY <3>1 DEF tc_of
    <3> QED  BY <2>2, <2>3, <2>4, <3>2, <3>3
  <2>6. last < m
    <3>1. ta.time_end \in Timestamps  BY <1>1, TimeIsATimestamp
    <3> QED  BY <2>2, <2>3, <2>4, <3>1 DEF Timestamps
  <2>7. tc.time_start = IF first >= 0 THEN first ELSE first + m
    BY <2>3, <2>4, <2>5 DEF UIntMinus
  <2>8. s < m /\ first = t - s /\ - m < first  BY <2>3, <2>4
  <2>9. l # <<>> /\ l[Len(l)].time_end <= last
    <3>1. Len(m_activity) <= SupernovaThreshold /\ SupernovaThreshold \in Nat
      BY CandidateBundleAssumption DEF ReasonInv
    <3>2. Len(l) > SupernovaThreshold  BY <1>5, <2>1 DEF emit_supernova
    <3>3. Len(l) > Len(m_activity)
      <4>1. Len(m_activity) \in Nat /\ Len(l) \in Nat  BY DEF Inv, BundleInv
      <4> QED  BY <3>1, <3>2, <4>1
    <3>4. l # <<>> /\ l[Len(l)] = ta  BY <1>1, <2>1, <3>3, CountedLast DEF Inv
    <3> QED  BY <2>2, <2>3, <2>4, <3>4
  <2>10. ASSUME ReadoutFits', Covering' PROVE Covers(tc)
    <3>1. 0 < d /\ s + d < m  BY <1>2, <2>2, <2>3, <2>10 DEF ReadoutFits
    <3>2. last - first < m  BY <2>4, <3>1
    <3>3. Ordered'  BY <1>2, <2>10 DEF Covering
    <3>4. ASSUME NEW e \in Range(l)
          PROVE  first <= e.time_start /\ e.time_start + d <= last
      <4>1. CASE e \in Range(m_activity) /\ Recent(e, ta.time_start)
        <5>1. e.id \in DOMAIN received /\ received[e.id] = e
          BY <4>1 DEF ReasonInv, FromStream
        <5>2. e \in TriggerActivity  BY <1>1, <5>1
        <5>3. PICK u \in Nat : u = e.time_start  BY <5>2, TAType
        <5>4. u <= t  BY <1>1, <1>2, <2>3, <3>3, <5>1, <5>3, StreamWasSo
        <5>5. first <= u
          <6>1. ~ (u < t - s)  BY <2>3, <4>1, <5>3 DEF Recent
          <6> QED  BY <2>8, <6>1
        <5>6. u + d <= last  BY <2>4, <5>4
        <5> QED  BY <5>3, <5>5, <5>6
      <4>2. CASE e = ta
        <5>1. first <= t /\ t + d <= last  BY <2>4
        <5> QED  BY <2>3, <4>2, <5>1
      <4> QED  BY <2>1, <4>1, <4>2
    <3> QED  BY <2>3, <2>5, <2>6, <2>7, <2>8, <2>9, <3>1, <3>2, <3>4, ReadoutCovers
  <2> QED  BY <1>3, <2>5, <2>10 DEF CoversNext
<1> QED  BY <1>4, <1>5 DEF receive_supernova

\* PlaneCoincidence: its window is in time order, however the TAs came.
LEMMA PlaneCoincidenceCovers ==
  ASSUME Inv, maker = "PlaneCoincidence", NEW ta \in NextTAs(received), receive_pc(ta)
  PROVE  ReadoutInv' /\ CoversNext
<1>1. ta \in TriggerActivity  BY NextTA DEF Inv, StreamInv
<1>2. PICK cleared, moved : receive_and_close(ta, cleared, moved)
  BY DEF receive_pc
<1>3. UNCHANGED <<maker, m_config>>  BY <1>2 DEF receive_and_close, take
<1>4. ReadoutInv'  BY <1>3 DEF ReadoutInv, Bundling
<1>5. PICK before \in Timestamps, after \in Timestamps :
        /\ before = m_config["readout_window_ticks_before"]
        /\ after = m_config["readout_window_ticks_after"]
  BY MarginsType DEF Inv, Closing
<1>6. ReadoutFits' => (\A d \in Durations : 0 < d) /\ MarginsFit(before, after)
  BY <1>3, <1>5 DEF ReadoutFits, MarginsFit
<1>7. ASSUME NEW w, w.inputs \in Seq(TriggerActivity), w.inputs # <<>>, InTime(w.inputs),
             w.time_start = w.inputs[1].time_start,
             output_tc' = Append(output_tc, construct_tc_to_last(w))
      PROVE  CoversNext
  <2>1. PICK tc, l : tc = construct_tc_to_last(w) /\ l = w.inputs  OBVIOUS
  <2>2. /\ tc.inputs = l
        /\ tc.time_start = UIntMinus(l[1].time_start, before, TimeModulus)
        /\ tc.time_end = UIntPlus(l[Len(l)].time_end, after, TimeModulus)
    BY <1>5, <1>7, <2>1 DEF construct_tc_to_last, tc_of
  <2>3. ReadoutFits' => Covers(tc)
    BY <1>6, <1>7, <2>1, <2>2, MarginsCover
  <2> QED  BY <1>7, <2>1, <2>3 DEF CoversNext
<1>8. CASE pass_ta(ta, cleared)
  <2>1. PICK w : w = reset(m_current_window, ta)
                 /\ output_tc' = Append(output_tc, construct_tc_to_last(w))
    BY <1>8 DEF pass_ta
  <2>2. PICK l : /\ l = <<ta>> /\ l \in Seq(TriggerActivity) /\ l # <<>> /\ InTime(l)
                 /\ l[1] = ta
    BY <1>1, OneIsInTime
  <2>3. w.inputs = l /\ w.time_start = ta.time_start  BY <2>1, <2>2 DEF reset
  <2> QED  BY <1>4, <1>7, <2>1, <2>2, <2>3
<1>9. CASE emit_closed(ta)
  <2>1. PICK w : /\ w = m_current_window /\ w.inputs # <<>>
                 /\ output_tc' = Append(output_tc, construct_tc_to_last(w))
    BY <1>9 DEF emit_closed, is_empty
  <2>2. SpanAgrees(w, m_config["window_length"]) /\ w.inputs \in Seq(TriggerActivity)
    BY <2>1 DEF Inv, WindowInv, WindowSpan
  <2>3. w.time_start = w.inputs[1].time_start /\ InTime(w.inputs)
    BY <2>1, <2>2 DEF SpanAgrees, InTime
  <2> QED  BY <1>4, <1>7, <2>1, <2>2, <2>3
<1>10. CASE \/ start_window(ta) \/ fill_window(ta) \/ drop_closed(ta)
            \/ slide_window(ta, moved)
  BY <1>4, <1>10 DEF start_window, fill_window, drop_closed, slide_window, CoversNext
<1> QED  BY <1>2, <1>8, <1>9, <1>10 DEF receive_and_close

LEMMA CallCovers ==
  ASSUME Inv, MemberInv, ReasonInv, ReadoutInv, maker \in Makers,
         NEW ta \in NextTAs(received), call(ta)
  PROVE  ReadoutInv' /\ CoversNext
<1>1. ta \in TriggerActivity  BY NextTA DEF Inv, StreamInv
<1>2. CASE \/ maker = "HorizontalMuon" /\ receive_hm(ta)
           \/ maker = "ChannelAdjacency" /\ receive_ca(ta)
           \/ maker = "MichelElectron" /\ receive_me(ta)
  <2>1. Justifies  BY CallReasons
  <2>2. UNCHANGED maker
    BY <1>2 DEF receive_hm, receive_ca, receive_me, receive_and_judge, receive_and_close, take
  <2> QED  BY <1>2, <2>1, <2>2, OthersCover DEF Judging
<1>3. CASE maker = "PlaneCoincidence" /\ receive_pc(ta)
  BY <1>3, PlaneCoincidenceCovers
<1>4. CASE \/ maker = "ADCSimpleWindow" /\ receive_adcsw(ta)
           \/ maker = "Prescale" /\ receive_prescale(ta)
  BY <1>1, <1>4, SingleCovers
<1>5. CASE \/ maker = "BundleN" /\ receive_bundle(ta)
           \/ maker \in {"ChannelDistance", "DBSCAN"} /\ receive_by_tp_count(ta)
  BY <1>5, BundlingCovers DEF Bundling
<1>6. CASE maker = "Supernova" /\ receive_supernova(ta)
  BY <1>6, SupernovaCovers
<1> QED  BY <1>2, <1>3, <1>4, <1>5, <1>6 DEF call

\* What every TC so far covers.
AllCovered == ReadoutFits /\ Covering => \A k \in DOMAIN output_tc : Covers(output_tc[k])

LEMMA CallCoversAll ==
  ASSUME Inv, MemberInv, ReasonInv, ReadoutInv, AllCovered, maker \in Makers, ~ rejected,
         NEW ta \in NextTAs(received), call(ta)
  PROVE  ReadoutInv' /\ AllCovered'
<1>1. ReadoutInv' /\ CoversNext  BY CallCovers
<1>2. received' = Append(received, ta) /\ UNCHANGED <<maker, m_config, rejected>>
  BY CallTakes
<1>3. ta \in TriggerActivity /\ received \in Seq(TriggerActivity)
  BY NextTA DEF Inv, StreamInv
<1>4. Ordered' => Ordered  BY <1>2, <1>3, StreamWasSo
<1> SUFFICES ASSUME ReadoutFits', Covering' PROVE \A k \in DOMAIN output_tc' : Covers(output_tc'[k])
  BY <1>1 DEF AllCovered, Covers
<1>5. \A k \in DOMAIN output_tc : Covers(output_tc[k])
  <2>1. ReadoutFits  BY <1>2 DEF ReadoutFits, MarginsFit
  <2>2. Covering  BY <1>2, <1>4 DEF Covering
  <2> QED  BY <2>1, <2>2 DEF AllCovered
<1>6. CASE UNCHANGED output_tc  BY <1>5, <1>6
<1>7. CASE ~ UNCHANGED output_tc
  <2>1. PICK tc : output_tc' = Append(output_tc, tc) /\ Covers(tc)
    BY <1>1, <1>7 DEF CoversNext
  <2>2. PICK S : output_tc \in Seq(S)  BY DEF Inv, StreamInv, Outputs
  <2>3. PICK m \in Nat : m = Len(output_tc) /\ DOMAIN output_tc = 1 .. m  BY <2>2
  <2>4. /\ DOMAIN output_tc' = 1 .. (m + 1) /\ output_tc'[m + 1] = tc
        /\ \A k \in 1 .. m : output_tc'[k] = output_tc[k]
    BY <2>1, <2>2, <2>3
  <2>5. \A k \in 1 .. (m + 1) : k \in 1 .. m \/ k = m + 1  OBVIOUS
  <2> QED  BY <1>5, <2>1, <2>3, <2>4, <2>5
<1> QED  BY <1>6, <1>7

LEMMA InitCovers == Init => ReadoutInv /\ AllCovered
<1> SUFFICES ASSUME Init PROVE ReadoutInv /\ AllCovered
  OBVIOUS
<1>1. maker = NoMaker /\ output_tc = <<>> /\ DOMAIN <<>> = {}  BY DEF Init
<1> QED  BY <1>1 DEF ReadoutInv, AllCovered, Bundling, NoMaker

LEMMA StepCovers ==
  Inv /\ MemberInv /\ ReasonInv /\ ReadoutInv /\ AllCovered /\ [Next]_vars
    => ReadoutInv' /\ AllCovered'
<1> SUFFICES ASSUME Inv, MemberInv, ReasonInv, ReadoutInv, AllCovered, [Next]_vars
             PROVE  ReadoutInv' /\ AllCovered'
  OBVIOUS
<1>1. ASSUME received = <<>>, UNCHANGED <<members, output_tc>> PROVE ReadoutInv' /\ AllCovered'
  <2>1. m_current_tc' = <<>> /\ output_tc' = <<>> /\ DOMAIN <<>> = {}
    BY <1>1 DEF members, bundleVars, Inv, StreamInv
  <2>2. FromStream(m_current_tc, received)' /\ InTime(m_current_tc)'
    <3>1. Range(<<>>) = {}  BY RangeOfNone
    <3> QED  BY <2>1, <3>1 DEF FromStream, InTime
  <2> QED  BY <2>1, <2>2 DEF ReadoutInv, AllCovered
<1>2. ASSUME NEW name \in Makers, build_maker(name) PROVE ReadoutInv' /\ AllCovered'
  <2>1. maker = NoMaker /\ UNCHANGED <<members, output_tc>>  BY <1>2 DEF build_maker
  <2>2. received = <<>>  BY <2>1 DEF Inv, ConfigInv
  <2> QED  BY <1>1, <2>1, <2>2
<1>3. ASSUME NEW config, configured(config) PROVE ReadoutInv' /\ AllCovered'
  <2>1. received = <<>> /\ UNCHANGED <<members, output_tc>>
    <3>1. CASE configure_hm(config)  BY <3>1 DEF configure_hm, configure
    <3>2. CASE configure_ca(config)  BY <3>2 DEF configure_ca, configure
    <3>3. CASE configure_me(config)  BY <3>3 DEF configure_me, configure
    <3>4. CASE configure_pc(config)  BY <3>4 DEF configure_pc, configure
    <3>5. CASE configure_prescale(config)  BY <3>5 DEF configure_prescale, configure
    <3>6. CASE configure(config, TRUE)  BY <3>6 DEF configure
    <3> QED  BY <1>3, <3>1, <3>2, <3>3, <3>4, <3>5, <3>6 DEF configured
  <2> QED  BY <1>1, <2>1
<1>4. ASSUME maker \in Makers, ~ rejected, NEW ta \in NextTAs(received), call(ta)
      PROVE  ReadoutInv' /\ AllCovered'
  BY <1>4, CallCoversAll
<1>5. CASE UNCHANGED vars
  <2>1. UNCHANGED <<maker, m_config, m_current_tc, output_tc, received>>
    BY <1>5 DEF vars, members, bundleVars
  <2>2. Ordered' <=> Ordered  BY <2>1 DEF Ordered
  <2>3. Covering' <=> Covering  BY <2>1, <2>2 DEF Covering
  <2>4. ReadoutFits' <=> ReadoutFits  BY <2>1 DEF ReadoutFits, MarginsFit
  <2>5. ReadoutInv'  BY <2>1, <2>2 DEF ReadoutInv, FromStream, InTime, Range
  <2>6. AllCovered'  BY <2>1, <2>3, <2>4 DEF AllCovered, Covers
  <2> QED  BY <2>5, <2>6
<1> QED  BY <1>2, <1>3, <1>4, <1>5 DEF Next

-----------------------------------------------------------------------------
(* The theorems *)

\* Every TC maker implements the abstract windowing discipline.
THEOREM MakersImplementSegmentation == Spec => SegmentsSpec
BY InitKeeps, StepKeeps, PTL DEF Spec, SegmentsSpec, Segments!Spec

\* A TAWindow is in time order, starts at its first TA and is no longer than
\* window_length, in whatever order the TAs arrive.
THEOREM WindowsKeepTheirSpan == Spec => []WindowSpan
<1>1. Inv => WindowSpan  BY DEF Inv, WindowInv
<1> QED  BY <1>1, InitKeeps, StepKeeps, PTL DEF Spec

\* The charge a window keeps by hand is that of its TAs whenever it has any,
\* however they came and went.
ChargeAgreesWhenUsed ==
  ~ is_empty(m_current_window) => ChargeAgrees(m_current_window)

THEOREM WindowsKeepTheirCharge == Spec => []ChargeAgreesWhenUsed
<1>1. Inv => ChargeAgreesWhenUsed
  BY DEF Inv, WindowInv, Charged, ChargeAgreesWhenUsed
<1> QED  BY <1>1, InitKeeps, StepKeeps, PTL DEF Spec

\* The makers that only repackage TAs lose none.
THEOREM RepackagersLoseNothing == Spec => []NothingDropped
<1>1. Inv => NothingDropped  BY DEF Inv
<1> QED  BY <1>1, InitKeeps, StepKeeps, PTL DEF Spec

\* With TAs in order, a TA that goes without having been in a TC is out of
\* date.
THEOREM NoTAGoesEarly == Spec => []NoTALostEarly
<1>1. Inv => NoTALostEarly  BY DEF Inv
<1> QED  BY <1>1, InitKeeps, StepKeeps, PTL DEF Spec

\* Every member stays within its type, the readout times included.
THEOREM MembersKeepTheirTypes == Spec => []TypeOK
<1>1. Inv /\ MemberInv => TypeOK
  BY DEF Inv, StreamInv, ConfigInv, BundleInv, MemberInv, TypeOK, TCs
<1> QED  BY <1>1, InitKeeps, StepKeeps, InitMembers, StepMembers, PTL DEF Spec

\* As long as no channel has more TPs in the window than an uint16_t can count,
\* both totals are those of the TAs in the window; whatever wrapped in earlier
\* windows, or in this one before its TAs were erased, does no harm.
THEOREM TotalsAgreeWhereCountsFit == Spec => [](CountsFit => TotalsAgreeWhenUsed)
<1>1. Inv /\ MemberInv => (CountsFit => TotalsAgreeWhenUsed)
  BY KeptAgrees DEF Inv, WindowInv, MemberInv, Charged, CountsFit, TotalsAgreeWhenUsed
<1> QED  BY <1>1, InitKeeps, StepKeeps, InitMembers, StepMembers, PTL DEF Spec

\* Every TC is justified by its own TAs, counted again from nothing, whatever
\* its maker: as long as a TA has no more TPs than an uint16_t counts, which
\* only the two makers that bundle by the number of TPs need.
THEOREM TCsAreJustified == Spec => [](TPsFit => TCsJustified)
<1>1. AllJustified => (TPsFit => TCsJustified)  BY DEF AllJustified
<1> QED
  BY <1>1, InitKeeps, StepKeeps, InitMembers, StepMembers, InitReasons, StepReasons, PTL
     DEF Spec

\* In the readout of a TC all its TAs begin and the last one ends, and with it
\* those that end no later, for every maker that promises it: as long as a TA
\* takes some time and no readout is longer than the clock.
THEOREM ReadoutsCoverTheirTAs == Spec => [](ReadoutFits => ReadoutCoversItsTAs)
<1>1. AllCovered => (ReadoutFits => ReadoutCoversItsTAs)
  BY DEF AllCovered, Covers, Covering, ReadoutCoversItsTAs
<1> QED
  BY <1>1, InitKeeps, StepKeeps, InitMembers, StepMembers, InitReasons, StepReasons,
     InitCovers, StepCovers, PTL DEF Spec

=============================================================================
