---------------------- MODULE TriggerActivityFactoryProofs ----------------------
(***************************************************************************)
(* The TA makers of the factory, for every stream and every                *)
(* configuration: the windows they slide stay within the window length     *)
(* and their charge is that of their TPs; TAs are made of successive       *)
(* stretches of the stream; no TP goes before its time; the prescale lets  *)
(* one trigger in so many through; every member keeps its type and says of *)
(* the TPs it stands for what they say themselves; and every TA is         *)
(* justified by its TPs, none of which is in another one.                  *)
(***************************************************************************)
EXTENDS TriggerActivityFactory, InputListLemmas, FiniteSetTheorems

IsWindow(w) ==
  /\ w.time_start \in Timestamps /\ w.adc_integral \in 0 .. AdcModulus - 1
  /\ w.inputs \in Seq(TriggerPrimitive)

Charged(w) == IsWindow(w) /\ ChargeAgrees(w)

\* A well-kept window: its two cached numbers say what its list says, and the
\* list is short and one of an ordered stream that has reached the time now.
ListKept(w, length, now) ==
  /\ Charged(w)
  /\ \A i \in 2 .. Len(w.inputs) :
       fits(w.inputs[i].time_start, w.inputs[1].time_start, length)
  /\ InTimeOrder(w.inputs, now)

WellKept(w, length, now) ==
  /\ ListKept(w, length, now)
  /\ w.inputs # <<>> => w.time_start = w.inputs[1].time_start

LEMMA WellKeptAgrees ==
  ASSUME NEW w, NEW length, NEW now, WellKept(w, length, now)
  PROVE  SpanAgrees(w, length) /\ ChargeAgrees(w) /\ w.inputs \in Seq(TriggerPrimitive)
<1>1. ListKept(w, length, now)  BY DEF WellKept
<1>2. ChargeAgrees(w) /\ w.inputs \in Seq(TriggerPrimitive)
  BY <1>1 DEF ListKept, Charged, IsWindow
<1>3. SpanAgrees(w, length)
  <2> SUFFICES ASSUME w.inputs # <<>> PROVE
        /\ w.time_start = w.inputs[1].time_start
        /\ \A i \in 2 .. Len(w.inputs) : fits(w.inputs[i].time_start, w.time_start, length)
    BY DEF SpanAgrees
  <2>1. w.time_start = w.inputs[1].time_start  BY DEF WellKept
  <2> QED  BY <1>1, <2>1 DEF ListKept
<1> QED  BY <1>2, <1>3

-----------------------------------------------------------------------------
(* The methods of the window *)

\* What a TP is.
LEMMA TPType ==
  ASSUME NEW tp \in TriggerPrimitive
  PROVE  /\ tp.time_start \in Timestamps /\ tp.time_start \in Nat
         /\ tp.adc_integral \in Nat /\ tp.adc_integral \in 0 .. AdcModulus - 1
<1>1. tp.time_start \in Timestamps /\ tp.adc_integral \in AdcValues
  BY DEF TriggerPrimitive
<1>2. tp.time_start \in Nat  BY <1>1, TimeModulusAssumption DEF Timestamps
<1>3. tp.adc_integral \in Nat  BY <1>1, TPAssumption DEF AdcValues
<1>4. tp.adc_integral \in 0 .. AdcModulus - 1  BY <1>1, TPWindowAssumption
<1> QED  BY <1>1, <1>2, <1>3, <1>4

\* reset() leaves a well-kept window of one TP.
LEMMA ResetKeeps ==
  ASSUME NEW w, NEW tp \in TriggerPrimitive, NEW length
  PROVE  WellKept(reset(w, tp), length, tp.time_start)
<1> DEFINE u == reset(w, tp)
<1>1. /\ u.time_start = tp.time_start /\ u.adc_integral = tp.adc_integral
      /\ u.inputs = <<tp>> /\ IsWindow(u)
  BY TPType DEF reset, IsWindow
<1>2. TotalAdc(<<tp>>) = tp.adc_integral
  <2>1. <<tp>> = Append(<<>>, tp) /\ <<>> \in Seq(TriggerPrimitive)  OBVIOUS
  <2>2. \A e \in TriggerPrimitive : e.adc_integral \in Nat  BY TPType
  <2>3. TotalAdc(Append(<<>>, tp)) = TotalAdc(<<>>) + tp.adc_integral
    BY <2>1, <2>2, TotalAdcAppend
  <2> QED  BY <2>1, <2>3, TotalAdcEmpty, TPType
<1>3. tp.adc_integral % AdcModulus = tp.adc_integral
  BY TPType, TPWindowAssumption
<1>4. InTimeOrder(<<tp>>, tp.time_start)
  BY TPType DEF InTimeOrder
<1>5. Len(<<tp>>) = 1 /\ <<tp>>[1] = tp /\ DOMAIN <<tp>> = {1}  OBVIOUS
<1> HIDE DEF u
<1>7. WellKept(u, length, tp.time_start)
  BY <1>1, <1>2, <1>3, <1>4, <1>5 DEF WellKept, ListKept, Charged, ChargeAgrees
<1> QED  BY <1>7 DEF u

\* add() keeps the charge that of the list, which grows by one TP.
LEMMA AddCharges ==
  ASSUME NEW w, Charged(w), NEW tp \in TriggerPrimitive
  PROVE  LET u == add(w, tp)
         IN  Charged(u) /\ u.inputs = Append(w.inputs, tp) /\ u.time_start = w.time_start
<1> DEFINE u == add(w, tp)
           tps == w.inputs
<1>1. /\ tps \in Seq(TriggerPrimitive) /\ IsWindow(w)
      /\ w.adc_integral = TotalAdc(tps) % AdcModulus
      /\ w.adc_integral \in 0 .. AdcModulus - 1
  BY DEF Charged, ChargeAgrees, IsWindow
<1>2. /\ u.time_start = w.time_start
      /\ u.adc_integral = (w.adc_integral + tp.adc_integral) % AdcModulus
      /\ u.inputs = Append(tps, tp)
  BY <1>1 DEF add, UIntPlus, IsWindow
<1>3. IsWindow(u)
  <2>1. (w.adc_integral + tp.adc_integral) % AdcModulus \in 0 .. AdcModulus - 1
    BY <1>1, TPType, TPWindowAssumption
  <2>2. Append(tps, tp) \in Seq(TriggerPrimitive)  BY <1>1
  <2> QED  BY <1>1, <2>1, <2>2 DEF add, UIntPlus, IsWindow
<1>4. u.adc_integral = TotalAdc(u.inputs) % AdcModulus
  <2>1. \A e \in TriggerPrimitive : e.adc_integral \in Nat  BY TPType
  <2>2. TotalAdc(tps) \in Nat  BY <1>1, <2>1, TotalAdcType
  <2>3. TotalAdc(Append(tps, tp)) = TotalAdc(tps) + tp.adc_integral
    BY <1>1, <2>1, TotalAdcAppend
  <2>4. ((TotalAdc(tps) % AdcModulus) + tp.adc_integral) % AdcModulus
          = (TotalAdc(tps) + tp.adc_integral) % AdcModulus
    <3>1. TotalAdc(tps) \in Int /\ tp.adc_integral \in Int  BY <2>1, <2>2
    <3> HIDE DEF tps
    <3> QED  BY <3>1, ModPlus, TPWindowAssumption
  <2> QED  BY <1>1, <1>2, <2>3, <2>4
<1> QED  BY <1>2, <1>3, <1>4 DEF Charged, ChargeAgrees

\* The window stays well kept when the TP is not older than the stream and
\* fits the window.
LEMMA AddKeeps ==
  ASSUME NEW w, NEW length, NEW now \in Nat, WellKept(w, length, now),
         NEW tp \in TriggerPrimitive, now <= tp.time_start,
         w.inputs # <<>>, fits(tp.time_start, w.time_start, length)
  PROVE  WellKept(add(w, tp), length, tp.time_start)
<1>1. PICK tps \in Seq(TriggerPrimitive) : tps = w.inputs  BY WellKeptAgrees
<1>2. PICK u : u = add(w, tp)  OBVIOUS
<1>3. Charged(u) /\ u.inputs = Append(tps, tp) /\ u.time_start = w.time_start
  <2>1. Charged(w)  BY DEF WellKept, ListKept
  <2> QED  BY <1>1, <1>2, <2>1, AddCharges
<1>4. PICK m \in Nat : m = Len(tps) /\ m >= 1
  BY <1>1, EmptySeq
<1>5. /\ Len(u.inputs) = m + 1 /\ u.inputs[m + 1] = tp
      /\ \A i \in 1 .. m : u.inputs[i] = tps[i]
  BY <1>3, <1>4
<1>6. w.time_start = tps[1].time_start /\ 1 \in 1 .. m
  BY <1>1, <1>4 DEF WellKept
<1>7. ASSUME NEW i \in 2 .. (m + 1)
      PROVE  fits(u.inputs[i].time_start, tps[1].time_start, length)
  <2>1. CASE i = m + 1  BY <1>5, <1>6, <2>1
  <2>2. CASE i # m + 1
    <3>1. i \in 2 .. m /\ i \in 1 .. m  BY <2>2
    <3>2. fits(tps[i].time_start, tps[1].time_start, length)
      BY <1>1, <1>4, <3>1 DEF WellKept, ListKept
    <3> QED  BY <1>5, <3>1, <3>2
  <2> QED  BY <2>1, <2>2
<1>8. InTimeOrder(u.inputs, tp.time_start)
  <2>1. InTimeOrder(tps, now)  BY <1>1 DEF WellKept, ListKept
  <2>2. \A e \in TriggerPrimitive : e.time_start \in Nat  BY TPType
  <2> QED  BY <1>3, <2>1, <2>2, InOrderAppend
<1>9. ListKept(u, length, tp.time_start)
  BY <1>3, <1>5, <1>6, <1>7, <1>8 DEF ListKept
<1>10. u.time_start = u.inputs[1].time_start  BY <1>3, <1>5, <1>6
<1> QED  BY <1>2, <1>9, <1>10 DEF WellKept

\* Erasing a front that is not the whole list keeps the window well kept: the
\* charge erased is taken off, and the start time is that of the new front.
LEMMA EraseKeeps ==
  ASSUME NEW w, NEW length \in Nat, NEW now \in Nat, ListKept(w, length, now),
         NEW n \in Nat, n < Len(w.inputs)
  PROVE  LET u == erase_front(w, n)
         IN  /\ WellKept(u, length, now)
             /\ u.inputs # <<>>
             /\ u.time_start = w.inputs[n + 1].time_start
<1> DEFINE u == erase_front(w, n)
           tps == w.inputs
           front == SubSeq(tps, 1, n)
           kept == SubSeq(tps, n + 1, Len(tps))
<1>1. /\ tps \in Seq(TriggerPrimitive) /\ IsWindow(w)
      /\ w.adc_integral = TotalAdc(tps) % AdcModulus
  BY DEF ListKept, Charged, ChargeAgrees, IsWindow
<1>2. /\ u.time_start = tps[n + 1].time_start
      /\ u.adc_integral = (w.adc_integral - TotalAdc(front)) % AdcModulus
      /\ u.inputs = kept
  BY DEF erase_front
<1>3. /\ kept \in Seq(TriggerPrimitive) /\ front \in Seq(TriggerPrimitive)
      /\ Len(kept) = Len(tps) - n /\ DOMAIN kept = 1 .. (Len(tps) - n)
      /\ \A i \in 1 .. (Len(tps) - n) : kept[i] = tps[n + i]
  BY <1>1
<1>4. /\ DOMAIN tps = 1 .. Len(tps) /\ Len(tps) \in Nat
      /\ \A i \in 1 .. Len(tps) : tps[i] \in TriggerPrimitive /\ tps[i].time_start \in Nat
      /\ n \in 0 .. Len(tps) /\ n + 1 \in 1 .. Len(tps) /\ 1 \in 1 .. Len(tps)
      /\ \A i \in 1 .. (Len(tps) - n) : n + i \in 1 .. Len(tps)
  BY <1>1, TPType
<1>5. u.adc_integral = TotalAdc(kept) % AdcModulus
  <2>1. \A e \in TriggerPrimitive : e.adc_integral \in Nat  BY TPType
  <2>2. TotalAdc(tps) \in Nat /\ TotalAdc(front) \in Nat /\ TotalAdc(kept) \in Nat
    BY <1>1, <1>3, <2>1, TotalAdcType
  <2>3. TotalAdc(tps) = TotalAdc(front) + TotalAdc(kept)
    BY <1>1, <1>4, <2>1, TotalAdcSplit
  <2> HIDE DEF tps, front, kept, u
  <2>4. PICK all \in Int : all = TotalAdc(tps)  BY <2>2
  <2>5. PICK gone \in Int : gone = - TotalAdc(front)  BY <2>2
  <2>6. ((all % AdcModulus) + gone) % AdcModulus = (all + gone) % AdcModulus
    BY ModPlus, TPWindowAssumption
  <2>7. all + gone = TotalAdc(kept)  BY <2>2, <2>3, <2>4, <2>5
  <2>8. all % AdcModulus \in Int  BY TPWindowAssumption
  <2>9. w.adc_integral - TotalAdc(front) = (all % AdcModulus) + gone
    BY <1>1, <2>2, <2>4, <2>5, <2>8
  <2> QED  BY <1>2, <2>6, <2>7, <2>9
<1>6. IsWindow(u)
  <2>1. u.adc_integral \in 0 .. AdcModulus - 1
    <3>1. \A e \in TriggerPrimitive : e.adc_integral \in Nat  BY TPType
    <3>2. TotalAdc(kept) \in Nat  BY <1>3, <3>1, TotalAdcType
    <3> HIDE DEF kept
    <3> QED  BY <1>5, <3>2, TPWindowAssumption
  <2>2. u.time_start \in Timestamps  BY <1>2, <1>4, TPType
  <2> HIDE DEF u, kept
  <2> QED  BY <1>2, <1>3, <2>1, <2>2 DEF IsWindow
<1> HIDE DEF u, tps, front, kept
<1>7. InTimeOrder(tps, now)  BY DEF ListKept, tps
<1>8. InTimeOrder(kept, now)
  <2>1. ASSUME NEW i \in 1 .. (Len(tps) - n), NEW j \in 1 .. (Len(tps) - n), i < j
        PROVE  kept[i].time_start <= kept[j].time_start
    <3>1. n + i < n + j  BY <1>4, <2>1
    <3> QED  BY <1>3, <1>4, <1>7, <3>1 DEF InTimeOrder
  <2>2. \A i \in 1 .. (Len(tps) - n) : kept[i].time_start <= now
    BY <1>3, <1>4, <1>7 DEF InTimeOrder
  <2> QED  BY <1>3, <2>1, <2>2 DEF InTimeOrder
<1>9. kept # <<>> /\ kept[1] = tps[n + 1]
  <2>1. 1 \in 1 .. (Len(tps) - n)  BY <1>4
  <2> QED  BY <1>3, <2>1
<1>10. ASSUME NEW i \in 2 .. Len(kept)
       PROVE  fits(kept[i].time_start, tps[n + 1].time_start, length)
  <2>1. /\ i \in 1 .. (Len(tps) - n) /\ n + i \in 1 .. Len(tps) /\ n + i \in 2 .. Len(tps)
        /\ kept[i] = tps[n + i] /\ n + 1 < n + i
    BY <1>3, <1>4
  <2>2. fits(tps[n + i].time_start, tps[1].time_start, length)
    BY <1>4, <2>1 DEF ListKept, tps
  <2>3. tps[1].time_start <= tps[n + 1].time_start
    <3>1. CASE n = 0  BY <1>4, <3>1
    <3>2. CASE n # 0
      <4>1. 1 < n + 1  BY <3>2
      <4> QED  BY <1>4, <1>7, <4>1 DEF InTimeOrder
    <3> QED  BY <3>1, <3>2
  <2>4. tps[n + 1].time_start <= tps[n + i].time_start
    BY <1>4, <1>7, <2>1 DEF InTimeOrder
  <2>5. fits(tps[n + i].time_start, tps[n + 1].time_start, length)
    BY <1>4, <2>1, <2>2, <2>3, <2>4, FitsLater
  <2> QED  BY <2>1, <2>5
<1>12. WellKept(u, length, now)
  BY <1>2, <1>5, <1>6, <1>8, <1>9, <1>10 DEF WellKept, ListKept, Charged, ChargeAgrees
<1> QED  BY <1>2, <1>9, <1>12 DEF u, tps

\* move() keeps the window well kept, whatever it finds to erase.
LEMMA MoveKeeps ==
  ASSUME NEW w, NEW length \in Nat, NEW now \in Nat, ListKept(w, length, now),
         NEW tp \in TriggerPrimitive, now <= tp.time_start
  PROVE  WellKept(move(w, tp, length), length, tp.time_start)
<1> DEFINE n == n_to_erase(w.inputs, tp.time_start, length)
<1>1. Len(w.inputs) \in Nat
  BY DEF ListKept, Charged, IsWindow
<1>2. /\ n \in 0 .. Len(w.inputs)
      /\ n < Len(w.inputs) =>
           fits(tp.time_start, w.inputs[n + 1].time_start, length)
  BY <1>1, NToErase
<1> HIDE DEF n
<1>3. CASE n < Len(w.inputs)
  <2>1. move(w, tp, length) = add(erase_front(w, n), tp)
    BY <1>3 DEF move, n
  <2>2. PICK e : e = erase_front(w, n)  OBVIOUS
  <2>3. /\ WellKept(e, length, now) /\ e.inputs # <<>>
        /\ e.time_start = w.inputs[n + 1].time_start
    <3>1. n \in Nat  BY <1>1, <1>2
    <3>2. LET u == erase_front(w, n)
          IN  /\ WellKept(u, length, now)
              /\ u.inputs # <<>>
              /\ u.time_start = w.inputs[n + 1].time_start
      BY <1>3, <3>1, EraseKeeps
    <3> QED  BY <2>2, <3>2
  <2>4. WellKept(add(e, tp), length, tp.time_start)
    BY <1>2, <1>3, <2>3, AddKeeps
  <2> QED  BY <2>1, <2>2, <2>4
<1>4. CASE ~ (n < Len(w.inputs))
  <2>1. move(w, tp, length) = reset(w, tp)
    BY <1>4 DEF move, n
  <2> QED  BY <2>1, ResetKeeps
<1> QED  BY <1>3, <1>4

\* It takes the TP in and leaves all that fits it.
LEMMA MoveTakes ==
  ASSUME NEW w, w.inputs \in Seq(TriggerPrimitive), NEW tp \in TriggerPrimitive, NEW length
  PROVE  LET u == move(w, tp, length)
         IN  /\ tp \in Range(u.inputs) /\ Range(u.inputs) \subseteq Range(w.inputs) \cup {tp}
             /\ \A d \in Range(w.inputs) \ Range(u.inputs) :
                  ~ fits(tp.time_start, d.time_start, length)
<1>1. move(w, tp, length).inputs = Moved(w.inputs, tp, length)
  <2>1. CASE n_to_erase(w.inputs, tp.time_start, length) < Len(w.inputs)
    BY <2>1 DEF move, Moved, add, erase_front
  <2>2. CASE ~ (n_to_erase(w.inputs, tp.time_start, length) < Len(w.inputs))
    BY <2>2 DEF move, Moved, reset
  <2> QED  BY <2>1, <2>2
<1> QED  BY <1>1, MovedTakes

\* An empty window is well kept, and a window stays so while time goes on.
LEMMA EmptyKept ==
  ASSUME NEW length, NEW now
  PROVE  WellKept(EmptyWindow, length, now)
<1>1. 0 % AdcModulus = 0  BY TPWindowAssumption
<1>2. IsWindow(EmptyWindow)
  BY TPWindowAssumption, TimeModulusAssumption DEF EmptyWindow, IsWindow, Timestamps
<1>3. InTimeOrder(<<>>, now)  BY DEF InTimeOrder
<1>4. EmptyWindow.inputs = <<>> /\ EmptyWindow.adc_integral = 0 /\ Len(<<>>) = 0
  BY DEF EmptyWindow
<1>5. Charged(EmptyWindow)  BY <1>1, <1>2, <1>4, TotalAdcEmpty DEF Charged, ChargeAgrees
<1> QED  BY <1>3, <1>4, <1>5 DEF WellKept, ListKept

LEMMA OrderLater ==
  ASSUME NEW tps \in Seq(TriggerPrimitive), NEW now \in Nat, NEW later \in Nat, now <= later,
         InTimeOrder(tps, now)
  PROVE  InTimeOrder(tps, later)
<1>1. ASSUME NEW i \in DOMAIN tps PROVE tps[i].time_start <= later
  <2>1. tps[i] \in TriggerPrimitive  OBVIOUS
  <2>2. tps[i].time_start \in Nat  BY <2>1, TPType
  <2>3. tps[i].time_start <= now  BY DEF InTimeOrder
  <2> QED  BY <2>2, <2>3
<1> QED  BY <1>1 DEF InTimeOrder

LEMMA LaterKeeps ==
  ASSUME NEW w, NEW length, NEW now \in Nat, WellKept(w, length, now),
         NEW later \in Nat, now <= later
  PROVE  WellKept(w, length, later)
<1>1. w.inputs \in Seq(TriggerPrimitive) /\ InTimeOrder(w.inputs, now)
  BY DEF WellKept, ListKept, Charged, IsWindow
<1>2. InTimeOrder(w.inputs, later)  BY <1>1, OrderLater
<1> QED  BY <1>2 DEF WellKept, ListKept

-----------------------------------------------------------------------------
(* How often each channel was hit *)

LEMMA SmallMod ==
  ASSUME NEW x \in Nat, NEW y \in Nat \ {0}, x < y
  PROVE  x % y = x
OBVIOUS

\* The hits on each channel by the TPs of a list.
TPWeight(c) == [tp \in TriggerPrimitive |-> IF tp.channel = c THEN 1 ELSE 0]
TPHits(list) == [c \in Nat |-> Weight(list, TPWeight(c))]

LEMMA TPChannel ==
  /\ Channels \subseteq Nat
  /\ \A tp \in TriggerPrimitive : tp.channel \in Channels /\ tp.channel \in Nat
<1>1. Channels \subseteq Nat  BY TPAssumption DEF Channels
<1> QED  BY <1>1 DEF TriggerPrimitive

LEMMA TPWeightType ==
  ASSUME NEW c \in Nat
  PROVE  /\ TPWeight(c) \in [TriggerPrimitive -> Nat]
         /\ \A tp \in TriggerPrimitive : TPWeight(c)[tp] = IF tp.channel = c THEN 1 ELSE 0
BY DEF TPWeight

LEMMA TPHitsType ==
  ASSUME NEW list \in Seq(TriggerPrimitive)
  PROVE  TPHits(list) \in Tallies
<1>1. ASSUME NEW c \in Nat PROVE Weight(list, TPWeight(c)) \in Nat
  BY TPWeightType, WeightStep
<1> QED  BY <1>1 DEF TPHits, Tallies

LEMMA TPHitsNone == \A c \in Nat : TPHits(<<>>)[c] = 0
BY WeightNone DEF TPHits

LEMMA TPHitsAppend ==
  ASSUME NEW list \in Seq(TriggerPrimitive), NEW tp \in TriggerPrimitive
  PROVE  OneMore(TPHits(Append(list, tp)), TPHits(list), tp.channel)
<1>1. ASSUME NEW c \in Nat
      PROVE  TPHits(Append(list, tp))[c] = TPHits(list)[c] + (IF tp.channel = c THEN 1 ELSE 0)
  <2>1. PICK w \in [TriggerPrimitive -> Nat] :
          w = TPWeight(c) /\ w[tp] = IF tp.channel = c THEN 1 ELSE 0
    BY TPWeightType
  <2>2. Weight(Append(list, tp), w) = Weight(list, w) + w[tp]  BY WeightAppend
  <2> QED  BY <2>1, <2>2 DEF TPHits
<1> QED  BY <1>1 DEF OneMore

\* The hits of the end of a list, from its n-th TP on.
LEMMA TPHitsFrom ==
  ASSUME NEW s \in Seq(TriggerPrimitive), NEW n \in 1 .. Len(s)
  PROVE  OneMore(TPHits(SubSeq(s, n, Len(s))), TPHits(SubSeq(s, n + 1, Len(s))), s[n].channel)
<1>1. PICK m \in Nat : m = Len(s)  OBVIOUS
<1>2. PICK e \in TriggerPrimitive : e = s[n]  OBVIOUS
<1>3. PICK t \in Seq(TriggerPrimitive) :
        t = SubSeq(s, n, m) /\ Len(t) = m - n + 1 /\ \A i \in 1 .. (m - n + 1) : t[i] = s[n + i - 1]
  <2>1. /\ SubSeq(s, n, m) \in Seq(TriggerPrimitive) /\ Len(SubSeq(s, n, m)) = m - n + 1
        /\ \A i \in 1 .. (m - n + 1) : SubSeq(s, n, m)[i] = s[n + i - 1]
    BY <1>1
  <2> QED  BY <2>1
<1>4. PICK u \in Seq(TriggerPrimitive) :
        u = SubSeq(s, n + 1, m) /\ Len(u) = m - n /\ \A i \in 1 .. (m - n) : u[i] = s[n + i]
  <2>1. n \in 0 .. Len(s)  BY <1>1
  <2>2. PICK u : u = SubSeq(s, n + 1, Len(s))  OBVIOUS
  <2>3. /\ u \in Seq(TriggerPrimitive) /\ Len(u) = Len(s) - n
        /\ \A i \in 1 .. (Len(s) - n) : u[i] = s[n + i]
    BY <2>1, <2>2, EndOfList
  <2> QED  BY <1>1, <2>2, <2>3
<1>5. PICK o \in Seq(TriggerPrimitive) : o = <<e>> /\ Len(o) = 1 /\ o[1] = e
  <2>1. <<e>> \in Seq(TriggerPrimitive) /\ Len(<<e>>) = 1 /\ <<e>>[1] = e  OBVIOUS
  <2> QED  BY <2>1
<1>6. Joins(t, o, u)
  <2>1. Len(t) = Len(o) + Len(u)  BY <1>1, <1>3, <1>4, <1>5
  <2>2. t[1] = e
    <3>1. 1 \in 1 .. (m - n + 1) /\ n + 1 - 1 = n  BY <1>1
    <3> QED  BY <1>2, <1>3, <3>1
  <2>3. ASSUME NEW i \in 1 .. (m - n) PROVE t[1 + i] = u[i]
    <3>1. 1 + i \in 1 .. (m - n + 1) /\ n + (1 + i) - 1 = n + i  BY <1>1
    <3> QED  BY <1>3, <1>4, <3>1
  <2> QED  BY <1>4, <1>5, <2>1, <2>2, <2>3 DEF Joins
<1>7. ASSUME NEW c \in Nat
      PROVE  TPHits(t)[c] = TPHits(u)[c] + (IF e.channel = c THEN 1 ELSE 0)
  <2>1. PICK w \in [TriggerPrimitive -> Nat] :
          w = TPWeight(c) /\ w[e] = IF e.channel = c THEN 1 ELSE 0
    BY TPWeightType
  <2>2. Weight(t, w) = Weight(o, w) + Weight(u, w)  BY <1>6, WeightOfParts
  <2>3. Weight(o, w) = w[e]  BY <1>5, WeightOfOne
  <2>4. PICK x \in Nat, y \in Nat : x = Weight(u, w) /\ y = w[e]
    <3>1. Weight(u, w) \in Nat  BY WeightStep
    <3>2. w[e] \in Nat  OBVIOUS
    <3> QED  BY <3>1, <3>2
  <2>5. TPHits(t)[c] = Weight(t, w) /\ TPHits(u)[c] = Weight(u, w)  BY <2>1 DEF TPHits
  <2>6. y + x = x + y  OBVIOUS
  <2> QED  BY <2>1, <2>2, <2>3, <2>4, <2>5, <2>6
<1> QED  BY <1>1, <1>2, <1>3, <1>4, <1>7 DEF OneMore

\* The loop of move() over the TPs in front takes theirs off.
LEMMA UnhitFrontSteps ==
  ASSUME NEW w, w.inputs \in Seq(TriggerPrimitive), w.channel_states \in CountMaps(Channels),
         NEW n \in 0 .. Len(w.inputs)
  PROVE  \E g \in [0 .. n -> CountMaps(Channels)] :
           /\ g[0] = w.channel_states /\ unhit_front(w, n) = g[n]
           /\ \A k \in 1 .. n : g[k] = unhit(g[k - 1], w.inputs[k].channel)
<1> DEFINE V == CountMaps(Channels)
           Runs(g) == g = [k \in 0 .. n |-> IF k = 0 THEN w.channel_states
                                            ELSE unhit(g[k - 1], w.inputs[k].channel)]
<1>1. /\ n \in Nat
      /\ \A k \in 1 .. n : w.inputs[k].channel \in Channels
  <2>1. \A k \in 1 .. n : w.inputs[k] \in TriggerPrimitive  OBVIOUS
  <2> QED  BY <2>1, TPChannel
<1>2. PICK first \in V : first = w.channel_states  OBVIOUS
<1>3. PICK ch : ch = [k \in 1 .. n |-> w.inputs[k].channel]  OBVIOUS
<1>4. ASSUME NEW v \in V, NEW k \in 1 .. n PROVE unhit(v, ch[k]) \in V
  BY <1>1, <1>3, HitType
<1>5. PICK step : step = [k \in 1 .. n |-> [v \in V |-> unhit(v, ch[k])]]  OBVIOUS
<1>6. step \in [1 .. n -> [V -> V]]  BY <1>4, <1>5
<1>7. PICK g \in [0 .. n -> V] : g[0] = first /\ \A k \in 1 .. n : g[k] = step[k][g[k - 1]]
  <2>1. LoopRuns(V, first, n, step) # {}  BY <1>1, <1>6, LoopHasARun
  <2> QED  BY <2>1 DEF LoopRuns
<1>8. Runs(g)
  <2>1. ASSUME NEW k \in 1 .. n PROVE g[k] = unhit(g[k - 1], w.inputs[k].channel)
    <3>1. k - 1 \in 0 .. n /\ g[k - 1] \in V  BY <1>1
    <3> QED  BY <1>3, <1>5, <1>7, <3>1
  <2>2. \A k \in 0 .. n : k = 0 \/ k \in 1 .. n  OBVIOUS
  <2> QED  BY <1>2, <1>7, <2>1, <2>2
<1> DEFINE f == CHOOSE h : Runs(h)
<1>9. unhit_front(w, n) = f[n]  BY DEF unhit_front
<1> HIDE DEF Runs
<1>10. Runs(f)  BY <1>8
<1> HIDE DEF f
<1>11. /\ 0 \in 0 .. n /\ n \in 0 .. n
       /\ \A k \in 1 .. n : k \in 0 .. n /\ k # 0 /\ k - 1 \in 0 .. n
  BY <1>1
<1>12. /\ f[0] = w.channel_states
       /\ \A k \in 1 .. n : f[k] = unhit(f[k - 1], w.inputs[k].channel)
  BY <1>10, <1>11 DEF Runs
<1> DEFINE T == { k \in 0 .. n : f[k] \in V }
<1>13. 0 \in T  BY <1>2, <1>11, <1>12
<1>14. \A k \in 1 .. n : k - 1 \in T => k \in T  BY <1>3, <1>4, <1>11, <1>12
<1> HIDE DEF T
<1>15. \A k \in 0 .. n : k \in T  BY <1>1, <1>13, <1>14, InductionUpTo
<1>16. f \in [0 .. n -> V]
  <2>1. f = [k \in 0 .. n |-> f[k]]  BY <1>10 DEF Runs
  <2>2. \A k \in 0 .. n : f[k] \in V  BY <1>15 DEF T
  <2> QED  BY <2>1, <2>2
<1> QED  BY <1>9, <1>12, <1>16

LEMMA UnhitFrontCounts ==
  ASSUME NEW w, w.inputs \in Seq(TriggerPrimitive), w.channel_states \in CountMaps(Channels),
         Counted(w.channel_states, TPHits(w.inputs)), NEW n \in 0 .. Len(w.inputs)
  PROVE  /\ unhit_front(w, n) \in CountMaps(Channels)
         /\ Counted(unhit_front(w, n), TPHits(SubSeq(w.inputs, n + 1, Len(w.inputs))))
<1>1. PICK s \in Seq(TriggerPrimitive) : s = w.inputs  OBVIOUS
<1>2. PICK g \in [0 .. n -> CountMaps(Channels)] :
        /\ g[0] = w.channel_states /\ unhit_front(w, n) = g[n]
        /\ \A k \in 1 .. n : g[k] = unhit(g[k - 1], s[k].channel)
  BY <1>1, UnhitFrontSteps
<1> DEFINE left(k) == TPHits(SubSeq(s, k + 1, Len(s)))
           T == { k \in 0 .. n : Counted(g[k], left(k)) }
<1>3. n \in Nat /\ n <= Len(s)  BY <1>1
<1>4. 0 \in T
  <2>1. SubSeq(s, 1, Len(s)) = s  BY SubSeqFull
  <2>2. 0 \in 0 .. n /\ 0 + 1 = 1  BY <1>3
  <2>3. left(0) = TPHits(s)  BY <2>1, <2>2
  <2>4. Counted(g[0], left(0))  BY <1>1, <1>2, <2>3
  <2> QED  BY <2>2, <2>4
<1>5. ASSUME NEW k \in 1 .. n, k - 1 \in T PROVE k \in T
  <2>1. k \in 1 .. Len(s) /\ k \in 0 .. n /\ (k - 1) + 1 = k /\ s[k] \in TriggerPrimitive
    BY <1>3
  <2>2. PICK a : a = TPHits(SubSeq(s, k, Len(s))) /\ Counted(g[k - 1], a)  BY <1>5, <2>1
  <2>3. PICK b \in Tallies : b = left(k)
    <3>1. SubSeq(s, k + 1, Len(s)) \in Seq(TriggerPrimitive)  BY <2>1
    <3> QED  BY <3>1, TPHitsType
  <2>4. PICK ch \in Nat : ch = s[k].channel  BY <2>1, TPChannel
  <2>5. OneMore(a, b, ch)  BY <2>1, <2>2, <2>3, <2>4, TPHitsFrom
  <2>6. Counted(unhit(g[k - 1], ch), b)  BY <2>2, <2>5, UnhitCounts
  <2> QED  BY <1>2, <2>1, <2>3, <2>4, <2>6
<1> HIDE DEF T
<1>6. \A k \in 0 .. n : k \in T  BY <1>3, <1>4, <1>5, InductionUpTo
<1>7. n \in 0 .. n  BY <1>3
<1>8. Counted(g[n], left(n)) /\ g[n] \in CountMaps(Channels)  BY <1>6, <1>7 DEF T
<1> QED  BY <1>1, <1>2, <1>8

\* A window whose counts say which channels its TPs have hit, and how often.
Kept(w) == w \in Windows /\ Counted(w.channel_states, TPHits(w.inputs))

LEMMA KeptParts ==
  ASSUME NEW w, Kept(w)
  PROVE  /\ w \in Windows
         /\ w.time_start \in Timestamps /\ w.adc_integral \in 0 .. AdcModulus - 1
         /\ w.channel_states \in CountMaps(Channels) /\ w.inputs \in Seq(TriggerPrimitive)
         /\ Counted(w.channel_states, TPHits(w.inputs))
BY DEF Kept, Windows

LEMMA AWindow ==
  ASSUME NEW t \in Timestamps, NEW a \in 0 .. AdcModulus - 1, NEW m \in CountMaps(Channels),
         NEW l \in Seq(TriggerPrimitive), Counted(m, TPHits(l))
  PROVE  Kept([time_start |-> t, adc_integral |-> a, channel_states |-> m, inputs |-> l])
<1>1. PICK w : w = [time_start |-> t, adc_integral |-> a, channel_states |-> m, inputs |-> l]
  OBVIOUS
<1>2. w.channel_states = m /\ w.inputs = l  BY <1>1
<1>3. w \in Windows  BY <1>1 DEF Windows
<1> QED  BY <1>1, <1>2, <1>3 DEF Kept

LEMMA EmptyIsKept == Kept(EmptyWindow)
<1>1. 0 \in Timestamps /\ 0 \in 0 .. AdcModulus - 1
  BY TimeModulusAssumption, TPWindowAssumption DEF Timestamps
<1>2. <<>> \in Seq(TriggerPrimitive)  OBVIOUS
<1>3. <<>> \in CountMaps(Channels)  BY EmptyMapType
<1>4. Counted(<<>>, TPHits(<<>>))  BY TPHitsNone, NoneCounted
<1> QED  BY <1>1, <1>2, <1>3, <1>4, AWindow DEF EmptyWindow

LEMMA OneHitKept ==
  ASSUME NEW s \in Seq(TriggerPrimitive), NEW states \in CountMaps(Channels),
         Counted(states, TPHits(s)), NEW tp \in TriggerPrimitive
  PROVE  /\ hit(states, tp.channel) \in CountMaps(Channels)
         /\ Counted(hit(states, tp.channel), TPHits(Append(s, tp)))
<1>1. PICK ch : ch = tp.channel /\ ch \in Channels /\ ch \in Nat  BY TPChannel
<1>2. hit(states, ch) \in CountMaps(Channels)  BY <1>1, HitType
<1>3. PICK f \in Tallies : f = TPHits(s)  BY TPHitsType
<1>4. OneMore(TPHits(Append(s, tp)), f, ch)  BY <1>1, <1>3, TPHitsAppend
<1>5. Counted(hit(states, ch), TPHits(Append(s, tp)))  BY <1>1, <1>3, <1>4, HitCounts
<1> QED  BY <1>1, <1>2, <1>5

LEMMA ResetKept ==
  ASSUME NEW w, NEW tp \in TriggerPrimitive
  PROVE  Kept(reset(w, tp))
<1>1. PICK m : m = hit(<<>>, tp.channel)  OBVIOUS
<1>2. PICK l \in Seq(TriggerPrimitive) : l = <<tp>> /\ l = Append(<<>>, tp)
  <2>1. <<tp>> \in Seq(TriggerPrimitive) /\ <<tp>> = Append(<<>>, tp)  OBVIOUS
  <2> QED  BY <2>1
<1>3. m \in CountMaps(Channels) /\ Counted(m, TPHits(l))
  <2>1. <<>> \in CountMaps(Channels)  BY EmptyMapType
  <2>2. Counted(<<>>, TPHits(<<>>))  BY TPHitsNone, NoneCounted
  <2>3. <<>> \in Seq(TriggerPrimitive)  OBVIOUS
  <2> QED  BY <1>1, <1>2, <2>1, <2>2, <2>3, OneHitKept
<1>4. PICK t \in Timestamps, a \in 0 .. AdcModulus - 1 : t = tp.time_start /\ a = tp.adc_integral
  BY TPType
<1>5. reset(w, tp) = [time_start |-> t, adc_integral |-> a, channel_states |-> m, inputs |-> l]
  BY <1>1, <1>2, <1>4 DEF reset
<1> QED  BY <1>3, <1>5, AWindow

LEMMA AddKept ==
  ASSUME NEW w, Kept(w), NEW tp \in TriggerPrimitive
  PROVE  Kept(add(w, tp))
<1>1. PICK s \in Seq(TriggerPrimitive) : s = w.inputs  BY KeptParts
<1>2. PICK states \in CountMaps(Channels) :
        states = w.channel_states /\ Counted(states, TPHits(s))
  BY <1>1, KeptParts
<1>3. PICK l \in Seq(TriggerPrimitive) : l = Append(s, tp)
  <2>1. Append(s, tp) \in Seq(TriggerPrimitive)  OBVIOUS
  <2> QED  BY <2>1
<1>4. PICK m : m = hit(states, tp.channel)  OBVIOUS
<1>5. m \in CountMaps(Channels) /\ Counted(m, TPHits(l))  BY <1>2, <1>3, <1>4, OneHitKept
<1>6. PICK t \in Timestamps : t = w.time_start  BY KeptParts
<1>7. PICK a \in 0 .. AdcModulus - 1 : a = UIntPlus(w.adc_integral, tp.adc_integral, AdcModulus)
  <2>1. PICK x \in Nat, y \in Nat : x = w.adc_integral /\ y = tp.adc_integral
    BY KeptParts, TPType
  <2>2. (x + y) % AdcModulus \in 0 .. AdcModulus - 1  BY TPWindowAssumption
  <2> QED  BY <2>1, <2>2 DEF UIntPlus
<1>8. add(w, tp) = [time_start |-> t, adc_integral |-> a, channel_states |-> m, inputs |-> l]
  BY <1>1, <1>2, <1>3, <1>4, <1>6, <1>7 DEF add
<1> QED  BY <1>5, <1>8, AWindow

LEMMA EraseKept ==
  ASSUME NEW w, Kept(w), NEW n \in 0 .. Len(w.inputs), n < Len(w.inputs)
  PROVE  Kept(erase_front(w, n))
<1>1. PICK s \in Seq(TriggerPrimitive) : s = w.inputs  BY KeptParts
<1>2. PICK l \in Seq(TriggerPrimitive) : l = SubSeq(s, n + 1, Len(s))
  <2>1. SubSeq(s, n + 1, Len(s)) \in Seq(TriggerPrimitive)  BY <1>1, EndOfList
  <2> QED  BY <2>1
<1>3. PICK t \in Timestamps : t = w.inputs[n + 1].time_start
  <2>1. s[n + 1] \in TriggerPrimitive  BY <1>1
  <2> QED  BY <1>1, <2>1, TPType
<1>4. PICK a \in 0 .. AdcModulus - 1 : a = (w.adc_integral - TotalAdc(SubSeq(s, 1, n))) % AdcModulus
  <2>1. PICK gone \in Seq(TriggerPrimitive) : gone = SubSeq(s, 1, n)
    <3>1. SubSeq(s, 1, n) \in Seq(TriggerPrimitive)  BY <1>1
    <3> QED  BY <3>1
  <2>2. \A e \in TriggerPrimitive : e.adc_integral \in Nat  BY TPType
  <2>3. PICK x \in Int : x = w.adc_integral
    <3>1. w.adc_integral \in 0 .. AdcModulus - 1  BY KeptParts
    <3>2. 0 .. AdcModulus - 1 \subseteq Int  BY TPWindowAssumption
    <3> QED  BY <3>1, <3>2
  <2>5. PICK y \in Int : y = TotalAdc(gone)
    <3>1. TotalAdc(gone) \in Nat  BY <2>2, TotalAdcType
    <3> QED  BY <3>1
  <2>4. (x - y) % AdcModulus \in 0 .. AdcModulus - 1  BY TPWindowAssumption
  <2> QED  BY <2>1, <2>3, <2>4, <2>5
<1>5. PICK m : m = unhit_front(w, n)  OBVIOUS
<1>6. m \in CountMaps(Channels) /\ Counted(m, TPHits(l))
  BY <1>1, <1>2, <1>5, KeptParts, UnhitFrontCounts
<1>7. erase_front(w, n) = [time_start |-> t, adc_integral |-> a, channel_states |-> m, inputs |-> l]
  BY <1>1, <1>2, <1>3, <1>4, <1>5 DEF erase_front
<1> QED  BY <1>6, <1>7, AWindow

LEMMA MoveKept ==
  ASSUME NEW w, Kept(w), NEW length, NEW tp \in TriggerPrimitive
  PROVE  Kept(move(w, tp, length))
<1>1. w.inputs \in Seq(TriggerPrimitive)  BY KeptParts
<1>2. PICK n \in 0 .. Len(w.inputs) : n = n_to_erase(w.inputs, tp.time_start, length)
  BY <1>1, NToErase
<1>3. CASE n < Len(w.inputs)
  <2>1. move(w, tp, length) = add(erase_front(w, n), tp)  BY <1>2, <1>3 DEF move
  <2> QED  BY <1>3, <2>1, EraseKept, AddKept
<1>4. CASE ~ (n < Len(w.inputs))
  <2>1. move(w, tp, length) = reset(w, tp)  BY <1>2, <1>4 DEF move
  <2> QED  BY <2>1, ResetKept
<1> QED  BY <1>3, <1>4

-----------------------------------------------------------------------------
(* The window ChannelAdjacency makes anew *)

LEMMA EmptyType == EmptyWindow \in Windows
BY EmptyIsKept DEF Kept

LEMMA AddType ==
  ASSUME NEW w \in Windows, NEW tp \in TriggerPrimitive
  PROVE  add(w, tp) \in Windows
<1>1. PICK states \in CountMaps(Channels) : states = w.channel_states  BY DEF Windows
<1>2. PICK ch \in Channels : ch = tp.channel  BY TPChannel
<1>3. hit(states, ch) \in CountMaps(Channels)  BY <1>1, <1>2, HitType, TPChannel
<1>4. UIntPlus(w.adc_integral, tp.adc_integral, AdcModulus) \in 0 .. AdcModulus - 1
  <2>1. PICK x \in Nat, y \in Nat : x = w.adc_integral /\ y = tp.adc_integral
    BY TPType DEF Windows
  <2>2. (x + y) % AdcModulus \in 0 .. AdcModulus - 1  BY TPWindowAssumption
  <2> QED  BY <2>1, <2>2 DEF UIntPlus
<1>5. w.time_start \in Timestamps /\ Append(w.inputs, tp) \in Seq(TriggerPrimitive)
  BY DEF Windows
<1> QED  BY <1>1, <1>2, <1>3, <1>4, <1>5 DEF add, Windows

\* The loop starts with an empty window and looks at one TP after another.
LEMMA RemadeSteps ==
  ASSUME NEW w, w.inputs \in Seq(TriggerPrimitive), NEW track
  PROVE  /\ remade(w, track)[0] = EmptyWindow
         /\ \A n \in 1 .. Len(w.inputs) :
              remade(w, track)[n] = unless_on(track, remade(w, track)[n - 1], w.inputs[n])
<1> DEFINE N == Len(w.inputs)
           Runs(g) == g = [n \in 0 .. N |->
                             IF n = 0 THEN EmptyWindow
                             ELSE unless_on(track, g[n - 1], w.inputs[n])]
<1>1. N \in Nat /\ \A n \in 1 .. N : w.inputs[n] \in TriggerPrimitive  OBVIOUS
<1> HIDE DEF N
<1>2. ASSUME NEW v \in Windows, NEW n \in 1 .. N
      PROVE  unless_on(track, v, w.inputs[n]) \in Windows
  BY <1>1, AddType DEF unless_on
<1>3. PICK step : step = [n \in 1 .. N |->
                            [v \in Windows |-> unless_on(track, v, w.inputs[n])]]
  OBVIOUS
<1>4. step \in [1 .. N -> [Windows -> Windows]]  BY <1>2, <1>3
<1>5. PICK g \in [0 .. N -> Windows] :
        g[0] = EmptyWindow /\ \A n \in 1 .. N : g[n] = step[n][g[n - 1]]
  <2>1. LoopRuns(Windows, EmptyWindow, N, step) # {}
    BY <1>1, <1>4, EmptyType, LoopHasARun
  <2> QED  BY <2>1 DEF LoopRuns
<1>6. Runs(g)
  <2>1. ASSUME NEW n \in 1 .. N PROVE g[n] = unless_on(track, g[n - 1], w.inputs[n])
    <3>1. n - 1 \in 0 .. N /\ g[n - 1] \in Windows  BY <1>1
    <3> QED  BY <1>3, <1>5, <3>1
  <2>2. \A n \in 0 .. N : n = 0 \/ n \in 1 .. N  OBVIOUS
  <2> QED  BY <1>5, <2>1, <2>2
<1>7. remade(w, track) = CHOOSE f : Runs(f)
  BY DEF remade, clear, N
<1> HIDE DEF Runs
<1>8. Runs(remade(w, track))  BY <1>6, <1>7
<1>9. \A n \in 1 .. N : n \in 0 .. N /\ n # 0  OBVIOUS
<1>10. 0 \in 0 .. N  BY <1>1
<1> QED  BY <1>8, <1>9, <1>10 DEF Runs, N

\* After n TPs: some of them and none of the track, with their charge and counts; all of
\* them when there is no track, and not all of them when one is of the track.
MadeOf(u, w, track, n) ==
  /\ Kept(u) /\ Charged(u)
  /\ Range(u.inputs) \subseteq Range(w.inputs) /\ Range(u.inputs) \cap Range(track.inputs) = {}
  /\ Len(u.inputs) <= n
  /\ track.inputs = <<>> =>
       Len(u.inputs) = n /\ \A i \in 1 .. n : u.inputs[i] = w.inputs[i]
  /\ (\E i \in 1 .. n : w.inputs[i] \in Range(track.inputs)) => Len(u.inputs) < n

LEMMA OneMoreMade ==
  ASSUME NEW w, w.inputs \in Seq(TriggerPrimitive), NEW track,
         NEW n \in 1 .. Len(w.inputs), NEW u, MadeOf(u, w, track, n - 1)
  PROVE  MadeOf(unless_on(track, u, w.inputs[n]), w, track, n)
<1>1. PICK tp \in TriggerPrimitive : tp = w.inputs[n] /\ tp \in Range(w.inputs)
  <2>1. n \in DOMAIN w.inputs /\ w.inputs[n] \in TriggerPrimitive  OBVIOUS
  <2> QED  BY <2>1 DEF Range
<1>2. /\ Kept(u) /\ Charged(u) /\ Range(u.inputs) \subseteq Range(w.inputs)
      /\ Len(u.inputs) <= n - 1 /\ u.inputs \in Seq(TriggerPrimitive)
  BY KeptParts DEF MadeOf
<1>3. PICK v : v = unless_on(track, u, tp)  OBVIOUS
<1>4. CASE \E i \in DOMAIN track.inputs : track.inputs[i].channel = tp.channel
  <2>1. v = u  BY <1>3, <1>4 DEF unless_on
  <2>2. track.inputs # <<>>
    <3>1. DOMAIN <<>> = {}  OBVIOUS
    <3> QED  BY <1>4, <3>1
  <2>3. Len(u.inputs) \in Nat /\ Len(u.inputs) <= n /\ Len(u.inputs) < n  BY <1>2
  <2> QED  BY <1>1, <1>2, <1>3, <2>1, <2>2, <2>3 DEF MadeOf
<1>5. CASE ~ (\E i \in DOMAIN track.inputs : track.inputs[i].channel = tp.channel)
  <2>1. v = add(u, tp)  BY <1>3, <1>5 DEF unless_on
  <2>2. Charged(v) /\ v.inputs = Append(u.inputs, tp)  BY <1>2, <2>1, AddCharges
  <2>3. Kept(v)  BY <1>2, <2>1, AddKept
  <2>4. Range(v.inputs) = Range(u.inputs) \cup {tp}
    BY <1>2, <2>2, RangeOfAppend
  <2>5. PICK m \in Nat :
          /\ m = Len(u.inputs) /\ Len(v.inputs) = m + 1 /\ v.inputs[m + 1] = tp
          /\ \A i \in 1 .. m : v.inputs[i] = u.inputs[i]
    <3>1. PICK tps \in Seq(TriggerPrimitive) : tps = u.inputs  BY <1>2
    <3>2. PICK m \in Nat : m = Len(tps)  OBVIOUS
    <3>3. /\ Len(Append(tps, tp)) = m + 1 /\ Append(tps, tp)[m + 1] = tp
          /\ \A i \in 1 .. m : Append(tps, tp)[i] = tps[i]
      BY <3>2
    <3> QED  BY <2>2, <3>1, <3>2, <3>3
  <2>6. m <= n - 1 /\ Len(v.inputs) <= n  BY <1>2, <2>5
  <2>7. ASSUME track.inputs = <<>>
        PROVE  Len(v.inputs) = n /\ \A i \in 1 .. n : v.inputs[i] = w.inputs[i]
    <3>1. m = n - 1 /\ \A i \in 1 .. (n - 1) : u.inputs[i] = w.inputs[i]
      BY <2>5, <2>7 DEF MadeOf
    <3>2. \A i \in 1 .. n : i \in 1 .. (n - 1) \/ i = n  OBVIOUS
    <3> QED  BY <1>1, <2>5, <3>1, <3>2
  <2>8. tp \notin Range(track.inputs)  BY <1>5 DEF Range
  <2>9. ASSUME NEW i \in 1 .. n, w.inputs[i] \in Range(track.inputs)
        PROVE  Len(v.inputs) < n
    <3>1. i \in 1 .. (n - 1)  BY <1>1, <2>8, <2>9
    <3>2. m < n - 1  BY <2>5, <2>9, <3>1 DEF MadeOf
    <3> QED  BY <2>5, <3>2
  <2>10. Range(u.inputs) \cap Range(track.inputs) = {}  BY DEF MadeOf
  <2>11. /\ Range(v.inputs) \subseteq Range(w.inputs)
         /\ Range(v.inputs) \cap Range(track.inputs) = {}
    BY <1>1, <1>2, <2>4, <2>8, <2>10
  <2> QED  BY <1>1, <1>2, <1>3, <2>2, <2>3, <2>6, <2>7, <2>9, <2>11 DEF MadeOf
<1> QED  BY <1>4, <1>5

LEMMA WithoutMade ==
  ASSUME NEW w, w.inputs \in Seq(TriggerPrimitive), NEW track
  PROVE  MadeOf(without(w, track), w, track, Len(w.inputs))
<1> DEFINE N == Len(w.inputs)
           T == { n \in 0 .. N : MadeOf(remade(w, track)[n], w, track, n) }
<1>1. N \in Nat  OBVIOUS
<1>2. 0 \in T
  <2>1. MadeOf(EmptyWindow, w, track, 0)
    <3>1. Charged(EmptyWindow)
      BY EmptyKept DEF WellKept, ListKept
    <3>2. EmptyWindow.inputs = <<>> /\ Len(<<>>) = 0  BY DEF EmptyWindow
    <3> QED  BY <3>1, <3>2, EmptyIsKept, RangeOfNone DEF MadeOf
  <2>2. remade(w, track)[0] = EmptyWindow  BY RemadeSteps
  <2> QED  BY <2>1, <2>2
<1>3. ASSUME NEW n \in 1 .. N, n - 1 \in T PROVE n \in T
  <2>1. PICK u : u = remade(w, track)[n - 1]  OBVIOUS
  <2>2. remade(w, track)[n] = unless_on(track, u, w.inputs[n])  BY <2>1, RemadeSteps
  <2>3. MadeOf(u, w, track, n - 1)  BY <1>3, <2>1
  <2>4. MadeOf(remade(w, track)[n], w, track, n)  BY <2>2, <2>3, OneMoreMade
  <2>5. n \in 0 .. N  OBVIOUS
  <2> QED  BY <2>4, <2>5
<1> HIDE DEF T
<1>4. \A n \in 0 .. N : n \in T  BY <1>1, <1>2, <1>3, InductionUpTo
<1>5. N \in T  BY <1>1, <1>4
<1>6. without(w, track) = remade(w, track)[N]  BY DEF without
<1> QED  BY <1>5, <1>6 DEF T

-----------------------------------------------------------------------------
(* The TPs sorted by channel *)

\* Each number of TPs is in front of one TP: no two TPs have as many in front
\* of them, for one of the two is in front of the other.
LEMMA PlacesByChannel ==
  ASSUME NEW tps \in Seq(TriggerPrimitive), NEW k \in 1 .. Len(tps)
  PROVE  \E i \in DOMAIN tps : Cardinality(before(tps, i)) = k - 1
<1>1. PICK N \in Nat : N = Len(tps) /\ DOMAIN tps = 1 .. N  OBVIOUS
<1>2. PICK ch \in [1 .. N -> Nat] : \A i \in 1 .. N : ch[i] = tps[i].channel
  <2>1. ASSUME NEW i \in 1 .. N PROVE tps[i].channel \in Nat
    <3>1. tps[i] \in TriggerPrimitive  BY <1>1
    <3> QED  BY <3>1, TPAssumption DEF TriggerPrimitive, Channels
  <2>2. [i \in 1 .. N |-> tps[i].channel] \in [1 .. N -> Nat]  BY <2>1
  <2> QED  BY <2>2
<1>3. PICK front :
        front = [i \in 1 .. N |-> { j \in 1 .. N : ch[j] < ch[i] \/ (ch[j] = ch[i] /\ j < i) }]
  OBVIOUS
<1>4. ASSUME NEW i \in 1 .. N PROVE before(tps, i) = front[i]
  BY <1>1, <1>2, <1>3 DEF before
<1>5. ASSUME NEW i \in 1 .. N
      PROVE  IsFiniteSet(front[i]) /\ Cardinality(front[i]) \in 0 .. N - 1
  <2>1. IsFiniteSet(1 .. N) /\ Cardinality(1 .. N) = N  BY FS_Interval
  <2>2. front[i] \in SUBSET (1 .. N) /\ i \notin front[i]  BY <1>2, <1>3
  <2>3. /\ IsFiniteSet(front[i]) /\ Cardinality(front[i]) <= N
        /\ Cardinality(front[i]) = N => front[i] = 1 .. N
    BY <2>1, <2>2, FS_Subset
  <2>4. Cardinality(front[i]) \in Nat  BY <2>3, FS_CardinalityType
  <2>5. Cardinality(front[i]) # N  BY <2>2, <2>3
  <2> QED  BY <2>3, <2>4, <2>5
<1>6. ASSUME NEW i \in 1 .. N, NEW j \in 1 .. N, i \in front[j]
      PROVE  Cardinality(front[i]) # Cardinality(front[j])
  <2>1. front[i] \in SUBSET front[j] /\ i \notin front[i]
    <3>1. ch[i] \in Nat /\ ch[j] \in Nat  BY <1>2
    <3>2. ch[i] < ch[j] \/ (ch[i] = ch[j] /\ i < j)  BY <1>3, <1>6
    <3>3. ASSUME NEW x \in front[i] PROVE x \in front[j]
      <4>1. x \in 1 .. N /\ ch[x] \in Nat /\ (ch[x] < ch[i] \/ (ch[x] = ch[i] /\ x < i))
        BY <1>2, <1>3
      <4>2. PICK a \in Nat, b \in Nat, c \in Nat : a = ch[x] /\ b = ch[i] /\ c = ch[j]
        BY <3>1, <4>1
      <4>3. (a < b \/ (a = b /\ x < i)) /\ (b < c \/ (b = c /\ i < j))
        BY <3>2, <4>1, <4>2
      <4>4. a < c \/ (a = c /\ x < j)  BY <4>1, <4>3
      <4> QED  BY <1>3, <4>1, <4>2, <4>4
    <3>4. i \notin front[i]  BY <1>3, <3>1
    <3> QED  BY <3>3, <3>4
  <2>2. IsFiniteSet(front[j])  BY <1>5
  <2>3. Cardinality(front[j]) = Cardinality(front[i]) => front[j] = front[i]
    BY <2>1, <2>2, FS_Subset
  <2> QED  BY <1>6, <2>1, <2>3
<1>7. ASSUME NEW i \in 1 .. N, NEW j \in 1 .. N, i # j
      PROVE  Cardinality(front[i]) # Cardinality(front[j])
  <2>1. i \in front[j] \/ j \in front[i]  BY <1>2, <1>3, <1>7
  <2> QED  BY <1>6, <2>1
<1>8. SUFFICES ASSUME \A i \in 1 .. N : Cardinality(front[i]) # k - 1
               PROVE  FALSE
  BY <1>1, <1>4
<1>9. PICK holes : holes = (0 .. N - 1) \ {k - 1}  OBVIOUS
<1>10. PICK c : c = [i \in 1 .. N |-> Cardinality(front[i])]  OBVIOUS
<1>11. c \in [1 .. N -> holes]  BY <1>5, <1>8, <1>9, <1>10
<1>12. IsFiniteSet(holes) /\ Cardinality(holes) = N - 1
  <2>1. IsFiniteSet(0 .. N - 1) /\ Cardinality(0 .. N - 1) = N
    <3>1. 0 \in Int /\ N - 1 \in Int /\ N >= 1  BY <1>1
    <3>2. IsFiniteSet(0 .. N - 1) /\ Cardinality(0 .. N - 1) = IF 0 > N - 1 THEN 0 ELSE (N - 1) - 0 + 1
      BY <3>1, FS_Interval
    <3> QED  BY <3>1, <3>2
  <2>2. k - 1 \in 0 .. N - 1  BY <1>1
  <2> QED  BY <1>9, <2>1, <2>2, FS_RemoveElement
<1>13. IsFiniteSet(1 .. N) /\ Cardinality(1 .. N) = N  BY FS_Interval
<1>14. Cardinality(holes) < Cardinality(1 .. N)  BY <1>12, <1>13
<1>15. \E i, j \in 1 .. N : i # j /\ c[i] = c[j]
  BY <1>11, <1>12, <1>13, <1>14, FS_PigeonHole
<1> QED  BY <1>7, <1>10, <1>15

\* So the sorted list is one of the same length, of the same TPs.
LEMMA ByChannel ==
  ASSUME NEW tps \in Seq(TriggerPrimitive)
  PROVE  /\ by_channel(tps) \in Seq(TriggerPrimitive)
         /\ Len(by_channel(tps)) = Len(tps)
         /\ Range(by_channel(tps)) \subseteq Range(tps)
<1> DEFINE place(k) == CHOOSE i \in DOMAIN tps : Cardinality(before(tps, i)) = k - 1
           s == [k \in DOMAIN tps |-> tps[place(k)]]
<1>1. PICK N \in Nat : N = Len(tps) /\ DOMAIN tps = 1 .. N  OBVIOUS
<1>2. ASSUME NEW k \in 1 .. N PROVE place(k) \in DOMAIN tps
  <2>1. \E i \in DOMAIN tps : Cardinality(before(tps, i)) = k - 1
    BY <1>1, PlacesByChannel
  <2> QED  BY <2>1
<1>3. by_channel(tps) = SubSeq(s, 1, Len(tps))  BY DEF by_channel
<1> HIDE DEF place
<1>4. \A k \in 1 .. N : s[k] = tps[place(k)] /\ s[k] \in Range(tps) /\ s[k] \in TriggerPrimitive
  BY <1>1, <1>2 DEF Range
<1>5. s \in Seq(TriggerPrimitive) /\ Len(s) = N /\ DOMAIN s = 1 .. N
  <2>1. s = [k \in 1 .. N |-> s[k]]  BY <1>1
  <2> HIDE DEF s
  <2>2. s \in [1 .. N -> TriggerPrimitive]  BY <1>4, <2>1
  <2> QED  BY <2>1, <2>2, SeqDef
<1> HIDE DEF s
<1>6. PICK list : list = by_channel(tps)  OBVIOUS
<1>7. /\ list \in Seq(TriggerPrimitive) /\ Len(list) = N /\ DOMAIN list = 1 .. N
      /\ \A k \in 1 .. N : list[k] = s[k]
  <2>1. list = SubSeq(s, 1, N)  BY <1>1, <1>3, <1>6
  <2> QED  BY <1>5, <2>1
<1>8. Range(list) \subseteq Range(tps)  BY <1>4, <1>7 DEF Range
<1> QED  BY <1>1, <1>6, <1>7, <1>8

-----------------------------------------------------------------------------
(* The tracks ChannelAdjacency takes out of its window *)

\* check_adjacency(), hit by hit: the gap to the next one, the track so far, and
\* what the hit makes of it.
SearchGap(list, i) == IF i = Len(list) THEN ChannelModulus - 1
                      ELSE list[i + 1].channel - list[i].channel
Begun(list, i, s) == IF is_empty(s.win_adj) THEN add(s.win_adj, list[i]) ELSE s.win_adj
GoneOn(list, i, s) ==
  [s EXCEPT !.win_adj = add(Begun(list, i, s), list[i + 1]),
            !.tol_count = @ + SearchGap(list, i) - 1]
Ended(list, i, s) ==
  [win_adj |-> EmptyWindow, tol_count |-> 0,
   found |-> IF long_enough(Begun(list, i, s)) THEN Begun(list, i, s) ELSE EmptyWindow]
Searched(list, i, s) ==
  IF ~ is_empty(s.found) \/ SearchGap(list, i) = 0 THEN s
  ELSE IF reaches(SearchGap(list, i), s.tol_count) THEN GoneOn(list, i, s) ELSE Ended(list, i, s)
NoTrackYet(g) == [win_adj |-> unset_window(g), tol_count |-> 0, found |-> EmptyWindow]

\* A track: the charge of its TPs, on top of what the memory held.
TrackCharges(tps) == { (o + TotalAdc(tps)) % AdcModulus : o \in {0} \cup Uninitialised }
Loaded(u) == IsWindow(u) /\ u.adc_integral \in TrackCharges(u.inputs)

TracksIn(w) ==
  { u \in Windows : Kept(u) /\ Loaded(u) /\ Range(u.inputs) \subseteq Range(w.inputs) }
Searches(w) == [win_adj : TracksIn(w), tol_count : Int, found : TracksIn(w)]

SearchOf(w, g, f) ==
  /\ f[0] = NoTrackYet(g)
  /\ \A i \in 1 .. Len(w.inputs) : f[i] = Searched(by_channel(w.inputs), i, f[i - 1])
  /\ \A i \in 0 .. Len(w.inputs) : f[i] \in Searches(w)
  /\ check_adjacency_ca(w, g) = f[Len(w.inputs)].found

\* The gap that ends the list is out of reach.
LEMMA EndOutOfReach ==
  ASSUME NEW list \in Seq(TriggerPrimitive), NEW i \in 1 .. Len(list)
  PROVE  /\ SearchGap(list, i) \in Int
         /\ i = Len(list) => SearchGap(list, i) # 0
         /\ \A tol : reaches(SearchGap(list, i), tol) => i # Len(list)
<1>1. PICK N \in Nat : N = Len(list) /\ DOMAIN list = 1 .. N  OBVIOUS
<1>2. PICK M \in Nat : M = ChannelModulus - 1 /\ M # 0 /\ M # 1 /\ M \notin 2 .. 5
  BY AdjacencyAssumption
<1>3. CASE i = N
  <2>1. SearchGap(list, i) = M  BY <1>1, <1>2, <1>3 DEF SearchGap
  <2> QED  BY <1>1, <1>2, <2>1 DEF reaches
<1>4. CASE i # N
  <2>1. list[i] \in TriggerPrimitive /\ list[i + 1] \in TriggerPrimitive  BY <1>1, <1>4
  <2>2. PICK a \in Nat, b \in Nat : a = list[i].channel /\ b = list[i + 1].channel
    BY <2>1, TPChannel
  <2>3. SearchGap(list, i) = b - a  BY <1>1, <1>4, <2>2 DEF SearchGap
  <2>4. b - a \in Int  OBVIOUS
  <2> QED  BY <1>1, <1>4, <2>3, <2>4
<1> QED  BY <1>3, <1>4

LEMMA Unset ==
  ASSUME NEW g \in {0} \cup Uninitialised
  PROVE  /\ unset_window(g) \in Windows /\ Kept(unset_window(g)) /\ Loaded(unset_window(g))
         /\ unset_window(g).inputs = <<>>
<1>1. PICK a \in 0 .. AdcModulus - 1 : a = g
  BY UninitialisedAssumption, TPWindowAssumption
<1>2. PICK u : u = [time_start |-> 0, adc_integral |-> a, channel_states |-> <<>>, inputs |-> <<>>]
  OBVIOUS
<1>3. unset_window(g) = u  BY <1>1, <1>2 DEF unset_window, EmptyWindow
<1>4. /\ 0 \in Timestamps /\ <<>> \in CountMaps(Channels) /\ <<>> \in Seq(TriggerPrimitive)
      /\ Counted(<<>>, TPHits(<<>>))
  BY EmptyIsKept, KeptParts DEF EmptyWindow
<1>5. Kept(u)  BY <1>2, <1>4, AWindow
<1>6. u.inputs = <<>> /\ u.adc_integral = a  BY <1>2
<1>7. (a + 0) % AdcModulus = a  BY TPWindowAssumption
<1>8. Loaded(u)
  <2>1. (g + TotalAdc(<<>>)) % AdcModulus = a  BY <1>1, <1>7, TotalAdcEmpty
  <2> QED  BY <1>5, <1>6, <2>1, KeptParts DEF Loaded, IsWindow, TrackCharges
<1> QED  BY <1>3, <1>5, <1>6, <1>8, KeptParts

LEMMA AddLoads ==
  ASSUME NEW w, Loaded(w), NEW tp \in TriggerPrimitive
  PROVE  Loaded(add(w, tp))
<1>1. PICK tps \in Seq(TriggerPrimitive), o \in {0} \cup Uninitialised :
        tps = w.inputs /\ w.adc_integral = (o + TotalAdc(tps)) % AdcModulus
  BY DEF Loaded, IsWindow, TrackCharges
<1>2. PICK u : u = add(w, tp)  OBVIOUS
<1>3. PICK t \in Nat, a \in Nat, b \in Nat :
        t = TotalAdc(tps) /\ a = tp.adc_integral /\ b = o
  <2>1. \A e \in TriggerPrimitive : e.adc_integral \in Nat  BY TPType
  <2>2. TotalAdc(tps) \in Nat  BY <2>1, TotalAdcType
  <2>3. o \in Nat  BY UninitialisedAssumption, TPWindowAssumption
  <2> QED  BY <2>1, <2>2, <2>3
<1>4. /\ u.time_start = w.time_start /\ u.inputs = Append(tps, tp)
      /\ u.adc_integral = (((b + t) % AdcModulus) + a) % AdcModulus
  BY <1>1, <1>2, <1>3 DEF add, UIntPlus
<1>5. u.adc_integral = (b + (t + a)) % AdcModulus /\ u.adc_integral \in 0 .. AdcModulus - 1
  <2>1. b + t \in Int /\ (b + t) + a = b + (t + a) /\ a \in Int  OBVIOUS
  <2>2. (((b + t) % AdcModulus) + a) % AdcModulus = ((b + t) + a) % AdcModulus
    BY <2>1, ModPlus, TPWindowAssumption
  <2>3. (b + (t + a)) % AdcModulus \in 0 .. AdcModulus - 1  BY TPWindowAssumption
  <2> QED  BY <1>4, <2>1, <2>2, <2>3
<1>6. TotalAdc(u.inputs) = t + a
  <2>1. \A e \in TriggerPrimitive : e.adc_integral \in Nat  BY TPType
  <2> QED  BY <1>3, <1>4, <2>1, TotalAdcAppend
<1>7. IsWindow(u)
  <2>1. Append(tps, tp) \in Seq(TriggerPrimitive)  OBVIOUS
  <2> QED  BY <1>4, <1>5, <2>1 DEF Loaded, IsWindow
<1> QED  BY <1>2, <1>3, <1>5, <1>6, <1>7 DEF Loaded, TrackCharges

\* What the recursion computes, each value of the type of the states.
LEMMA SearchHasARun ==
  ASSUME NEW w, w.inputs \in Seq(TriggerPrimitive), NEW g \in Uninitialised
  PROVE  \E f : SearchOf(w, g, f)
<1>1. PICK list \in Seq(TriggerPrimitive) :
        /\ list = by_channel(w.inputs) /\ Range(list) \subseteq Range(w.inputs)
        /\ Len(list) = Len(w.inputs)
  BY ByChannel
<1>2. PICK N \in Nat : N = Len(list) /\ DOMAIN list = 1 .. N  OBVIOUS
<1>3. PICK W : W = TracksIn(w)  OBVIOUS
<1>4. PICK V : V = [win_adj : W, tol_count : Int, found : W]  OBVIOUS
<1>5. EmptyWindow \in W /\ unset_window(g) \in W
  <2>1. ASSUME NEW o \in {0} \cup Uninitialised PROVE unset_window(o) \in W
    BY <1>3, Unset, RangeOfNone DEF TracksIn
  <2>2. EmptyWindow = unset_window(0)  BY DEF EmptyWindow, unset_window
  <2>3. 0 \in {0} \cup Uninitialised /\ g \in {0} \cup Uninitialised  OBVIOUS
  <2> QED  BY <2>1, <2>2, <2>3
<1>6. ASSUME NEW u \in W, NEW i \in 1 .. N PROVE add(u, list[i]) \in W
  <2>1. list[i] \in TriggerPrimitive  BY <1>2
  <2>2. list[i] \in Range(list)  BY <1>2 DEF Range
  <2>3. list[i] \in Range(w.inputs)  BY <1>1, <2>2
  <2>4. add(u, list[i]).inputs = Append(u.inputs, list[i])  BY DEF add
  <2>5. /\ Kept(u) /\ Loaded(u) /\ u.inputs \in Seq(TriggerPrimitive)
        /\ Range(u.inputs) \subseteq Range(w.inputs)
    BY <1>3, KeptParts DEF TracksIn
  <2>6. Range(Append(u.inputs, list[i])) = Range(u.inputs) \cup {list[i]}
    BY <2>1, <2>5, RangeOfAppend
  <2>7. Kept(add(u, list[i])) /\ Loaded(add(u, list[i]))  BY <2>1, <2>5, AddKept, AddLoads
  <2>8. Range(add(u, list[i]).inputs) \subseteq Range(w.inputs)
    BY <2>3, <2>4, <2>5, <2>6
  <2> QED  BY <1>3, <2>7, <2>8, KeptParts DEF TracksIn
<1>7. ASSUME NEW i \in 1 .. N, NEW s \in V PROVE Searched(list, i, s) \in V
  <2>1. s.win_adj \in W /\ s.tol_count \in Int /\ s.found \in W  BY <1>4
  <2>2. Begun(list, i, s) \in W  BY <1>6, <2>1 DEF Begun
  <2>3. Ended(list, i, s) \in V  BY <1>4, <1>5, <2>2 DEF Ended
  <2>4. ASSUME reaches(SearchGap(list, i), s.tol_count) PROVE GoneOn(list, i, s) \in V
    <3>1. i + 1 \in 1 .. N  BY <1>2, <2>4, EndOutOfReach
    <3>2. PICK u \in W : u = add(Begun(list, i, s), list[i + 1])  BY <1>6, <2>2, <3>1
    <3>3. PICK t \in Int : t = s.tol_count + SearchGap(list, i) - 1
      <4>1. SearchGap(list, i) \in Int  BY <1>2, EndOutOfReach
      <4> QED  BY <2>1, <4>1
    <3> QED  BY <1>4, <3>2, <3>3 DEF GoneOn
  <2> QED  BY <2>3, <2>4 DEF Searched
<1>8. NoTrackYet(g) \in V  BY <1>4, <1>5 DEF NoTrackYet
<1>9. PICK step : step = [i \in 1 .. N |-> [s \in V |-> Searched(list, i, s)]]  OBVIOUS
<1>10. step \in [1 .. N -> [V -> V]]  BY <1>7, <1>9
<1>11. PICK p \in [0 .. N -> V] : p[0] = NoTrackYet(g) /\ \A i \in 1 .. N : p[i] = step[i][p[i - 1]]
  <2>1. LoopRuns(V, NoTrackYet(g), N, step) # {}  BY <1>8, <1>10, LoopHasARun
  <2> QED  BY <2>1 DEF LoopRuns
<1> DEFINE Runs(h) ==
             h = [i \in 0 .. N |-> IF i = 0 THEN NoTrackYet(g) ELSE Searched(list, i, h[i - 1])]
<1>12. Runs(p)
  <2>1. ASSUME NEW i \in 1 .. N PROVE p[i] = Searched(list, i, p[i - 1])
    <3>1. i - 1 \in 0 .. N /\ p[i - 1] \in V  OBVIOUS
    <3> QED  BY <1>9, <1>11, <3>1
  <2>2. \A i \in 0 .. N : i = 0 \/ i \in 1 .. N  OBVIOUS
  <2> QED  BY <1>11, <2>1, <2>2
<1>13. PICK f : Runs(f) /\ check_adjacency_ca(w, g) = f[N].found
  <2> DEFINE f == CHOOSE f : Runs(f)
  <2>1. check_adjacency_ca(w, g) = f[N].found
    BY <1>1, <1>2
       DEF check_adjacency_ca, Searched, SearchGap, Begun, GoneOn, Ended, NoTrackYet
  <2> HIDE DEF Runs
  <2>2. Runs(f)  BY <1>12
  <2> QED  BY <2>1, <2>2
<1>14. f[0] = NoTrackYet(g) /\ \A i \in 1 .. N : f[i] = Searched(list, i, f[i - 1])
  <2>1. 0 \in 0 .. N /\ \A i \in 1 .. N : i \in 0 .. N /\ i # 0  OBVIOUS
  <2> QED  BY <1>13, <2>1
<1>15. \A i \in 0 .. N : f[i] \in V
  <2> DEFINE T == { i \in 0 .. N : f[i] \in V }
  <2>1. 0 \in T  BY <1>8, <1>14
  <2>2. ASSUME NEW i \in 1 .. N, i - 1 \in T PROVE i \in T
    <3>1. i \in 0 .. N /\ f[i - 1] \in V  BY <2>2
    <3> QED  BY <1>7, <1>14, <3>1
  <2> HIDE DEF T
  <2>3. \A i \in 0 .. N : i \in T  BY <2>1, <2>2, InductionUpTo
  <2> QED  BY <2>3 DEF T
<1> QED  BY <1>1, <1>2, <1>3, <1>4, <1>13, <1>14, <1>15 DEF SearchOf, Searches

\* A track is a window of TPs of the window it was found in, with their counts
\* and with their charge on top of what the memory held.
LEMMA TrackOfTheWindow ==
  ASSUME NEW w, w.inputs \in Seq(TriggerPrimitive), NEW g \in Uninitialised
  PROVE  /\ Kept(check_adjacency_ca(w, g)) /\ Loaded(check_adjacency_ca(w, g))
         /\ Range(check_adjacency_ca(w, g).inputs) \subseteq Range(w.inputs)
<1>1. PICK f : SearchOf(w, g, f)  BY SearchHasARun
<1>2. Len(w.inputs) \in 0 .. Len(w.inputs)  OBVIOUS
<1> QED  BY <1>1, <1>2 DEF SearchOf, Searches, TracksIn

\* What a round leaves of window w: some of its TPs, with their charge and counts, and
\* the tracks that it and the rounds before it took, each of TPs of w and each
\* at the cost of one at least, no TP in two of them and none of theirs left;
\* all of the TPs when there is no track.
TrackSearches == [window : Windows, tracks : Seq(Windows), ta_found : BOOLEAN]

IsTrack(track) ==
  \E u, g : /\ u.inputs \in Seq(TriggerPrimitive) /\ g \in Uninitialised
            /\ track = check_adjacency_ca(u, g)

TracksApart(tracks, u) ==
  \A k \in DOMAIN tracks :
    /\ IsTrack(tracks[k]) /\ Range(tracks[k].inputs) \cap Range(u.inputs) = {}
    /\ \A l \in DOMAIN tracks :
         k # l => Range(tracks[k].inputs) \cap Range(tracks[l].inputs) = {}

TakenFrom(s, w) ==
  /\ s \in TrackSearches
  /\ TracksApart(s.tracks, s.window)
  /\ Kept(s.window) /\ Charged(s.window)
  /\ Range(s.window.inputs) \subseteq Range(w.inputs)
  /\ \A k \in DOMAIN s.tracks :
       /\ ~ is_empty(s.tracks[k]) /\ Range(s.tracks[k].inputs) \subseteq Range(w.inputs)
       /\ Kept(s.tracks[k]) /\ Loaded(s.tracks[k])
  /\ Len(s.tracks) + Len(s.window.inputs) <= Len(w.inputs)
  /\ s.tracks = <<>> => s.window.inputs = w.inputs

\* A track more, out of what was left.
LEMMA OneMoreApart ==
  ASSUME NEW tracks \in Seq(Windows), NEW u, TracksApart(tracks, u),
         NEW track \in Windows, IsTrack(track), Range(track.inputs) \subseteq Range(u.inputs),
         NEW v, Range(v.inputs) \subseteq Range(u.inputs),
         Range(v.inputs) \cap Range(track.inputs) = {}
  PROVE  TracksApart(Append(tracks, track), v)
<1>1. PICK m \in Nat : m = Len(tracks) /\ DOMAIN tracks = 1 .. m  OBVIOUS
<1>2. PICK more : more = Append(tracks, track)  OBVIOUS
<1>3. /\ DOMAIN more = 1 .. (m + 1) /\ more[m + 1] = track
      /\ \A k \in 1 .. m : more[k] = tracks[k]
  BY <1>1, <1>2
<1>4. 1 .. (m + 1) = (1 .. m) \cup {m + 1} /\ m + 1 \notin 1 .. m  OBVIOUS
<1>5. ASSUME NEW k \in 1 .. m
      PROVE  /\ IsTrack(more[k]) /\ Range(more[k].inputs) \cap Range(v.inputs) = {}
             /\ Range(more[k].inputs) \cap Range(track.inputs) = {}
             /\ \A l \in 1 .. m :
                  k # l => Range(more[k].inputs) \cap Range(more[l].inputs) = {}
  <2>1. more[k] = tracks[k] /\ \A l \in 1 .. m : more[l] = tracks[l]  BY <1>3
  <2> QED  BY <1>1, <2>1 DEF TracksApart
<1>6. /\ IsTrack(more[m + 1]) /\ Range(more[m + 1].inputs) \cap Range(v.inputs) = {}
      /\ \A l \in 1 .. m : Range(more[m + 1].inputs) \cap Range(more[l].inputs) = {}
  BY <1>3, <1>5
<1>7. ASSUME NEW k \in DOMAIN more
      PROVE  /\ IsTrack(more[k]) /\ Range(more[k].inputs) \cap Range(v.inputs) = {}
             /\ \A l \in DOMAIN more :
                  k # l => Range(more[k].inputs) \cap Range(more[l].inputs) = {}
  <2>1. CASE k \in 1 .. m  BY <1>3, <1>4, <1>5, <2>1
  <2>2. CASE k = m + 1  BY <1>3, <1>4, <1>6, <2>2
  <2> QED  BY <1>3, <1>4, <2>1, <2>2
<1> QED  BY <1>2, <1>7 DEF TracksApart

LEMMA RoundTakes ==
  ASSUME NEW w, w.inputs \in Seq(TriggerPrimitive), NEW s, TakenFrom(s, w),
         NEW g \in Uninitialised
  PROVE  TakenFrom(next_round(s, g), w)
<1>1. /\ s \in TrackSearches /\ s.window \in Windows /\ s.tracks \in Seq(Windows)
      /\ s.window.inputs \in Seq(TriggerPrimitive)
      /\ Range(s.window.inputs) \subseteq Range(w.inputs)
      /\ Len(s.tracks) + Len(s.window.inputs) <= Len(w.inputs)
  BY DEF TakenFrom, TrackSearches, Windows
<1>2. PICK track \in Windows :
        /\ track = check_adjacency_ca(s.window, g) /\ Kept(track) /\ Loaded(track)
        /\ Range(track.inputs) \subseteq Range(s.window.inputs)
  BY <1>1, TrackOfTheWindow, KeptParts
<1>3. CASE s.ta_found /\ ~ is_empty(track)
  <2>1. PICK u : u = without(s.window, track)  OBVIOUS
  <2>2. MadeOf(u, s.window, track, Len(s.window.inputs))  BY <1>1, <2>1, WithoutMade
  <2>3. /\ Kept(u) /\ Charged(u) /\ u \in Windows
        /\ Range(u.inputs) \subseteq Range(w.inputs)
        /\ Range(u.inputs) \subseteq Range(s.window.inputs)
        /\ Range(u.inputs) \cap Range(track.inputs) = {}
    BY <1>1, <2>2, KeptParts DEF MadeOf
  <2>4. Len(u.inputs) < Len(s.window.inputs)
    <3>1. track.inputs \in Seq(TriggerPrimitive) /\ track.inputs # <<>>
      BY <1>3 DEF Windows, is_empty
    <3>2. 1 \in DOMAIN track.inputs  BY <3>1
    <3>3. track.inputs[1] \in Range(s.window.inputs) /\ track.inputs[1] \in Range(track.inputs)
      BY <1>2, <3>2 DEF Range
    <3>4. DOMAIN s.window.inputs = 1 .. Len(s.window.inputs)  BY <1>1
    <3>5. PICK i \in 1 .. Len(s.window.inputs) : s.window.inputs[i] = track.inputs[1]
      BY <3>3, <3>4 DEF Range
    <3>6. s.window.inputs[i] \in Range(track.inputs)  BY <3>3, <3>5
    <3> QED  BY <2>2, <3>6 DEF MadeOf
  <2>5. PICK more \in Seq(Windows) : more = Append(s.tracks, track)
    <3>1. PICK tracks \in Seq(Windows) : tracks = s.tracks  BY <1>1
    <3>2. Append(tracks, track) \in Seq(Windows)  OBVIOUS
    <3> QED  BY <3>1, <3>2
  <2>6. Len(more) = Len(s.tracks) + 1 /\ more # <<>>
    <3>1. PICK tracks \in Seq(Windows) : tracks = s.tracks  BY <1>1
    <3> QED  BY <2>5, <3>1
  <2>7. next_round(s, g) = [window |-> u, tracks |-> more, ta_found |-> TRUE]
    BY <1>2, <1>3, <2>1, <2>5 DEF next_round
  <2>8. ASSUME NEW k \in DOMAIN more
        PROVE  /\ ~ is_empty(more[k]) /\ Range(more[k].inputs) \subseteq Range(w.inputs)
               /\ Kept(more[k]) /\ Loaded(more[k])
    <3>1. PICK tracks \in Seq(Windows) : tracks = s.tracks  BY <1>1
    <3>2. (k \in DOMAIN tracks /\ more[k] = tracks[k]) \/ more[k] = track  BY <2>5, <3>1
    <3>3. CASE k \in DOMAIN tracks /\ more[k] = tracks[k]
      BY <3>1, <3>3 DEF TakenFrom
    <3>4. CASE more[k] = track  BY <1>1, <1>2, <1>3, <3>4
    <3> QED  BY <3>2, <3>3, <3>4
  <2>9. Len(more) + Len(u.inputs) <= Len(w.inputs)
    <3>1. Len(u.inputs) \in Nat /\ Len(s.tracks) \in Nat /\ Len(s.window.inputs) \in Nat
          /\ Len(w.inputs) \in Nat
      <4>1. u.inputs \in Seq(TriggerPrimitive)  BY <2>3, KeptParts
      <4> QED  BY <1>1, <4>1
    <3>2. PICK a \in Nat, b \in Nat, c \in Nat, d \in Nat :
            a = Len(u.inputs) /\ b = Len(s.tracks) /\ c = Len(s.window.inputs)
            /\ d = Len(w.inputs)
      BY <3>1
    <3>3. b + c <= d /\ a < c /\ Len(more) = b + 1  BY <1>1, <2>4, <2>6, <3>2
    <3>4. b + 1 + a <= d  BY <3>3
    <3> QED  BY <3>2, <3>3, <3>4
  <2>10. PICK r : r = next_round(s, g)  OBVIOUS
  <2>11. r.window = u /\ r.tracks = more /\ r \in TrackSearches
    BY <2>3, <2>5, <2>7, <2>10 DEF TrackSearches
  <2>12. TracksApart(more, u)
    <3>1. IsTrack(track)  BY <1>1, <1>2 DEF IsTrack
    <3>2. PICK left : left = s.window  OBVIOUS
    <3>3. PICK tracks \in Seq(Windows) : tracks = s.tracks /\ TracksApart(tracks, left)
      BY <1>1, <3>2 DEF TakenFrom
    <3>4. TracksApart(Append(tracks, track), u)
      BY <1>2, <2>3, <3>1, <3>2, <3>3, OneMoreApart
    <3> QED  BY <2>5, <3>3, <3>4
  <2>13. TakenFrom(r, w)  BY <2>3, <2>6, <2>8, <2>9, <2>11, <2>12 DEF TakenFrom
  <2> QED  BY <2>10, <2>13
<1>4. CASE ~ (s.ta_found /\ ~ is_empty(track))
  <2>1. next_round(s, g) = [window |-> s.window, tracks |-> s.tracks, ta_found |-> FALSE]
    BY <1>2, <1>4 DEF next_round
  <2>2. PICK r : r = next_round(s, g)  OBVIOUS
  <2>3. r.window = s.window /\ r.tracks = s.tracks /\ r \in TrackSearches
    BY <1>1, <2>1, <2>2 DEF TrackSearches
  <2>4. TakenFrom(r, w)  BY <2>3 DEF TakenFrom
  <2> QED  BY <2>2, <2>4
<1> QED  BY <1>3, <1>4

\* The rounds are those of the loop, and after the last of them, too.
LEMMA ExtractionTakes ==
  ASSUME NEW w, w.inputs \in Seq(TriggerPrimitive), NEW junk \in Junk(w)
  PROVE  TakenFrom(extraction(w, junk), w)
<1> DEFINE V == { s \in TrackSearches : TakenFrom(s, w) }
           Nothing == [window |-> without(w, EmptyWindow), tracks |-> <<>>, ta_found |-> TRUE]
           Runs(g, m) == g = [n \in 0 .. m |-> IF n = 0 THEN Nothing ELSE next_round(g[n - 1], junk[n])]
<1>1. PICK N \in Nat : N = Len(w.inputs) + 1 /\ \A n \in 1 .. N : junk[n] \in Uninitialised
  BY DEF Junk
<1>2. Nothing \in V
  <2>1. PICK u : u = without(w, EmptyWindow)  OBVIOUS
  <2>2. MadeOf(u, w, EmptyWindow, Len(w.inputs))  BY <2>1, WithoutMade
  <2>3. EmptyWindow.inputs = <<>>  BY DEF EmptyWindow
  <2>4. /\ u \in Windows /\ Kept(u) /\ Charged(u)
        /\ Range(u.inputs) \subseteq Range(w.inputs) /\ u.inputs = w.inputs
    <3>1. /\ u \in Windows /\ Kept(u) /\ Charged(u) /\ Range(u.inputs) \subseteq Range(w.inputs)
          /\ Len(u.inputs) = Len(w.inputs)
          /\ \A i \in 1 .. Len(w.inputs) : u.inputs[i] = w.inputs[i]
      BY <2>2, <2>3, KeptParts DEF MadeOf
    <3>2. PICK a \in Seq(TriggerPrimitive), b \in Seq(TriggerPrimitive) :
            a = u.inputs /\ b = w.inputs
      BY <3>1 DEF Windows
    <3>3. a = b  BY <3>1, <3>2
    <3> QED  BY <3>1, <3>2, <3>3
  <2>5. <<>> \in Seq(Windows) /\ Len(<<>>) = 0 /\ DOMAIN <<>> = {}  OBVIOUS
  <2>6. Len(w.inputs) \in Nat /\ Len(u.inputs) = Len(w.inputs)  BY <2>4
  <2>7. PICK s : s = Nothing  OBVIOUS
  <2>8. s.window = u /\ s.tracks = <<>> /\ s \in TrackSearches
    BY <2>1, <2>4, <2>5, <2>7 DEF TrackSearches
  <2>9. TracksApart(<<>>, u)  BY <2>5 DEF TracksApart
  <2>10. TakenFrom(s, w)  BY <2>4, <2>5, <2>6, <2>8, <2>9 DEF TakenFrom
  <2> QED  BY <2>7, <2>8, <2>10
<1>3. ASSUME NEW s \in V, NEW n \in 1 .. N PROVE next_round(s, junk[n]) \in V
  <2>1. TakenFrom(next_round(s, junk[n]), w)  BY <1>1, RoundTakes
  <2> QED  BY <2>1 DEF TakenFrom
<1> HIDE DEF V, Nothing
<1>4. PICK step : step = [n \in 1 .. N |-> [s \in V |-> next_round(s, junk[n])]]  OBVIOUS
<1>5. step \in [1 .. N -> [V -> V]]  BY <1>3, <1>4
<1>6. PICK g \in [0 .. N -> V] : g[0] = Nothing /\ \A n \in 1 .. N : g[n] = step[n][g[n - 1]]
  <2>1. LoopRuns(V, Nothing, N, step) # {}  BY <1>2, <1>5, LoopHasARun
  <2> QED  BY <2>1 DEF LoopRuns
<1>7. Runs(g, N)
  <2>1. ASSUME NEW n \in 1 .. N PROVE g[n] = next_round(g[n - 1], junk[n])
    <3>1. n - 1 \in 0 .. N /\ g[n - 1] \in V  OBVIOUS
    <3> QED  BY <1>4, <1>6, <3>1
  <2>2. \A n \in 0 .. N : n = 0 \/ n \in 1 .. N  OBVIOUS
  <2> QED  BY <1>6, <2>1, <2>2
<1>8. PICK f : f = rounds(w, junk) /\ f = CHOOSE h : Runs(h, Len(w.inputs) + 1)
  BY DEF rounds, Nothing
<1> HIDE DEF Runs
<1>9. Runs(f, N)  BY <1>1, <1>7, <1>8
<1>10. ASSUME NEW n \in 1 .. N PROVE f[n] = next_round(f[n - 1], junk[n])
  <2>1. n \in 0 .. N /\ n # 0  OBVIOUS
  <2> QED  BY <1>9, <2>1 DEF Runs
<1>11. f[0] = Nothing
  <2>1. 0 \in 0 .. N  OBVIOUS
  <2> QED  BY <1>9, <2>1 DEF Runs
<1> DEFINE T == { n \in 0 .. N : f[n] \in V }
<1>12. 0 \in T  BY <1>2, <1>11
<1>13. ASSUME NEW n \in 1 .. N, n - 1 \in T PROVE n \in T
  <2>1. n \in 0 .. N  OBVIOUS
  <2> QED  BY <1>3, <1>10, <1>13, <2>1
<1> HIDE DEF T
<1>14. \A n \in 0 .. N : n \in T  BY <1>12, <1>13, InductionUpTo
<1>15. N \in T  BY <1>14
<1>16. extraction(w, junk) = f[N]  BY <1>1, <1>8 DEF extraction
<1> QED  BY <1>15, <1>16 DEF T, V

\* A window without a track is what it was, but for the start time, which
\* move() sets again.
LEMMA ExtractionKeeps ==
  ASSUME NEW w, NEW length, NEW now, WellKept(w, length, now),
         NEW junk \in Junk(w), extraction(w, junk).tracks = <<>>
  PROVE  ListKept(extraction(w, junk).window, length, now)
<1>1. w.inputs \in Seq(TriggerPrimitive)  BY WellKeptAgrees
<1>2. PICK s : s = extraction(w, junk)  OBVIOUS
<1>3. TakenFrom(s, w)  BY <1>1, <1>2, ExtractionTakes
<1>4. Charged(s.window) /\ s.window.inputs = w.inputs  BY <1>2, <1>3 DEF TakenFrom
<1> QED  BY <1>2, <1>4 DEF ListKept, WellKept

-----------------------------------------------------------------------------
(* The inductive invariant *)

Length == m_config["window_length"]

\* The time the stream has reached.
LastTime == IF received = <<>> THEN 0 ELSE received[Len(received)].time_start

\* A cluster of ChannelDistance: in time order, no TP too late for the first.
ClusterKept(tps, length, now) ==
  /\ tps \in Seq(TriggerPrimitive)
  /\ InTimeOrder(tps, now)
  /\ \A i \in DOMAIN tps : tps[i].time_start - tps[1].time_start <= length

Untouched ==
  /\ m_current_window = EmptyWindow
  /\ m_plane_windows = [p \in Planes |-> EmptyWindow]
  /\ m_current_ta = <<>>

\* The makers that slide one window over their TPs.
Sliding == {"HorizontalMuon", "MichelElectron", "ChannelAdjacency"}

HeldKept(length, now) ==
  /\ maker \in Sliding => WellKept(m_current_window, length, now)
  /\ maker = "PlaneCoincidence" =>
       /\ DOMAIN m_plane_windows = Planes
       /\ \A p \in Planes : WellKept(m_plane_windows[p], length, now)
  /\ maker = "ChannelDistance" => ClusterKept(m_current_ta, length, now)

Configured ==
  /\ maker \in Makers \/ (maker = NoMaker /\ received = <<>>)
  /\ maker \in Makers => ValidConfig(m_config, maker) /\ DOMAIN m_config = DOMAIN Defaults[maker]

Inv ==
  /\ received \in Seq(TriggerPrimitive)
  /\ Configured
  /\ received = <<>> => Untouched
  /\ HeldKept(Length, LastTime)

-----------------------------------------------------------------------------
(* Before the first TP *)

\* Whoever knows a window length has one that is a number.
LEMMA LengthIsNat ==
  ASSUME Configured, maker \in Timed
  PROVE  Length \in Nat
<1>1. maker \in Makers /\ "window_length" \in DOMAIN Defaults[maker]
  BY TriggerActivityFactoryAssumption DEF Timed, Windowed, Bundling, Members
<1>2. ValidConfig(m_config, maker) /\ "window_length" \in DOMAIN m_config
  BY <1>1 DEF Configured
<1>3. "window_length" \notin Switches  BY DEF Switches
<1> QED  BY <1>2, <1>3 DEF ValidConfig, Length

\* While nothing has been received, any length will do.
LEMMA UntouchedKept ==
  ASSUME Untouched, NEW length, NEW now
  PROVE  HeldKept(length, now)
<1>1. WellKept(EmptyWindow, length, now)  BY EmptyKept
<1>2. ClusterKept(<<>>, length, now)  BY DEF ClusterKept, InTimeOrder
<1> QED  BY <1>1, <1>2 DEF Untouched, HeldKept

LEMMA StillUntouched ==
  ASSUME Untouched'
  PROVE  HeldKept(Length, LastTime)'
<1>1. m_current_window' = EmptyWindow /\ m_current_ta' = <<>>
      /\ m_plane_windows' = [p \in Planes |-> EmptyWindow]
  BY DEF Untouched
<1>2. WellKept(EmptyWindow, Length', LastTime')  BY EmptyKept
<1>3. ClusterKept(<<>>, Length', LastTime')  BY DEF ClusterKept, InTimeOrder
<1> QED  BY <1>1, <1>2, <1>3 DEF HeldKept

LEMMA InvInit == Init => Inv
<1> SUFFICES ASSUME Init PROVE Inv
  OBVIOUS
<1>1. Untouched  BY DEF Init, Untouched
<1>2. HeldKept(Length, LastTime)  BY <1>1, UntouchedKept
<1>3. NoMaker \notin Makers
  BY TriggerActivityFactoryAssumption DEF NoMaker, Windowed, Bundling
<1>4. Configured  BY <1>3 DEF Init, Configured
<1>5. received \in Seq(TriggerPrimitive)  BY DEF Init
<1> QED  BY <1>1, <1>2, <1>4, <1>5 DEF Inv

LEMMA BuildKeeps ==
  ASSUME Inv, NEW name \in Makers, build_maker(name)
  PROVE  Inv'
<1>1. /\ maker' = name /\ m_config' = Defaults[name]
      /\ UNCHANGED <<m_current_window, m_plane_windows, m_current_ta, received>>
  BY DEF build_maker, windowVars, bundleVars
<1>2. ValidConfig(Defaults[name], name)  BY TriggerActivityMakerAssumption
<1>3. Configured'  BY <1>1, <1>2 DEF Configured
<1>4. received = <<>>
  <2>1. maker = NoMaker /\ NoMaker \notin Makers
    BY TriggerActivityFactoryAssumption DEF build_maker, NoMaker, Windowed, Bundling
  <2> QED  BY <2>1 DEF Inv, Configured
<1>5. Untouched'  BY <1>1, <1>4 DEF Inv, Untouched
<1>6. HeldKept(Length, LastTime)'  BY <1>5, StillUntouched
<1> QED  BY <1>1, <1>3, <1>5, <1>6 DEF Inv

\* configure() changes lengths, but no TP is held yet.
LEMMA ConfigureKeeps ==
  ASSUME Inv, maker \in Makers, NEW config \in Configs[maker], configure(config)
  PROVE  Inv'
<1>1. /\ received = <<>>
      /\ m_config' = [k \in DOMAIN m_config |->
                        IF k \in DOMAIN config THEN config[k] ELSE m_config[k]]
      /\ UNCHANGED <<maker, m_current_window, m_plane_windows, m_current_ta, received>>
  BY DEF configure, windowVars, bundleVars
<1>2. ValidConfig(config, maker)  BY TriggerActivityMakerAssumption
<1>3. ValidConfig(m_config, maker) /\ DOMAIN m_config = DOMAIN Defaults[maker]
  BY DEF Inv, Configured
<1>4. Configured'
  <2>1. ValidConfig(m_config', maker)  BY <1>1, <1>2, <1>3 DEF ValidConfig
  <2> QED  BY <1>1, <1>3, <2>1 DEF Configured
<1>5. Untouched'  BY <1>1 DEF Inv, Untouched
<1>6. HeldKept(Length, LastTime)'  BY <1>5, StillUntouched
<1> QED  BY <1>1, <1>4, <1>5, <1>6 DEF Inv

-----------------------------------------------------------------------------
(* A TP arrives *)

\* The next TP is a TP, and not older than the last.
LEMMA NextTPInOrder ==
  ASSUME received \in Seq(TriggerPrimitive), NEW tp \in NextTPsFor
  PROVE  /\ tp \in TriggerPrimitive /\ tp.time_start \in Nat
         /\ LastTime \in Nat /\ LastTime <= tp.time_start
<1>0. tp \in NextTPs(received)  BY DEF NextTPsFor
<1>1. LastTime \in Nat
  <2>1. CASE received = <<>>  BY <2>1 DEF LastTime
  <2>2. CASE received # <<>>
    <3>1. received[Len(received)] \in TriggerPrimitive  BY <2>2
    <3> QED  BY <2>2, <3>1, TPType DEF LastTime
  <2> QED  BY <2>1, <2>2
<1>2. PICK gap \in Gaps, p \in Payloads :
        tp = [id |-> Len(received) + 1, time_start |-> LastTime + gap,
              adc_integral |-> p.adc_integral, channel |-> p.channel,
              time_over_threshold |-> p.time_over_threshold]
  BY <1>0 DEF NextTPs, LastTime
<1>3. tp.time_start \in Timestamps  BY <1>0 DEF NextTPs
<1>4. Len(received) + 1 \in Nat \ {0}  OBVIOUS
<1>5. tp.time_start = LastTime + gap /\ gap \in Nat  BY <1>2, TPAssumption
<1> HIDE DEF LastTime
<1>6. p.adc_integral \in AdcValues /\ p.channel \in Channels /\ p.time_over_threshold \in Tots
  BY DEF AdcValues, Channels, Tots
<1>7. tp \in TriggerPrimitive  BY <1>2, <1>3, <1>4, <1>6 DEF TriggerPrimitive
<1> QED  BY <1>1, <1>5, <1>7, TPType

\* What take() leaves to be shown.
LEMMA TakeKeeps ==
  ASSUME Inv, maker \in Makers, NEW tp \in TriggerPrimitive, take(tp),
         HeldKept(Length, tp.time_start)'
  PROVE  Inv'
<1>1. received' = Append(received, tp) /\ UNCHANGED <<maker, m_config>>
  BY DEF take
<1>2. /\ received' \in Seq(TriggerPrimitive) /\ received' # <<>>
      /\ received'[Len(received')] = tp
  BY <1>1 DEF Inv
<1>3. LastTime' = tp.time_start  BY <1>2 DEF LastTime
<1>4. Configured'  BY <1>1 DEF Inv, Configured
<1> QED  BY <1>2, <1>3, <1>4 DEF Inv

\* What ChannelAdjacency makes of its window when no track is found in it,
WhatIsLeft(tp, w) ==
  \E junk \in Junk(w) : \E v :
    /\ v = extraction(w, junk).window /\ extraction(w, junk).tracks = <<>>
    /\ m_current_window' = move(v, tp, Length)

LEMMA SlideLeaves ==
  ASSUME NEW tp, ca_slide_window(tp)
  PROVE  WhatIsLeft(tp, m_current_window)
BY DEF ca_slide_window, WhatIsLeft, Length

\* and what it gives out when there is one.
WhatIsTaken(tp, w, tracks) ==
  /\ \E junk \in Junk(w) : tracks = extraction(w, junk).tracks
  /\ tracks # <<>>
  /\ m_ta_count' = UIntPlus(m_ta_count, Len(tracks), CountModulus)
  /\ output_ta' = output_ta \o let_through(tracks)
  /\ m_current_window' = reset(w, tp)

LEMMA TracksTaken ==
  ASSUME NEW tp, take_tracks(tp)
  PROVE  \E tracks : WhatIsTaken(tp, m_current_window, tracks)
BY DEF take_tracks, WhatIsTaken

\* The makers that slide one window: add() is called for a TP that fits, reset()
\* and move() may be called any time, also on what ChannelAdjacency made anew,
\* and to leave the window alone is no harm.
LEMMA SlidingKeeps ==
  ASSUME Inv, maker \in Sliding, NEW tp \in NextTPsFor, take(tp),
         \/ m_current_window' = reset(m_current_window, tp)
         \/ m_current_window' = move(m_current_window, tp, Length)
         \/ m_current_window' = m_current_window
         \/ /\ m_current_window' = add(m_current_window, tp)
            /\ ~ is_empty(m_current_window)
            /\ fits_window(tp, m_current_window)
         \/ WhatIsLeft(tp, m_current_window)
  PROVE  Inv'
<1>1. /\ tp \in TriggerPrimitive /\ tp.time_start \in Nat
      /\ LastTime \in Nat /\ LastTime <= tp.time_start
  BY NextTPInOrder DEF Inv
<1>2. Length \in Nat /\ maker \in Makers
  <2>1. maker \in Timed  BY DEF Sliding, Timed, Windowed
  <2>2. maker \in Makers
    BY TriggerActivityFactoryAssumption DEF Sliding, Windowed
  <2> QED  BY <2>1, <2>2, LengthIsNat DEF Inv
<1>3. UNCHANGED <<maker, m_config>> /\ Length' = Length  BY DEF take, Length
<1>4. PICK w : w = m_current_window  OBVIOUS
<1>5. PICK length \in Nat : length = Length  BY <1>2
<1>6. PICK now \in Nat : now = LastTime  BY <1>1
<1>7. WellKept(w, length, now) /\ now <= tp.time_start
  BY <1>1, <1>4, <1>5, <1>6 DEF Inv, HeldKept
<1>8. WellKept(m_current_window', length, tp.time_start)
  <2>1. CASE m_current_window' = reset(m_current_window, tp)
    BY <1>1, <1>4, <2>1, ResetKeeps
  <2>2. CASE m_current_window' = move(m_current_window, tp, Length)
    <3>1. WellKept(move(w, tp, length), length, tp.time_start)
      BY <1>1, <1>7, MoveKeeps DEF WellKept
    <3> QED  BY <1>4, <1>5, <2>2, <3>1
  <2>3. CASE m_current_window' = m_current_window
    BY <1>1, <1>4, <1>7, <2>3, LaterKeeps
  <2>4. CASE /\ m_current_window' = add(m_current_window, tp)
             /\ ~ is_empty(m_current_window)
             /\ fits_window(tp, m_current_window)
    <3>1. w.inputs # <<>> /\ fits(tp.time_start, w.time_start, length)
      BY <1>4, <1>5, <2>4 DEF is_empty, fits_window, Length
    <3>2. WellKept(add(w, tp), length, tp.time_start)  BY <1>1, <1>7, <3>1, AddKeeps
    <3> QED  BY <1>4, <2>4, <3>2
  <2>5. CASE WhatIsLeft(tp, m_current_window)
    <3>1. PICK junk \in Junk(w) : \E u :
            /\ u = extraction(w, junk).window /\ extraction(w, junk).tracks = <<>>
            /\ m_current_window' = move(u, tp, length)
      BY <1>4, <1>5, <2>5 DEF WhatIsLeft
    <3>4. PICK u :
            /\ u = extraction(w, junk).window /\ extraction(w, junk).tracks = <<>>
            /\ m_current_window' = move(u, tp, length)
      BY <3>1
    <3>2. ListKept(u, length, now)  BY <1>7, <3>4, ExtractionKeeps
    <3>3. WellKept(move(u, tp, length), length, tp.time_start)
      BY <1>1, <1>7, <3>2, MoveKeeps
    <3> QED  BY <3>3, <3>4
  <2> QED  BY <2>1, <2>2, <2>3, <2>4, <2>5
<1>9. HeldKept(Length, tp.time_start)'
  BY <1>3, <1>5, <1>8 DEF HeldKept, Sliding
<1> QED  BY <1>1, <1>2, <1>9, TakeKeeps

LEMMA HorizontalMuonKeeps ==
  ASSUME Inv, maker = "HorizontalMuon", NEW tp \in NextTPsFor, receive_hm(tp)
  PROVE  Inv'
<1>1. maker \in Sliding /\ take(tp)  BY DEF Sliding, receive_hm
<1>2. \/ m_current_window' = reset(m_current_window, tp)
      \/ m_current_window' = move(m_current_window, tp, Length)
      \/ m_current_window' = m_current_window
      \/ /\ m_current_window' = add(m_current_window, tp)
         /\ ~ is_empty(m_current_window)
         /\ fits_window(tp, m_current_window)
  BY DEF receive_hm, first_tp, fill_window, emit_ta, prescale_out, emit_ta_on_tot,
         slide_window, Length
<1> QED  BY <1>1, <1>2, SlidingKeeps

LEMMA MichelElectronKeeps ==
  ASSUME Inv, maker = "MichelElectron", NEW tp \in NextTPsFor, receive_me(tp)
  PROVE  Inv'
<1>1. maker \in Sliding /\ take(tp)  BY DEF Sliding, receive_me
<1>2. \/ m_current_window' = reset(m_current_window, tp)
      \/ m_current_window' = move(m_current_window, tp, Length)
      \/ m_current_window' = m_current_window
      \/ /\ m_current_window' = add(m_current_window, tp)
         /\ ~ is_empty(m_current_window)
         /\ fits_window(tp, m_current_window)
  BY DEF receive_me, me_first_tp, me_fill_window, emit_michel, ignore_tp, me_slide_window,
         reset_me, add_me, move_me, Length
<1> QED  BY <1>1, <1>2, SlidingKeeps

LEMMA ChannelAdjacencyKeeps ==
  ASSUME Inv, maker = "ChannelAdjacency", NEW tp \in NextTPsFor, receive_ca(tp)
  PROVE  Inv'
<1>1. maker \in Sliding /\ take(tp)  BY DEF Sliding, receive_ca
<1>2. \/ m_current_window' = reset(m_current_window, tp)
      \/ /\ m_current_window' = add(m_current_window, tp)
         /\ ~ is_empty(m_current_window)
         /\ fits_window(tp, m_current_window)
      \/ WhatIsLeft(tp, m_current_window)
  BY SlideLeaves DEF receive_ca, ca_first_tp, ca_fill_window, take_tracks
<1> QED  BY <1>1, <1>2, SlidingKeeps

\* The windows after a TP was added to that of its plane.
LEMMA WindowsWithKept ==
  ASSUME Inv, maker = "PlaneCoincidence", NEW tp \in NextTPsFor, plane_started(tp)
  PROVE  /\ DOMAIN windows_with(tp) = Planes
         /\ \A p \in Planes : WellKept(windows_with(tp)[p], Length, tp.time_start)
<1>1. /\ tp \in TriggerPrimitive /\ tp.time_start \in Nat
      /\ LastTime \in Nat /\ LastTime <= tp.time_start
  BY NextTPInOrder DEF Inv
<1>2. DOMAIN m_plane_windows = Planes
  BY DEF Inv, HeldKept
<1>3. PICK length : length = Length  OBVIOUS
<1>4. PICK now \in Nat : now = LastTime  BY <1>1
<1>5. PICK plane : plane = PlaneOf[tp.channel]  OBVIOUS
<1>6. DOMAIN windows_with(tp) = Planes  BY <1>2 DEF windows_with
<1>7. ASSUME NEW p \in Planes PROVE WellKept(windows_with(tp)[p], length, tp.time_start)
  <2>1. PICK w : w = m_plane_windows[p]  OBVIOUS
  <2>2. WellKept(w, length, now) /\ now <= tp.time_start
    BY <1>1, <1>3, <1>4, <2>1 DEF Inv, HeldKept
  <2>3. CASE p = plane /\ fits_window(tp, m_plane_windows[p])
    <3>1. w.inputs # <<>> /\ fits(tp.time_start, w.time_start, length)
      BY <1>3, <1>5, <2>1, <2>3 DEF plane_started, is_empty, fits_window, Length
    <3>2. WellKept(add(w, tp), length, tp.time_start)  BY <1>1, <2>2, <3>1, AddKeeps
    <3>3. windows_with(tp)[p] = add(w, tp)
      BY <1>2, <1>5, <2>1, <2>3 DEF windows_with
    <3> QED  BY <3>2, <3>3
  <2>4. CASE ~ (p = plane /\ fits_window(tp, m_plane_windows[p]))
    <3>1. windows_with(tp)[p] = w  BY <1>2, <1>5, <2>1, <2>4 DEF windows_with
    <3>2. WellKept(w, length, tp.time_start)  BY <1>1, <2>2, LaterKeeps
    <3> QED  BY <3>1, <3>2
  <2> QED  BY <2>3, <2>4
<1> QED  BY <1>3, <1>6, <1>7

LEMMA PlaneCoincidenceKeeps ==
  ASSUME Inv, maker = "PlaneCoincidence", NEW tp \in NextTPsFor, receive_pc(tp)
  PROVE  Inv'
<1>1. /\ tp \in TriggerPrimitive /\ tp.time_start \in Nat
      /\ LastTime \in Nat /\ LastTime <= tp.time_start
  BY NextTPInOrder DEF Inv
<1>2. Length \in Nat /\ maker \in Makers
  <2>1. maker \in Timed  BY DEF Timed
  <2>2. maker \in Makers  BY TriggerActivityFactoryAssumption
  <2> QED  BY <2>1, <2>2, LengthIsNat DEF Inv
<1>3. take(tp) /\ UNCHANGED <<maker, m_config>> /\ Length' = Length
  BY DEF receive_pc, take, Length
<1>4. PICK length \in Nat : length = Length  BY <1>2
<1>5. PICK now \in Nat : now = LastTime  BY <1>1
<1>6. /\ DOMAIN m_plane_windows = Planes
      /\ \A p \in Planes : WellKept(m_plane_windows[p], length, now)
  BY <1>4, <1>5 DEF Inv, HeldKept
<1>7. /\ DOMAIN m_plane_windows' = Planes
      /\ \A p \in Planes : WellKept(m_plane_windows'[p], length, tp.time_start)
  <2>1. CASE first_in_plane(tp)
    <3>1. PICK plane \in Planes : plane = PlaneOf[tp.channel]
      BY <2>1 DEF first_in_plane
    <3>2. m_plane_windows' = [m_plane_windows EXCEPT ![plane] = reset(m_plane_windows[plane], tp)]
      BY <2>1, <3>1 DEF first_in_plane
    <3>3. WellKept(reset(m_plane_windows[plane], tp), length, tp.time_start)
      BY <1>1, ResetKeeps
    <3>4. ASSUME NEW p \in Planes PROVE WellKept(m_plane_windows[p], length, tp.time_start)
      BY <1>1, <1>5, <1>6, LaterKeeps
    <3> QED  BY <1>6, <3>2, <3>3, <3>4
  <2>2. CASE wait_for_collection(tp)
    BY <1>4, <2>2, WindowsWithKept DEF wait_for_collection
  <2>3. CASE emit_collection(tp)
    <3>1. m_plane_windows' = [p \in Planes |->
            IF p = PlaneOf[tp.channel] THEN reset(m_plane_windows[p], tp) ELSE EmptyWindow]
      BY <2>3 DEF emit_collection, clear
    <3>2. WellKept(EmptyWindow, length, tp.time_start)  BY EmptyKept
    <3>3. ASSUME NEW p \in Planes
          PROVE  WellKept(reset(m_plane_windows[p], tp), length, tp.time_start)
      BY <1>1, ResetKeeps
    <3> QED  BY <3>1, <3>2, <3>3
  <2>4. CASE slide_plane(tp)
    <3>1. PICK ws : ws = windows_with(tp)  OBVIOUS
    <3>2. DOMAIN ws = Planes /\ \A p \in Planes : WellKept(ws[p], length, tp.time_start)
      BY <1>4, <2>4, <3>1, WindowsWithKept DEF slide_plane
    <3>3. PICK plane : plane = PlaneOf[tp.channel]  OBVIOUS
    <3>4. m_plane_windows' = IF plane \in Planes
                             THEN [ws EXCEPT ![plane] = move(ws[plane], tp, length)] ELSE ws
      BY <1>4, <2>4, <3>1, <3>3 DEF slide_plane, Length
    <3>5. CASE plane \notin Planes  BY <3>2, <3>4, <3>5
    <3>6. CASE plane \in Planes
      <4>1. ListKept(ws[plane], length, tp.time_start) /\ tp.time_start <= tp.time_start
        BY <1>1, <3>2, <3>6 DEF WellKept
      <4>2. WellKept(move(ws[plane], tp, length), length, tp.time_start)
        BY <1>1, <4>1, MoveKeeps
      <4> QED  BY <3>2, <3>4, <3>6, <4>2
    <3> QED  BY <3>5, <3>6
  <2> QED  BY <2>1, <2>2, <2>3, <2>4 DEF receive_pc
<1>8. HeldKept(Length, tp.time_start)'
  BY <1>3, <1>4, <1>7 DEF HeldKept, Sliding
<1> QED  BY <1>1, <1>2, <1>3, <1>8, TakeKeeps

\* A cluster of one TP, and one more TP that is not too late.
LEMMA ClusterStarts ==
  ASSUME NEW tp \in TriggerPrimitive, NEW length \in Nat
  PROVE  ClusterKept(<<tp>>, length, tp.time_start)
<1>1. tp.time_start \in Nat  BY TPType
<1>2. <<tp>> \in Seq(TriggerPrimitive) /\ DOMAIN <<tp>> = {1} /\ <<tp>>[1] = tp  OBVIOUS
<1> QED  BY <1>1, <1>2 DEF ClusterKept, InTimeOrder

LEMMA ClusterGrows ==
  ASSUME NEW tps, NEW length \in Nat, NEW now \in Nat, ClusterKept(tps, length, now),
         tps # <<>>, NEW tp \in TriggerPrimitive, now <= tp.time_start,
         ~ (elapsed(tp.time_start, tps[1].time_start) > length)
  PROVE  ClusterKept(Append(tps, tp), length, tp.time_start)
<1>1. tps \in Seq(TriggerPrimitive) /\ InTimeOrder(tps, now)  BY DEF ClusterKept
<1>2. PICK n \in Nat : n = Len(tps) /\ n >= 1  BY <1>1, EmptySeq
<1>3. PICK u : u = Append(tps, tp)  OBVIOUS
<1>4. /\ u \in Seq(TriggerPrimitive) /\ DOMAIN u = 1 .. (n + 1) /\ u[n + 1] = tp
      /\ \A i \in 1 .. n : u[i] = tps[i]
      /\ DOMAIN tps = 1 .. n
  BY <1>1, <1>2, <1>3
<1>5. tp.time_start \in Nat  BY TPType
<1>6. \A i \in 1 .. n : tps[i].time_start \in Nat /\ tps[i].time_start <= tp.time_start
  <2>1. ASSUME NEW i \in 1 .. n
        PROVE  tps[i].time_start \in Nat /\ tps[i].time_start <= tp.time_start
    <3>1. tps[i] \in TriggerPrimitive  BY <1>1, <1>2
    <3>2. tps[i].time_start \in Nat  BY <3>1, TPType
    <3>3. tps[i].time_start <= now  BY <1>1, <1>4 DEF InTimeOrder
    <3> QED  BY <1>5, <3>2, <3>3
  <2> QED  BY <2>1
<1>7. ASSUME NEW i \in 1 .. (n + 1) PROVE i \in 1 .. n \/ i = n + 1  OBVIOUS
<1>8. InTimeOrder(u, tp.time_start)
  <2>1. ASSUME NEW i \in 1 .. (n + 1), NEW j \in 1 .. (n + 1), i < j
        PROVE  u[i].time_start <= u[j].time_start
    <3>1. i \in 1 .. n  BY <2>1
    <3>2. CASE j = n + 1  BY <1>4, <1>6, <3>1, <3>2
    <3>3. CASE j \in 1 .. n  BY <1>1, <1>4, <2>1, <3>1, <3>3 DEF InTimeOrder
    <3> QED  BY <1>7, <3>2, <3>3
  <2>2. \A i \in 1 .. (n + 1) : u[i].time_start <= tp.time_start
    BY <1>4, <1>5, <1>6, <1>7
  <2> QED  BY <1>4, <2>1, <2>2 DEF InTimeOrder
<1>9. ASSUME NEW i \in 1 .. (n + 1) PROVE u[i].time_start - u[1].time_start <= length
  <2>1. 1 \in 1 .. n /\ u[1] = tps[1]  BY <1>2, <1>4
  <2>2. CASE i \in 1 .. n
    <3>1. tps[i].time_start - tps[1].time_start <= length
      BY <1>4, <2>2 DEF ClusterKept
    <3> QED  BY <1>4, <2>1, <2>2, <3>1
  <2>3. CASE i = n + 1
    <3>1. tps[1].time_start \in Nat /\ tp.time_start >= tps[1].time_start
      BY <1>6, <2>1
    <3>2. elapsed(tp.time_start, tps[1].time_start) = tp.time_start - tps[1].time_start
      BY <1>5, <3>1 DEF elapsed, UIntMinus
    <3>3. tp.time_start - tps[1].time_start <= length  BY <1>5, <3>1, <3>2
    <3> QED  BY <1>4, <2>1, <2>3, <3>3
  <2> QED  BY <1>7, <2>2, <2>3
<1> QED  BY <1>3, <1>4, <1>8, <1>9 DEF ClusterKept

LEMMA ChannelDistanceKeeps ==
  ASSUME Inv, maker = "ChannelDistance", NEW tp \in NextTPsFor, receive_distance(tp)
  PROVE  Inv'
<1>1. /\ tp \in TriggerPrimitive /\ tp.time_start \in Nat
      /\ LastTime \in Nat /\ LastTime <= tp.time_start
  BY NextTPInOrder DEF Inv
<1>2. Length \in Nat /\ maker \in Makers
  <2>1. maker \in Timed  BY DEF Timed
  <2>2. maker \in Makers  BY TriggerActivityFactoryAssumption DEF Bundling
  <2> QED  BY <2>1, <2>2, LengthIsNat DEF Inv
<1>3. take(tp) /\ UNCHANGED <<maker, m_config>> /\ Length' = Length
  BY DEF receive_distance, take, Length
<1>4. PICK length \in Nat : length = Length  BY <1>2
<1>5. PICK now \in Nat : now = LastTime  BY <1>1
<1>6. PICK tps : tps = m_current_ta  OBVIOUS
<1>7. ClusterKept(tps, length, now) /\ now <= tp.time_start
  BY <1>1, <1>4, <1>5, <1>6 DEF Inv, HeldKept
<1>8. ClusterKept(m_current_ta', length, tp.time_start)
  <2>1. CASE m_current_ta' = <<tp>>
    BY <1>1, <2>1, ClusterStarts
  <2>2. CASE m_current_ta' = tps
    <3>1. InTimeOrder(tps, tp.time_start)
      BY <1>1, <1>7, OrderLater DEF ClusterKept
    <3> QED  BY <1>7, <2>2, <3>1 DEF ClusterKept
  <2>3. CASE grow_cluster(tp)
    <3>1. m_current_ta' = Append(tps, tp) /\ tps # <<>>
          /\ ~ (elapsed(tp.time_start, tps[1].time_start) > length)
      BY <1>4, <1>6, <2>3 DEF grow_cluster, too_late, Length
    <3>2. ClusterKept(Append(tps, tp), length, tp.time_start)
      BY <1>1, <1>7, <3>1, ClusterGrows
    <3> QED  BY <3>1, <3>2
  <2> QED
    BY <1>6, <2>1, <2>2, <2>3
    DEF receive_distance, start_cluster, emit_cluster, drop_cluster, skip_tp, set_new_ta
<1>9. HeldKept(Length, tp.time_start)'
  BY <1>3, <1>4, <1>8 DEF HeldKept, Sliding
<1> QED  BY <1>1, <1>2, <1>3, <1>9, TakeKeeps

\* The other makers hold nothing a window length applies to.
LEMMA OthersKeep ==
  ASSUME Inv, maker \in {"Prescale", "BundleN", "Supernova"},
         NEW tp \in NextTPsFor, take(tp)
  PROVE  Inv'
<1>1. tp \in TriggerPrimitive  BY NextTPInOrder DEF Inv
<1>2. maker \in Makers
  BY TriggerActivityFactoryAssumption DEF Windowed, Bundling
<1>3. maker' = maker  BY DEF take
<1>4. HeldKept(Length, tp.time_start)'  BY <1>3 DEF HeldKept, Sliding
<1> QED  BY <1>1, <1>2, <1>4, TakeKeeps

-----------------------------------------------------------------------------
(* Every step *)

LEMMA FlushKeeps ==
  ASSUME Inv, UNCHANGED <<maker, m_config, m_current_window, m_plane_windows, m_current_ta,
                          received>>
  PROVE  Inv'
BY DEF Inv, Configured, Untouched, HeldKept, Length, LastTime

LEMMA InvNext == Inv /\ [Next]_vars => Inv'
<1> SUFFICES ASSUME Inv, [Next]_vars PROVE Inv'
  OBVIOUS
<1>1. ASSUME NEW name \in Makers, build_maker(name) PROVE Inv'
  BY <1>1, BuildKeeps
<1>2. ASSUME maker \in Makers, NEW config \in Configs[maker], configure(config) PROVE Inv'
  BY <1>2, ConfigureKeeps
<1>3. ASSUME NEW tp \in NextTPsFor, call(tp) PROVE Inv'
  <2>1. CASE maker = "HorizontalMuon" /\ receive_hm(tp)  BY <2>1, HorizontalMuonKeeps
  <2>2. CASE maker = "MichelElectron" /\ receive_me(tp)  BY <2>2, MichelElectronKeeps
  <2>3. CASE maker = "PlaneCoincidence" /\ receive_pc(tp)  BY <2>3, PlaneCoincidenceKeeps
  <2>4. CASE maker = "ChannelDistance" /\ receive_distance(tp)  BY <2>4, ChannelDistanceKeeps
  <2>5. CASE maker = "ChannelAdjacency" /\ receive_ca(tp)
    BY <2>5, ChannelAdjacencyKeeps
  <2>6. CASE maker = "Prescale" /\ receive_prescale(tp)
    BY <2>6, OthersKeep DEF receive_prescale
  <2>7. CASE maker = "BundleN" /\ receive_bundle(tp)
    BY <2>7, OthersKeep DEF receive_bundle
  <2>8. CASE maker = "Supernova" /\ receive_supernova(tp)
    BY <2>8, OthersKeep DEF receive_supernova
  <2> QED  BY <1>3, <2>1, <2>2, <2>3, <2>4, <2>5, <2>6, <2>7, <2>8 DEF call
<1>4. CASE end_of_stream
  BY <1>4, FlushKeeps DEF end_of_stream, flush, windowVars, bundleVars
<1>5. CASE UNCHANGED vars
  BY <1>5, FlushKeeps DEF vars, windowVars, bundleVars
<1> QED  BY <1>1, <1>2, <1>3, <1>4, <1>5 DEF Next

-----------------------------------------------------------------------------
(* What a call takes in *)

\* The TP that comes is the next one.
number == Len(received) + 1

\* A TA of the TPs with these numbers goes out.
GivesOut(ids) ==
  \E ta : output_ta' = Append(output_ta, ta) /\ Ids(ta.inputs) = ids

\* What a call makes of the TP that came and of those held, of which it keeps
\* some: they are held on together, they go out together, or it starts the
\* next TA after the one in which all of those held went out.
Accounts(kept) ==
  \/ Held' = kept \cup {number} /\ UNCHANGED output_ta
  \/ Held' = {} /\ GivesOut(kept \cup {number})
  \/ kept = Held /\ Held # {} /\ Held' = {number} /\ GivesOut(Held)

\* Or it has no use for the TP.
Passes(kept) ==
  \/ Held' = kept /\ UNCHANGED output_ta
  \/ Held # {} /\ Held' = {} /\ GivesOut(Held)

\* What is kept of what was held: all of it, or all that fits the TP that came.
NoneDropped(kept, tp) ==
  /\ \/ maker = "BundleN"
     \/ maker = "Supernova" /\ 0 \notin TimesOf(received)
     => Accounts(kept) /\ kept = Held
  /\ maker \in {"HorizontalMuon", "ChannelAdjacency"} /\ m_config["prescale"] = 1 =>
       /\ Accounts(kept)
       /\ \A x \in Held \ kept : ~ fits(tp.time_start, received[x].time_start, Length)

Takes(tp) ==
  \E kept \in SUBSET Held : (Accounts(kept) \/ Passes(kept)) /\ NoneDropped(kept, tp)

\* ChannelAdjacency, when it finds tracks: with a prescale of 1 some TP held
\* goes out, and no TP held is far from it.
TakesTracks ==
  /\ Held' = {number}
  /\ Emitted \subseteq Emitted' /\ Emitted' \subseteq Emitted \cup Held
  /\ m_config["prescale"] = 1 =>
       \E x \in Emitted' \cap Held : \A i \in Held \ {x} :
         Apart(received[x].time_start, received[i].time_start) < Length

\* The TAs given out so far are a sequence.
Outputs == \E S : output_ta \in Seq(S)

\* In terms of the numbers given out: what was given stays given,
LEMMA GivenGrows ==
  ASSUME Outputs, NEW ids, GivesOut(ids)
  PROVE  /\ Outputs' /\ Emitted' = Emitted \cup ids
         /\ Given(output_ta)' = Append(Given(output_ta), ids)
<1>1. PICK S : output_ta \in Seq(S)  BY DEF Outputs
<1>2. PICK ta : output_ta' = Append(output_ta, ta) /\ Ids(ta.inputs) = ids
  BY DEF GivesOut
<1>3. /\ output_ta' \in Seq(S \cup {ta})
      /\ Given(output_ta') = Append(Given(output_ta), ids)
      /\ AllGiven(output_ta') = AllGiven(output_ta) \cup ids
  BY <1>1, <1>2, GivenAppend
<1>4. Emitted = AllGiven(output_ta) /\ Emitted' = AllGiven(output_ta')
  BY DEF Emitted, AllGiven
<1>5. Given(output_ta)' = Given(output_ta')  BY DEF Given
<1> QED  BY <1>3, <1>4, <1>5 DEF Outputs

\* what is kept is held or given, and the TP that came is too.
LEMMA NothingElseGoes ==
  ASSUME Outputs, NEW kept \in SUBSET Held, Accounts(kept)
  PROVE  Outputs' /\ Emitted' \cup Held' = Emitted \cup kept \cup {number}
<1>1. CASE Held' = kept \cup {number} /\ UNCHANGED output_ta
  BY <1>1 DEF Emitted, Outputs
<1>2. CASE Held' = {} /\ GivesOut(kept \cup {number})
  <2>1. Outputs' /\ Emitted' = Emitted \cup (kept \cup {number})  BY <1>2, GivenGrows
  <2> QED  BY <1>2, <2>1
<1>3. CASE kept = Held /\ Held' = {number} /\ GivesOut(Held)
  <2>1. Outputs' /\ Emitted' = Emitted \cup Held  BY <1>3, GivenGrows
  <2> QED  BY <1>3, <2>1
<1> QED  BY <1>1, <1>2, <1>3 DEF Accounts

\* In any case no TP that was given out is taken back.
LEMMA EmittedStays ==
  ASSUME Outputs, NEW kept \in SUBSET Held, Accounts(kept) \/ Passes(kept)
  PROVE  Outputs' /\ Emitted \subseteq Emitted'
<1>1. CASE UNCHANGED output_ta  BY <1>1 DEF Emitted, Outputs
<1>2. ASSUME NEW ids, GivesOut(ids) PROVE Outputs' /\ Emitted \subseteq Emitted'
  BY <1>2, GivenGrows
<1> QED  BY <1>1, <1>2 DEF Accounts, Passes

\* Every such call is a step of the windowing discipline,
LEMMA CallIsAStep ==
  ASSUME Outputs, received \in Seq(TriggerPrimitive), NEW tp,
         received' = Append(received, tp), UNCHANGED maker, maker # "ChannelAdjacency",
         NEW kept \in SUBSET Held, Accounts(kept) \/ Passes(kept)
  PROVE  Segments!Next
<1>1. Len(received') = number /\ number = Len(received) + 1
  BY DEF number
<1>2. \A outs : Given(outs) = [k \in DOMAIN outs |-> Ids(outs[k].inputs)]  BY DEF Given
<1>3. CASE Held' = kept \cup {number} /\ UNCHANGED output_ta
  <2>1. Segments!Hold(kept)  BY <1>1, <1>3 DEF Segments!Hold
  <2> QED  BY <2>1 DEF Segments!Next
<1>4. CASE Held' = {} /\ GivesOut(kept \cup {number})
  <2>1. Given(output_ta)' = Append(Given(output_ta), kept \cup {number})
    BY <1>4, GivenGrows
  <2>2. Segments!JoinAndGive(kept)  BY <1>1, <1>4, <2>1 DEF Segments!JoinAndGive, Given
  <2> QED  BY <2>2 DEF Segments!Next
<1>5. CASE Held # {} /\ Held' \in SUBSET {number} /\ GivesOut(Held)
  <2>1. Given(output_ta)' = Append(Given(output_ta), Held)
    BY <1>5, GivenGrows
  <2>2. Segments!GiveAndStart  BY <1>1, <1>5, <2>1 DEF Segments!GiveAndStart, Given
  <2> QED  BY <2>2 DEF Segments!Next
<1>6. CASE Held' = kept /\ UNCHANGED output_ta
  <2>1. Segments!Skip(kept)  BY <1>1, <1>6 DEF Segments!Skip
  <2> QED  BY <2>1 DEF Segments!Next
<1>7. {} \in SUBSET {number} /\ {number} \in SUBSET {number}  OBVIOUS
<1> QED  BY <1>3, <1>4, <1>5, <1>6, <1>7 DEF Accounts, Passes

\* and for ChannelAdjacency, whose TAs it does not look at, what is held.
LEMMA HeldIsAStep ==
  ASSUME received \in Seq(TriggerPrimitive), NEW tp,
         received' = Append(received, tp), UNCHANGED maker, maker = "ChannelAdjacency",
         NEW kept \in SUBSET Held, Held' = kept \cup {number}
  PROVE  Segments!Next
<1>1. Len(received') = Len(received) + 1 /\ number = Len(received) + 1
  BY DEF number
<1>2. Segments!Hold(kept)  BY <1>1 DEF Segments!Hold
<1> QED  BY <1>2 DEF Segments!Next

-----------------------------------------------------------------------------
(* The invariant of the stream *)

\* The TPs received are numbered as they came and in time order; before the
\* first one the maker has given nothing out, and nobody flushes it but the
\* Supernova maker.
StreamInv ==
  /\ \A i \in DOMAIN received : received[i].id = i
  /\ InTimeOrder(received, LastTime)
  /\ Outputs
  /\ received = <<>> => m_extent = NoExtent /\ output_ta = <<>> /\ ~ flushed
  /\ flushed => maker = "Supernova"
  /\ maker = "ChannelAdjacency" => Emitted \subseteq DOMAIN received

\* What the makers hold is of the stream; a Supernova activity is never empty
\* once there was a TP, and starts when one of them did.
HeldInv ==
  /\ maker \in Windowed => FromStream(m_current_window.inputs, received)
  /\ maker = "PlaneCoincidence" => FromStream(m_plane_windows["Z"].inputs, received)
  /\ maker \in Bundling => m_current_ta \in Seq(TriggerPrimitive)
  /\ maker = "Supernova" /\ received # <<>> =>
       m_current_ta # <<>> /\ m_extent.time_start \in TimesOf(received)

\* The list a maker holds.
LEMMA HeldIs ==
  /\ maker \in Windowed => Held = Ids(m_current_window.inputs)
  /\ maker = "PlaneCoincidence" => Held = Ids(m_plane_windows["Z"].inputs)
  /\ maker \in Bundling /\ ~ flushed => Held = Ids(m_current_ta)
  /\ maker \in Bundling /\ flushed => Held = {}
  /\ maker \in {"Prescale", NoMaker} => Held = {}
BY RangeOfNone DEF Held, HeldList, Windowed, Bundling, NoMaker

LEMMA HeldBecomes ==
  ASSUME UNCHANGED <<maker, flushed>>
  PROVE  /\ maker \in Windowed => Held' = Ids(m_current_window'.inputs)
         /\ maker = "PlaneCoincidence" => Held' = Ids(m_plane_windows'["Z"].inputs)
         /\ maker \in Bundling /\ ~ flushed => Held' = Ids(m_current_ta')
         /\ maker = "Prescale" => Held' = {}
BY RangeOfNone DEF Held, HeldList, Windowed, Bundling, Ids

\* The TP that comes carries the next number.
LEMMA NextTPNumbered ==
  ASSUME Inv, NEW tp \in NextTPsFor
  PROVE  /\ tp \in TriggerPrimitive /\ tp.id = Len(received) + 1 /\ tp.id = number
         /\ received \in Seq(TriggerPrimitive)
<1>1. received \in Seq(TriggerPrimitive)  BY DEF Inv
<1>2. tp \in NextTPs(received)  BY DEF NextTPsFor
<1>3. tp.id = Len(received) + 1  BY <1>2 DEF NextTPs
<1> QED  BY <1>1, <1>3, NextTPInOrder DEF number

-----------------------------------------------------------------------------
(* The windows, by the numbers of their TPs *)

LEMMA ResetHolds ==
  ASSUME Inv, NEW tp \in NextTPsFor, NEW w
  PROVE  /\ Ids(reset(w, tp).inputs) = {number}
         /\ FromStream(reset(w, tp).inputs, Append(received, tp))
<1>1. /\ tp \in TriggerPrimitive /\ tp.id = Len(received) + 1 /\ tp.id = number
      /\ received \in Seq(TriggerPrimitive)
  BY NextTPNumbered
<1>2. reset(w, tp).inputs = <<tp>>  BY DEF reset
<1>3. Range(<<tp>>) = {tp} /\ Ids(<<tp>>) = {number}  BY <1>1, RangeOfOne
<1>4. tp.id \in DOMAIN Append(received, tp) /\ Append(received, tp)[tp.id] = tp  BY <1>1
<1> QED  BY <1>2, <1>3, <1>4 DEF FromStream

LEMMA AddHolds ==
  ASSUME Inv, NEW tp \in NextTPsFor, NEW w, w.inputs \in Seq(TriggerPrimitive),
         FromStream(w.inputs, received)
  PROVE  /\ Ids(add(w, tp).inputs) = Ids(w.inputs) \cup {number}
         /\ FromStream(add(w, tp).inputs, Append(received, tp))
<1>1. /\ tp \in TriggerPrimitive /\ tp.id = Len(received) + 1 /\ tp.id = number
      /\ received \in Seq(TriggerPrimitive)
  BY NextTPNumbered
<1>2. add(w, tp).inputs = Append(w.inputs, tp)  BY DEF add
<1>3. /\ Range(Append(w.inputs, tp)) = Range(w.inputs) \cup {tp}
      /\ Ids(Append(w.inputs, tp)) = Ids(w.inputs) \cup {tp.id}
  BY <1>1, RangeOfAppend
<1>4. tp.id \in DOMAIN Append(received, tp) /\ Append(received, tp)[tp.id] = tp  BY <1>1
<1>5. FromStream(w.inputs, Append(received, tp))  BY <1>1, FromLongerStream
<1> QED  BY <1>1, <1>2, <1>3, <1>4, <1>5 DEF FromStream

LEMMA MoveHolds ==
  ASSUME Inv, NEW tp \in NextTPsFor, NEW w, w.inputs \in Seq(TriggerPrimitive),
         FromStream(w.inputs, received), NEW length
  PROVE  LET u == move(w, tp, length)
         IN  /\ FromStream(u.inputs, Append(received, tp))
             /\ \E kept \in SUBSET Ids(w.inputs) :
                  /\ Ids(u.inputs) = kept \cup {number}
                  /\ \A x \in Ids(w.inputs) \ kept :
                       ~ fits(tp.time_start, received[x].time_start, length)
<1>1. /\ tp \in TriggerPrimitive /\ tp.id = Len(received) + 1 /\ tp.id = number
      /\ received \in Seq(TriggerPrimitive)
  BY NextTPNumbered
<1>2. PICK u : u = move(w, tp, length)  OBVIOUS
<1>3. /\ tp \in Range(u.inputs) /\ Range(u.inputs) \subseteq Range(w.inputs) \cup {tp}
      /\ \A d \in Range(w.inputs) \ Range(u.inputs) :
           ~ fits(tp.time_start, d.time_start, length)
  BY <1>1, <1>2, MoveTakes
<1>4. PICK kept : kept = Ids(u.inputs) \cap Ids(w.inputs)  OBVIOUS
<1>5. /\ Ids(u.inputs) = kept \cup {tp.id}
      /\ FromStream(u.inputs, Append(received, tp))
      /\ \A x \in Ids(w.inputs) \ kept :
           received[x] \in Range(w.inputs) \ Range(u.inputs)
  BY <1>1, <1>3, <1>4, ListTakes
<1>6. kept \in SUBSET Ids(w.inputs)  BY <1>4
<1>7. \A x \in Ids(w.inputs) \ kept : ~ fits(tp.time_start, received[x].time_start, length)
  BY <1>3, <1>5
<1> QED  BY <1>1, <1>2, <1>5, <1>6, <1>7

\* A list that is not empty has a number.
LEMMA SomeId ==
  ASSUME NEW list \in Seq(TriggerPrimitive), list # <<>>
  PROVE  Ids(list) # {}
<1>1. 1 \in DOMAIN list  OBVIOUS
<1> QED  BY <1>1 DEF Ids

\* The window of a sliding maker is one of the stream.
LEMMA SlidingHolds ==
  ASSUME Inv, HeldInv, maker \in Sliding
  PROVE  /\ m_current_window.inputs \in Seq(TriggerPrimitive)
         /\ FromStream(m_current_window.inputs, received)
         /\ Held = Ids(m_current_window.inputs)
         /\ maker \in Windowed /\ maker \notin Bundling /\ maker # "PlaneCoincidence"
<1>1. maker \in Windowed /\ maker \notin Bundling /\ maker # "PlaneCoincidence"
  BY DEF Sliding, Windowed, Bundling
<1>2. m_current_window.inputs \in Seq(TriggerPrimitive)
  BY WellKeptAgrees DEF Inv, HeldKept
<1> QED  BY <1>1, <1>2, HeldIs DEF HeldInv

\* What a maker that slides one window does with it is one of six things.
LEMMA SlidingTakes ==
  ASSUME Inv, HeldInv, maker \in Sliding, maker # "ChannelAdjacency", NEW tp \in NextTPsFor,
         take(tp),
         \* it starts the window, adds to it, moves it or (but not for want of a
         \* trigger when all are given out) leaves it alone,
         \/ /\ UNCHANGED output_ta
            /\ \/ /\ is_empty(m_current_window)
                  /\ m_current_window' = reset(m_current_window, tp)
               \/ m_current_window' = add(m_current_window, tp)
               \/ m_current_window' = move(m_current_window, tp, Length)
               \/ /\ m_current_window' = m_current_window
                  /\ maker = "HorizontalMuon" => m_config["prescale"] # 1
         \* or gives it out.
         \/ /\ ~ is_empty(m_current_window)
            /\ m_current_window' = reset(m_current_window, tp)
            /\ \E ta : /\ output_ta' = Append(output_ta, ta)
                       /\ ta.inputs = m_current_window.inputs
  PROVE  HeldInv' /\ Takes(tp)
<1>1. PICK w : w = m_current_window  OBVIOUS
<1>2. /\ w.inputs \in Seq(TriggerPrimitive) /\ FromStream(w.inputs, received)
      /\ Held = Ids(w.inputs)
      /\ maker \in Windowed /\ maker \notin Bundling /\ maker # "PlaneCoincidence"
  BY <1>1, SlidingHolds
<1>3. received' = Append(received, tp) /\ UNCHANGED <<maker, flushed>>  BY DEF take
<1>4. Held' = Ids(m_current_window'.inputs)  BY <1>2, <1>3, HeldBecomes
<1>5. maker # "Supernova" /\ maker # "BundleN"  BY <1>2 DEF Bundling
<1>6. ASSUME FromStream(m_current_window'.inputs, Append(received, tp)) PROVE HeldInv'
  BY <1>2, <1>3, <1>5, <1>6 DEF HeldInv, FromStream
<1>7. ASSUME Accounts(Held) PROVE Takes(tp)
  <2>1. NoneDropped(Held, tp)  BY <1>5, <1>7 DEF NoneDropped
  <2> QED  BY <1>7, <2>1 DEF Takes
<1>8. FromStream(reset(w, tp).inputs, Append(received, tp)) /\ Ids(reset(w, tp).inputs) = {number}
  BY ResetHolds
<1>9. CASE /\ UNCHANGED output_ta /\ is_empty(w)
           /\ m_current_window' = reset(w, tp)
  <2>1. Held = {}  BY <1>2, <1>9, RangeOfNone DEF is_empty
  <2>2. Accounts(Held)  BY <1>4, <1>8, <1>9, <2>1 DEF Accounts
  <2> QED  BY <1>6, <1>7, <1>8, <1>9, <2>2
<1>10. CASE UNCHANGED output_ta /\ m_current_window' = add(w, tp)
  <2>1. /\ Ids(add(w, tp).inputs) = Held \cup {number}
        /\ FromStream(add(w, tp).inputs, Append(received, tp))
    BY <1>2, AddHolds
  <2>2. Accounts(Held)  BY <1>4, <1>10, <2>1 DEF Accounts
  <2> QED  BY <1>6, <1>7, <1>10, <2>1, <2>2
<1>11. CASE UNCHANGED output_ta /\ m_current_window' = move(w, tp, Length)
  <2>1. PICK u, length : u = move(w, tp, length) /\ length = Length  OBVIOUS
  <2>2. /\ FromStream(u.inputs, Append(received, tp))
        /\ \E kept \in SUBSET Held :
             /\ Ids(u.inputs) = kept \cup {number}
             /\ \A x \in Held \ kept : ~ fits(tp.time_start, received[x].time_start, length)
    BY <1>2, <2>1, MoveHolds
  <2>3. PICK kept \in SUBSET Held :
          /\ Ids(u.inputs) = kept \cup {number}
          /\ \A x \in Held \ kept : ~ fits(tp.time_start, received[x].time_start, length)
    BY <2>2
  <2>4. Accounts(kept)  BY <1>4, <1>11, <2>1, <2>3 DEF Accounts
  <2>5. NoneDropped(kept, tp)  BY <1>5, <2>1, <2>3, <2>4 DEF NoneDropped
  <2>6. Takes(tp)  BY <2>4, <2>5 DEF Takes
  <2> QED  BY <1>6, <1>11, <2>1, <2>2, <2>6
<1>12. CASE /\ UNCHANGED output_ta /\ m_current_window' = w
            /\ maker = "HorizontalMuon" => m_config["prescale"] # 1
  <2>1. Passes(Held)  BY <1>2, <1>4, <1>12 DEF Passes
  <2>2. NoneDropped(Held, tp)  BY <1>5, <1>12 DEF NoneDropped
  <2>3. Takes(tp)  BY <2>1, <2>2 DEF Takes
  <2>4. FromStream(w.inputs, Append(received, tp))
    BY <1>2, NextTPNumbered, FromLongerStream
  <2> QED  BY <1>6, <1>12, <2>3, <2>4
<1>13. CASE /\ ~ is_empty(w) /\ m_current_window' = reset(w, tp)
            /\ \E ta : output_ta' = Append(output_ta, ta) /\ ta.inputs = w.inputs
  <2>1. GivesOut(Held)  BY <1>2, <1>13 DEF GivesOut
  <2>2. Held # {}  BY <1>2, <1>13, SomeId DEF is_empty
  <2>3. Accounts(Held)  BY <1>4, <1>8, <1>13, <2>1, <2>2 DEF Accounts
  <2> QED  BY <1>6, <1>7, <1>8, <1>13, <2>3
<1> QED  BY <1>1, <1>9, <1>10, <1>11, <1>12, <1>13

LEMMA HorizontalMuonTakes ==
  ASSUME Inv, HeldInv, m_ta_count \in Nat, maker = "HorizontalMuon", NEW tp \in NextTPsFor,
         receive_hm(tp)
  PROVE  HeldInv' /\ Takes(tp)
<1>1. maker \in Sliding /\ maker # "ChannelAdjacency" /\ take(tp)
  BY DEF Sliding, receive_hm
<1>2. m_config["prescale"] = 1 => emits
  <2>1. UIntPlus(m_ta_count, 1, CountModulus) \in Int
    BY ChannelStatesAssumption DEF UIntPlus
  <2> QED  BY <2>1 DEF emits
<1>3. construct_ta_hm(m_current_window).inputs = m_current_window.inputs
  BY DEF construct_ta_hm, ta_of
<1>4. CASE first_tp(tp)  BY <1>1, <1>4, SlidingTakes DEF first_tp
<1>5. CASE fill_window(tp)  BY <1>1, <1>5, SlidingTakes DEF fill_window
<1>6. CASE emit_ta(tp) \/ emit_ta_on_tot(tp)
  BY <1>1, <1>3, <1>6, SlidingTakes DEF emit_ta, emit_ta_on_tot, window_closed
<1>7. CASE prescale_out(tp)  BY <1>1, <1>2, <1>7, SlidingTakes DEF prescale_out
<1>8. CASE slide_window(tp)  BY <1>1, <1>8, SlidingTakes DEF slide_window, Length
<1> QED  BY <1>4, <1>5, <1>6, <1>7, <1>8 DEF receive_hm

LEMMA MichelElectronTakes ==
  ASSUME Inv, HeldInv, maker = "MichelElectron", NEW tp \in NextTPsFor, receive_me(tp)
  PROVE  HeldInv' /\ Takes(tp)
<1>1. maker \in Sliding /\ maker # "ChannelAdjacency" /\ take(tp)
  BY DEF Sliding, receive_me
<1>2. construct_ta_me(m_current_window).inputs = m_current_window.inputs
  BY DEF construct_ta_me, ta_of
<1>3. CASE me_first_tp(tp)  BY <1>1, <1>3, SlidingTakes DEF me_first_tp, reset_me
<1>4. CASE me_fill_window(tp)  BY <1>1, <1>4, SlidingTakes DEF me_fill_window, add_me
<1>5. CASE emit_michel(tp)  BY <1>1, <1>2, <1>5, SlidingTakes DEF emit_michel, reset_me
<1>6. CASE ignore_tp(tp)  BY <1>1, <1>6, SlidingTakes DEF ignore_tp
<1>7. CASE me_slide_window(tp)
  BY <1>1, <1>7, SlidingTakes DEF me_slide_window, move_me, Length
<1> QED  BY <1>3, <1>4, <1>5, <1>6, <1>7 DEF receive_me

-----------------------------------------------------------------------------
(* The makers without a window *)

\* Prescale holds nothing: a TP goes out by itself or not at all.
LEMMA PrescaleTakes ==
  ASSUME Inv, HeldInv, maker = "Prescale", NEW tp \in NextTPsFor, receive_prescale(tp)
  PROVE  HeldInv' /\ Takes(tp)
<1>1. UNCHANGED <<maker, flushed>>  BY DEF receive_prescale, take
<1>2. Held = {} /\ Held' = {}  BY <1>1, HeldIs, HeldBecomes
<1>3. HeldInv'  BY <1>1 DEF HeldInv, Windowed, Bundling
<1>4. Accounts({}) \/ Passes({})
  <2>1. CASE UNCHANGED output_ta  BY <1>2, <2>1 DEF Passes
  <2>2. CASE output_ta' = Append(output_ta, ta_of_tps(<<tp>>))
    <3>1. ta_of_tps(<<tp>>).inputs = <<tp>>  BY DEF ta_of_tps, ta_of
    <3>2. Ids(<<tp>>) = {number}  BY RangeOfOne, NextTPNumbered
    <3>3. GivesOut({} \cup {number})  BY <2>2, <3>1, <3>2 DEF GivesOut
    <3> QED  BY <1>2, <3>3 DEF Accounts
  <2> QED  BY <2>1, <2>2 DEF receive_prescale
<1>5. NoneDropped({}, tp)  BY DEF NoneDropped
<1> QED  BY <1>2, <1>3, <1>4, <1>5 DEF Takes

\* The TPs of a TA in progress, with the one that came.
LEMMA BundleHolds ==
  ASSUME Inv, HeldInv, maker \in Bundling, ~ flushed, NEW tp \in NextTPsFor,
         take(tp)
  PROVE  /\ m_current_ta \in Seq(TriggerPrimitive)
         /\ Append(m_current_ta, tp) \in Seq(TriggerPrimitive)
         /\ Append(m_current_ta, tp) # <<>> /\ <<tp>> \in Seq(TriggerPrimitive)
         /\ Held = Ids(m_current_ta) /\ Held' = Ids(m_current_ta')
         /\ Ids(Append(m_current_ta, tp)) = Held \cup {number} /\ Ids(<<tp>>) = {number}
         /\ m_current_ta # <<>> => Held # {}
<1>1. PICK tps \in Seq(TriggerPrimitive) : tps = m_current_ta  BY DEF HeldInv
<1>2. tp \in TriggerPrimitive /\ tp.id = number  BY NextTPNumbered
<1>3. Append(tps, tp) \in Seq(TriggerPrimitive) /\ Append(tps, tp) # <<>>
      /\ <<tp>> \in Seq(TriggerPrimitive)
  <2>1. PICK e \in TriggerPrimitive : e = tp  BY <1>2
  <2>2. Append(tps, e) \in Seq(TriggerPrimitive)  OBVIOUS
  <2>3. Append(tps, e) # <<>>  BY AppendProperties
  <2>4. <<e>> \in Seq(TriggerPrimitive)  OBVIOUS
  <2> QED  BY <2>1, <2>2, <2>3, <2>4
<1>4. Held = Ids(tps) /\ Held' = Ids(m_current_ta')
  BY <1>1, HeldIs, HeldBecomes DEF take
<1>5. Ids(Append(tps, tp)) = Ids(tps) \cup {number}  BY <1>2, RangeOfAppend
<1>6. Ids(<<tp>>) = {number}  BY <1>2, RangeOfOne
<1>7. tps # <<>> => Ids(tps) # {}  BY SomeId
<1> QED  BY <1>1, <1>3, <1>4, <1>5, <1>6, <1>7

LEMMA BundleNTakes ==
  ASSUME Inv, HeldInv, maker = "BundleN", ~ flushed, NEW tp \in NextTPsFor,
         receive_bundle(tp)
  PROVE  HeldInv' /\ Takes(tp)
<1>1. maker \in Bundling /\ take(tp) /\ UNCHANGED maker
  BY DEF Bundling, receive_bundle, take
<1>2. PICK more \in Seq(TriggerPrimitive) :
        /\ more = Append(m_current_ta, tp) /\ Ids(more) = Held \cup {number}
        /\ Held' = Ids(m_current_ta')
  BY <1>1, BundleHolds
<1>3. Accounts(Held) /\ m_current_ta' \in Seq(TriggerPrimitive)
  <2>1. CASE grow_bundle(tp)
    BY <1>2, <2>1 DEF grow_bundle, Accounts
  <2>2. CASE emit_bundle(tp)
    <3>1. m_current_ta' = <<>> /\ output_ta' = Append(output_ta, ta_of_tps(more))
      BY <1>2, <2>2 DEF emit_bundle
    <3>2. ta_of_tps(more).inputs = more  BY DEF ta_of_tps, ta_of
    <3>3. GivesOut(Held \cup {number})  BY <1>2, <3>1, <3>2 DEF GivesOut
    <3>4. Held' = {}  BY <1>2, <3>1, RangeOfNone
    <3>5. <<>> \in Seq(TriggerPrimitive)  OBVIOUS
    <3> QED  BY <3>1, <3>3, <3>4, <3>5 DEF Accounts
  <2> QED  BY <2>1, <2>2 DEF receive_bundle
<1>4. HeldInv'  BY <1>1, <1>3 DEF HeldInv, Windowed
<1>5. NoneDropped(Held, tp)  BY <1>3 DEF NoneDropped
<1> QED  BY <1>3, <1>4, <1>5 DEF Takes

LEMMA ChannelDistanceTakes ==
  ASSUME Inv, HeldInv, maker = "ChannelDistance", ~ flushed, NEW tp \in NextTPsFor,
         receive_distance(tp)
  PROVE  HeldInv' /\ Takes(tp)
<1>1. maker \in Bundling /\ take(tp) /\ UNCHANGED maker
  BY DEF Bundling, receive_distance, take
<1>2. /\ m_current_ta \in Seq(TriggerPrimitive)
      /\ Append(m_current_ta, tp) \in Seq(TriggerPrimitive) /\ <<tp>> \in Seq(TriggerPrimitive)
      /\ Ids(Append(m_current_ta, tp)) = Held \cup {number} /\ Ids(<<tp>>) = {number}
      /\ Held = Ids(m_current_ta) /\ Held' = Ids(m_current_ta')
      /\ m_current_ta # <<>> => Held # {}
  BY <1>1, BundleHolds
<1>3. \A kept : NoneDropped(kept, tp)  BY DEF NoneDropped
<1>4. m_current_ta' \in Seq(TriggerPrimitive) => HeldInv'
  BY <1>1 DEF HeldInv, Windowed
<1>5. CASE start_cluster(tp) \/ drop_cluster(tp)
  <2>1. m_current_ta' = <<tp>> /\ UNCHANGED output_ta
    BY <1>5 DEF start_cluster, drop_cluster, set_new_ta
  <2>2. {} \in SUBSET Held /\ Accounts({})  BY <1>2, <2>1 DEF Accounts
  <2> QED  BY <1>2, <1>3, <1>4, <2>1, <2>2 DEF Takes
<1>6. CASE emit_cluster(tp)
  <2>1. /\ m_current_ta # <<>> /\ m_current_ta' = <<tp>>
        /\ output_ta' = Append(output_ta, ta_of_tps(m_current_ta))
    BY <1>6 DEF emit_cluster, set_new_ta
  <2>2. ta_of_tps(m_current_ta).inputs = m_current_ta  BY DEF ta_of_tps, ta_of
  <2>3. GivesOut(Held)  BY <1>2, <2>1, <2>2 DEF GivesOut
  <2>4. Accounts(Held)  BY <1>2, <2>1, <2>3 DEF Accounts
  <2> QED  BY <1>2, <1>3, <1>4, <2>1, <2>4 DEF Takes
<1>7. CASE skip_tp(tp)
  <2>1. Passes(Held)  BY <1>2, <1>7 DEF skip_tp, Passes
  <2> QED  BY <1>2, <1>3, <1>4, <1>7, <2>1 DEF Takes, skip_tp
<1>8. CASE grow_cluster(tp)
  <2>1. Accounts(Held)  BY <1>2, <1>8 DEF grow_cluster, Accounts
  <2> QED  BY <1>2, <1>3, <1>4, <1>8, <2>1 DEF Takes, grow_cluster
<1> QED  BY <1>5, <1>6, <1>7, <1>8 DEF receive_distance

\* The times of a stream after one more TP.
LEMMA TimesAppend ==
  ASSUME Inv, NEW tp \in NextTPsFor
  PROVE  TimesOf(Append(received, tp)) = TimesOf(received) \cup {tp.time_start}
<1>1. PICK s \in Seq(TriggerPrimitive) : s = received  BY NextTPNumbered
<1>2. tp \in TriggerPrimitive  BY NextTPNumbered
<1>3. PICK m \in Nat : m = Len(s) /\ DOMAIN s = 1 .. m  OBVIOUS
<1>4. PICK more \in Seq(TriggerPrimitive) :
        /\ more = Append(s, tp) /\ DOMAIN more = 1 .. (m + 1) /\ more[m + 1] = tp
        /\ \A i \in 1 .. m : more[i] = s[i]
  <2>1. Append(s, tp) \in Seq(TriggerPrimitive)  BY <1>2
  <2>2. PICK more \in Seq(TriggerPrimitive) : more = Append(s, tp)  BY <2>1
  <2>3. DOMAIN more = 1 .. (m + 1) /\ more[m + 1] = tp
    BY <1>2, <1>3, <2>2
  <2>4. \A i \in 1 .. m : more[i] = s[i]  BY <1>2, <1>3, <2>2
  <2> QED  BY <2>2, <2>3, <2>4
<1>5. 1 .. (m + 1) = (1 .. m) \cup {m + 1}  OBVIOUS
<1>6. TimesOf(more) = TimesOf(s) \cup {tp.time_start}  BY <1>3, <1>4, <1>5 DEF TimesOf
<1> QED  BY <1>1, <1>4, <1>6

LEMMA SupernovaTakes ==
  ASSUME Inv, HeldInv, StreamInv, maker = "Supernova", ~ flushed, NEW tp \in NextTPsFor,
         receive_supernova(tp)
  PROVE  HeldInv' /\ Takes(tp)
<1>1. maker \in Bundling /\ take(tp) /\ UNCHANGED maker /\ received' = Append(received, tp)
  BY DEF Bundling, receive_supernova, take
<1>2. /\ m_current_ta \in Seq(TriggerPrimitive)
      /\ Append(m_current_ta, tp) \in Seq(TriggerPrimitive) /\ <<tp>> \in Seq(TriggerPrimitive)
      /\ Append(m_current_ta, tp) # <<>>
      /\ Ids(Append(m_current_ta, tp)) = Held \cup {number} /\ Ids(<<tp>>) = {number}
      /\ Held = Ids(m_current_ta) /\ Held' = Ids(m_current_ta')
      /\ m_current_ta # <<>> => Held # {}
  BY <1>1, BundleHolds
<1>3. TimesOf(received') = TimesOf(received) \cup {tp.time_start}  BY <1>1, TimesAppend
<1>4. <<tp>> # <<>>  OBVIOUS
<1>5. ASSUME m_current_ta' \in Seq(TriggerPrimitive), m_current_ta' # <<>>,
             m_extent'.time_start \in TimesOf(received')
      PROVE  HeldInv'
  BY <1>1, <1>5 DEF HeldInv, Windowed, TimesOf
<1>6. extent_of(tp).time_start = tp.time_start  BY DEF extent_of
<1>7. CASE begin_supernova(tp)
  <2>1. m_current_ta' = <<tp>> /\ m_extent' = extent_of(tp) /\ UNCHANGED output_ta
    BY <1>7 DEF begin_supernova
  <2>2. HeldInv'  BY <1>2, <1>3, <1>4, <1>5, <1>6, <2>1
  <2>3. {} \in SUBSET Held /\ Accounts({})  BY <1>2, <2>1 DEF Accounts
  <2>4. NoneDropped({}, tp)
    <3>1. ASSUME received = <<>> PROVE Held = {}
      BY <1>2, <3>1, RangeOfNone DEF Inv, Untouched
    <3>2. ASSUME received # <<>> PROVE 0 \in TimesOf(received)
      BY <1>7, <3>2 DEF HeldInv, begin_supernova
    <3> QED  BY <2>3, <3>1, <3>2 DEF NoneDropped
  <2> QED  BY <2>2, <2>3, <2>4 DEF Takes
<1>8. CASE emit_supernova(tp)
  <2>1. /\ m_current_ta' = <<tp>> /\ m_extent' = extent_of(tp) /\ m_extent.time_start # 0
        /\ output_ta' = Append(output_ta, MakeTriggerActivity)
    BY <1>8 DEF emit_supernova
  <2>2. HeldInv'  BY <1>2, <1>3, <1>4, <1>5, <1>6, <2>1
  <2>3. MakeTriggerActivity.inputs = m_current_ta  BY DEF MakeTriggerActivity, ta_of
  <2>4. GivesOut(Held)  BY <1>2, <2>1, <2>3 DEF GivesOut
  <2>5. Held # {}
    <3>1. received # <<>>  BY <2>1 DEF StreamInv, NoExtent
    <3> QED  BY <1>2, <3>1 DEF HeldInv
  <2>6. Accounts(Held)  BY <1>2, <2>1, <2>4, <2>5 DEF Accounts
  <2>7. NoneDropped(Held, tp)  BY <2>6 DEF NoneDropped
  <2> QED  BY <2>2, <2>6, <2>7 DEF Takes
<1>9. CASE grow_supernova(tp)
  <2>1. /\ m_current_ta' = Append(m_current_ta, tp) /\ m_extent' = merged(m_extent, tp)
        /\ UNCHANGED output_ta /\ m_extent.time_start # 0
    BY <1>9 DEF grow_supernova
  <2>2. m_extent'.time_start \in {m_extent.time_start, tp.time_start}
    BY <2>1 DEF merged, merged_upwards
  <2>3. received # <<>>  BY <2>1 DEF StreamInv, NoExtent
  <2>4. m_extent'.time_start \in TimesOf(received')
    BY <1>3, <2>2, <2>3 DEF HeldInv
  <2>5. HeldInv'  BY <1>2, <1>5, <2>1, <2>4
  <2>6. Accounts(Held)  BY <1>2, <2>1 DEF Accounts
  <2>7. NoneDropped(Held, tp)  BY <2>6 DEF NoneDropped
  <2> QED  BY <2>5, <2>6, <2>7 DEF Takes
<1> QED  BY <1>7, <1>8, <1>9 DEF receive_supernova

-----------------------------------------------------------------------------
(* PlaneCoincidence *)

\* The collection window is given out for its track, so it has one.
LEMMA NoTrackInNothing ==
  ASSUME Inv, maker = "PlaneCoincidence", NEW w, w.inputs = <<>>
  PROVE  ~ (check_adjacency_pc(w) >= m_config["adjacency_threshold"])
<1>1. m_config["adjacency_threshold"] \in Nat /\ m_config["adjacency_threshold"] > 0
  <2>1. maker \in Makers  BY TriggerActivityFactoryAssumption
  <2>2. "adjacency_threshold" \in DOMAIN m_config /\ ValidConfig(m_config, maker)
    BY <2>1, TriggerActivityFactoryAssumption DEF Inv, Configured, Members
  <2>3. "adjacency_threshold" \notin Switches  BY DEF Switches
  <2> QED  BY <2>2, <2>3 DEF ValidConfig
<1>2. PICK list : list = ChannelList(by_channel(w.inputs))  OBVIOUS
<1>3. list = <<>> /\ Len(list) = 0
  <2>1. PICK s \in Seq(TriggerPrimitive) : s = by_channel(w.inputs) /\ Len(s) = 0
    <3>1. <<>> \in Seq(TriggerPrimitive) /\ Len(<<>>) = 0  OBVIOUS
    <3> QED  BY <3>1, ByChannel
  <2>2. DOMAIN s = {}  BY <2>1
  <2>3. ChannelList(s) = [i \in {} |-> s[i].channel]  BY <2>2 DEF ChannelList
  <2>4. [i \in {} |-> s[i].channel] = <<>>  OBVIOUS
  <2> QED  BY <1>2, <2>1, <2>3, <2>4
<1> DEFINE next(i, v) == iterate_pc(v, wire_gap(list[i], next_in(list, i)),
                                    m_config["adj_tolerance"])
           Runs(g) == g = [i \in 0 .. Len(list) |-> IF i = 0 THEN Start ELSE next(i, g[i - 1])]
<1>4. Runs([i \in 0 .. 0 |-> Start])
  <2> HIDE DEF next
  <2> QED  BY <1>3
<1>5. PICK f : Runs(f) /\ check_adjacency_pc(w) = f[0].max
  <2> DEFINE f == CHOOSE f : Runs(f)
  <2>1. check_adjacency_pc(w) = f[Len(list)].max  BY <1>2 DEF check_adjacency_pc
  <2> HIDE DEF Runs
  <2>2. Runs(f)  BY <1>4
  <2> QED  BY <1>3, <2>1, <2>2
<1>6. f[0] = Start
  <2> HIDE DEF next
  <2> QED  BY <1>3, <1>5
<1> QED  BY <1>1, <1>5, <1>6 DEF Start

\* A TP that was added to the collection window does not close it.
LEMMA CollectionCompleteBefore ==
  ASSUME Inv, maker = "PlaneCoincidence", NEW tp \in NextTPsFor,
         collectionComplete(tp, windows_with(tp))
  PROVE  windows_with(tp)["Z"] = m_plane_windows["Z"]
<1>1. DOMAIN m_plane_windows = Planes  BY DEF Inv, HeldKept
<1>2. PICK z : z = m_plane_windows["Z"]  OBVIOUS
<1>3. "Z" \in Planes  BY DEF Planes
<1>4. CASE /\ PlaneOf[tp.channel] = "Z" /\ fits_window(tp, z)
  <2>1. windows_with(tp)["Z"] = add(z, tp)
    BY <1>1, <1>2, <1>3, <1>4 DEF windows_with
  <2>2. add(z, tp).time_start = z.time_start  BY DEF add
  <2>3. elapsed(tp.time_start, z.time_start) > Length
    BY <2>1, <2>2 DEF collectionComplete, Length
  <2>4. elapsed(tp.time_start, z.time_start) < Length
    BY <1>4 DEF fits_window, fits, Length
  <2>5. Length \in Nat
    <3>1. maker \in Timed  BY DEF Timed
    <3> QED  BY <3>1, LengthIsNat DEF Inv
  <2>6. elapsed(tp.time_start, z.time_start) \in Int
    <3>1. z.time_start \in Nat
      BY <1>2, <1>3, TimeModulusAssumption
      DEF Inv, HeldKept, WellKept, ListKept, Charged, IsWindow, Timestamps
    <3>2. tp.time_start \in Nat  BY NextTPInOrder DEF Inv
    <3> QED  BY <3>1, <3>2, TimeModulusAssumption DEF elapsed, UIntMinus
  <2> QED  BY <2>3, <2>4, <2>5, <2>6
<1>5. CASE ~ (PlaneOf[tp.channel] = "Z" /\ fits_window(tp, z))
  BY <1>1, <1>2, <1>3, <1>5 DEF windows_with
<1> QED  BY <1>4, <1>5

\* What happens to the collection window is one of six things.
LEMMA CollectionTakes ==
  ASSUME Inv, HeldInv, maker = "PlaneCoincidence", NEW tp \in NextTPsFor, take(tp),
         NEW z, z = m_plane_windows["Z"], NEW u, u = m_plane_windows'["Z"],
         \/ /\ UNCHANGED output_ta
            /\ \/ is_empty(z) /\ u = reset(z, tp)
               \/ u = add(z, tp)
               \/ u = move(z, tp, Length)
               \/ u = z
         \/ /\ ~ is_empty(z)
            /\ u = reset(z, tp) \/ u = EmptyWindow
            /\ \E ta : output_ta' = Append(output_ta, ta) /\ ta.inputs = z.inputs
  PROVE  HeldInv' /\ Takes(tp)
<1>1. "Z" \in Planes /\ maker \notin Windowed /\ maker \notin Bundling
      /\ maker # "Supernova" /\ maker # "BundleN"
  BY DEF Planes, Windowed, Bundling
<1>2. /\ z.inputs \in Seq(TriggerPrimitive) /\ FromStream(z.inputs, received)
      /\ Held = Ids(z.inputs)
  <2>1. z.inputs \in Seq(TriggerPrimitive)
    BY <1>1, WellKeptAgrees DEF Inv, HeldKept
  <2> QED  BY <2>1, HeldIs DEF HeldInv
<1>3. received' = Append(received, tp) /\ UNCHANGED <<maker, flushed>>  BY DEF take
<1>4. Held' = Ids(u.inputs)  BY <1>3, HeldBecomes
<1>5. ASSUME FromStream(u.inputs, Append(received, tp)) PROVE HeldInv'
  BY <1>1, <1>3, <1>5 DEF HeldInv, FromStream
<1>6. \A kept : NoneDropped(kept, tp)  BY <1>1 DEF NoneDropped
<1>7. FromStream(reset(z, tp).inputs, Append(received, tp)) /\ Ids(reset(z, tp).inputs) = {number}
  BY ResetHolds
<1>8. CASE UNCHANGED output_ta /\ is_empty(z) /\ u = reset(z, tp)
  <2>1. Held = {}  BY <1>2, <1>8, RangeOfNone DEF is_empty
  <2>2. Accounts(Held)  BY <1>4, <1>7, <1>8, <2>1 DEF Accounts
  <2> QED  BY <1>5, <1>6, <1>7, <1>8, <2>2 DEF Takes
<1>9. CASE UNCHANGED output_ta /\ u = add(z, tp)
  <2>1. /\ Ids(add(z, tp).inputs) = Held \cup {number}
        /\ FromStream(add(z, tp).inputs, Append(received, tp))
    BY <1>2, AddHolds
  <2>2. Accounts(Held)  BY <1>4, <1>9, <2>1 DEF Accounts
  <2> QED  BY <1>5, <1>6, <1>9, <2>1, <2>2 DEF Takes
<1>10. CASE UNCHANGED output_ta /\ u = move(z, tp, Length)
  <2>1. PICK length : length = Length  OBVIOUS
  <2>2. /\ FromStream(u.inputs, Append(received, tp))
        /\ \E kept \in SUBSET Held :
             /\ Ids(u.inputs) = kept \cup {number}
             /\ \A x \in Held \ kept : ~ fits(tp.time_start, received[x].time_start, length)
    BY <1>2, <1>10, <2>1, MoveHolds
  <2>3. PICK kept \in SUBSET Held : Ids(u.inputs) = kept \cup {number}  BY <2>2
  <2>4. Accounts(kept)  BY <1>4, <1>10, <2>3 DEF Accounts
  <2> QED  BY <1>5, <1>6, <2>2, <2>4 DEF Takes
<1>11. CASE UNCHANGED output_ta /\ u = z
  <2>1. Passes(Held)  BY <1>2, <1>4, <1>11 DEF Passes
  <2>2. FromStream(z.inputs, Append(received, tp))
    BY <1>2, NextTPNumbered, FromLongerStream
  <2> QED  BY <1>5, <1>6, <1>11, <2>1, <2>2 DEF Takes
<1>12. CASE /\ ~ is_empty(z)
            /\ u = reset(z, tp) \/ u = EmptyWindow
            /\ \E ta : output_ta' = Append(output_ta, ta) /\ ta.inputs = z.inputs
  <2>1. GivesOut(Held) /\ Held # {}
    BY <1>2, <1>12, SomeId DEF GivesOut, is_empty
  <2>2. CASE u = reset(z, tp)
    <3>1. Accounts(Held)  BY <1>4, <1>7, <2>1, <2>2 DEF Accounts
    <3> QED  BY <1>5, <1>6, <1>7, <2>2, <3>1 DEF Takes
  <2>3. CASE u = EmptyWindow
    <3>1. u.inputs = <<>>  BY <2>3 DEF EmptyWindow
    <3>2. Held' = {}  BY <1>4, <3>1, RangeOfNone
    <3>3. Passes(Held)  BY <2>1, <3>2 DEF Passes
    <3>4. FromStream(u.inputs, Append(received, tp))  BY <3>1, RangeOfNone DEF FromStream
    <3> QED  BY <1>5, <1>6, <3>3, <3>4 DEF Takes
  <2> QED  BY <1>12, <2>2, <2>3
<1> QED  BY <1>8, <1>9, <1>10, <1>11, <1>12

LEMMA PlaneCoincidenceTakes ==
  ASSUME Inv, HeldInv, maker = "PlaneCoincidence", NEW tp \in NextTPsFor, receive_pc(tp)
  PROVE  HeldInv' /\ Takes(tp)
<1>1. take(tp)  BY DEF receive_pc
<1>2. DOMAIN m_plane_windows = Planes /\ "Z" \in Planes  BY DEF Inv, HeldKept, Planes
<1>3. PICK z, u, ws, plane :
        /\ z = m_plane_windows["Z"] /\ u = m_plane_windows'["Z"]
        /\ ws = windows_with(tp) /\ plane = PlaneOf[tp.channel]
  OBVIOUS
<1>4. CASE first_in_plane(tp)
  <2>1. /\ plane \in Planes /\ is_empty(m_plane_windows[plane]) /\ UNCHANGED output_ta
        /\ m_plane_windows' = [m_plane_windows EXCEPT ![plane] = reset(@, tp)]
    BY <1>3, <1>4 DEF first_in_plane
  <2>2. (is_empty(z) /\ u = reset(z, tp)) \/ u = z  BY <1>2, <1>3, <2>1
  <2> QED  BY <1>1, <1>3, <2>1, <2>2, CollectionTakes
<1>5. CASE wait_for_collection(tp)
  <2>1. m_plane_windows' = ws /\ UNCHANGED output_ta
    BY <1>3, <1>5 DEF wait_for_collection
  <2>2. ws["Z"] = add(z, tp) \/ ws["Z"] = z  BY <1>2, <1>3 DEF windows_with
  <2>3. u = add(z, tp) \/ u = z  BY <1>3, <2>1, <2>2
  <2> QED  BY <1>1, <1>3, <2>1, <2>3, CollectionTakes
<1>6. CASE emit_collection(tp)
  <2>1. /\ collectionComplete(tp, ws) /\ coincides(ws)
        /\ output_ta' = Append(output_ta, construct_ta_pc(ws["Z"]))
        /\ m_plane_windows' = [p \in Planes |->
             IF p = plane THEN reset(m_plane_windows[p], tp) ELSE clear(m_plane_windows[p])]
    BY <1>3, <1>6 DEF emit_collection
  <2>2. ws["Z"] = z  BY <1>3, <2>1, CollectionCompleteBefore
  <2>3. ~ is_empty(z)
    <3>1. check_adjacency_pc(z) >= m_config["adjacency_threshold"]
      BY <2>1, <2>2 DEF coincides
    <3> QED  BY <3>1, NoTrackInNothing DEF is_empty
  <2>4. u = reset(z, tp) \/ u = EmptyWindow  BY <1>2, <1>3, <2>1 DEF clear
  <2>5. construct_ta_pc(ws["Z"]).inputs = z.inputs  BY <2>2 DEF construct_ta_pc, ta_of
  <2> QED  BY <1>1, <1>3, <2>1, <2>3, <2>4, <2>5, CollectionTakes
<1>7. CASE slide_plane(tp)
  <2>1. /\ collectionComplete(tp, ws) /\ UNCHANGED output_ta
        /\ m_plane_windows' = IF plane \in Planes
                              THEN [ws EXCEPT ![plane] = move(@, tp, Length)] ELSE ws
    BY <1>3, <1>7 DEF slide_plane, Length
  <2>2. ws["Z"] = z  BY <1>3, <2>1, CollectionCompleteBefore
  <2>3. DOMAIN ws = Planes  BY <1>2, <1>3 DEF windows_with
  <2>4. u = move(z, tp, Length) \/ u = z  BY <1>2, <1>3, <2>1, <2>2, <2>3
  <2> QED  BY <1>1, <1>3, <2>1, <2>4, CollectionTakes
<1> QED  BY <1>4, <1>5, <1>6, <1>7 DEF receive_pc

-----------------------------------------------------------------------------
(* ChannelAdjacency *)

LEMMA TrackInputs ==
  ASSUME NEW track
  PROVE  construct_ta_ca(track).inputs = track.inputs
BY DEF construct_ta_ca, ta_of

\* The TAs let through, one track at a time.
LEMMA PassedSteps ==
  ASSUME NEW tracks \in Seq(Windows)
  PROVE  LET made == { construct_ta_ca(tracks[k]) : k \in DOMAIN tracks }
         IN  /\ \A n \in 0 .. Len(tracks) : passed(tracks)[n] \in Seq(made)
             /\ passed(tracks)[0] = <<>>
             /\ \A n \in 1 .. Len(tracks) :
                  passed(tracks)[n] = IF passes_prescale(n)
                                      THEN Append(passed(tracks)[n - 1], construct_ta_ca(tracks[n]))
                                      ELSE passed(tracks)[n - 1]
<1>1. PICK N \in Nat : N = Len(tracks) /\ DOMAIN tracks = 1 .. N  OBVIOUS
<1>2. PICK made : made = { construct_ta_ca(tracks[k]) : k \in DOMAIN tracks }  OBVIOUS
<1>3. PICK ta : ta = [n \in 1 .. N |-> construct_ta_ca(tracks[n])]  OBVIOUS
<1>4. \A n \in 1 .. N : ta[n] = construct_ta_ca(tracks[n]) /\ ta[n] \in made
  BY <1>1, <1>2, <1>3
<1> DEFINE Step(n, s) == IF passes_prescale(n) THEN Append(s, construct_ta_ca(tracks[n])) ELSE s
           Runs(g) == g = [n \in 0 .. Len(tracks) |-> IF n = 0 THEN <<>> ELSE Step(n, g[n - 1])]
           V == Seq(made)
<1>5. ASSUME NEW n \in 1 .. N, NEW s \in V PROVE Step(n, s) \in V
  <2>1. Append(s, ta[n]) \in V  BY <1>4
  <2> QED  BY <1>4, <2>1
<1>6. <<>> \in V  OBVIOUS
<1> HIDE DEF V, Step
<1>7. PICK step : step = [n \in 1 .. N |-> [s \in V |-> Step(n, s)]]  OBVIOUS
<1>8. step \in [1 .. N -> [V -> V]]  BY <1>5, <1>7
<1>9. PICK g \in [0 .. N -> V] : g[0] = <<>> /\ \A n \in 1 .. N : g[n] = step[n][g[n - 1]]
  <2>1. LoopRuns(V, <<>>, N, step) # {}  BY <1>6, <1>8, LoopHasARun
  <2> QED  BY <2>1 DEF LoopRuns
<1>10. Runs(g)
  <2>1. ASSUME NEW n \in 1 .. N PROVE g[n] = Step(n, g[n - 1])
    <3>1. n - 1 \in 0 .. N /\ g[n - 1] \in V  OBVIOUS
    <3> QED  BY <1>7, <1>9, <3>1
  <2>2. \A n \in 0 .. N : n = 0 \/ n \in 1 .. N  OBVIOUS
  <2> QED  BY <1>1, <1>9, <2>1, <2>2
<1>11. PICK f : f = passed(tracks) /\ f = CHOOSE h : Runs(h)
  BY DEF passed, Step
<1> HIDE DEF Runs
<1>12. Runs(f)  BY <1>10, <1>11
<1>13. f[0] = <<>> /\ \A n \in 1 .. N : f[n] = Step(n, f[n - 1])
  <2>1. \A n \in 1 .. N : n \in 0 .. N /\ n # 0  OBVIOUS
  <2> QED  BY <1>1, <1>12, <2>1 DEF Runs
<1> DEFINE T == { n \in 0 .. N : f[n] \in V }
<1>14. 0 \in T  BY <1>6, <1>13
<1>15. ASSUME NEW n \in 1 .. N, n - 1 \in T PROVE n \in T
  <2>1. n \in 0 .. N  OBVIOUS
  <2> QED  BY <1>5, <1>13, <1>15, <2>1
<1> HIDE DEF T
<1>16. \A n \in 0 .. N : n \in T  BY <1>14, <1>15, InductionUpTo
<1>17. \A n \in 0 .. N : f[n] \in V  BY <1>16 DEF T
<1> QED  BY <1>1, <1>2, <1>11, <1>13, <1>17 DEF V, Step

\* They are TAs of the tracks, and with a prescale of 1 the last track is one.
LEMMA LetThrough ==
  ASSUME NEW tracks \in Seq(Windows), m_ta_count \in Nat
  PROVE  LET made == { construct_ta_ca(tracks[k]) : k \in DOMAIN tracks }
         IN  /\ let_through(tracks) \in Seq(made)
             /\ m_config["prescale"] = 1 /\ tracks # <<>> =>
                  construct_ta_ca(tracks[Len(tracks)]) \in Range(let_through(tracks))
<1>1. PICK N \in Nat : N = Len(tracks) /\ DOMAIN tracks = 1 .. N  OBVIOUS
<1>2. PICK made, f :
        /\ made = { construct_ta_ca(tracks[k]) : k \in DOMAIN tracks }
        /\ f = passed(tracks)
  OBVIOUS
<1>3. /\ \A n \in 0 .. N : f[n] \in Seq(made)
      /\ \A n \in 1 .. N : f[n] = IF passes_prescale(n)
                                  THEN Append(f[n - 1], construct_ta_ca(tracks[n])) ELSE f[n - 1]
  BY <1>1, <1>2, PassedSteps
<1>4. let_through(tracks) = f[N] /\ N \in 0 .. N  BY <1>1, <1>2 DEF let_through
<1>5. ASSUME m_config["prescale"] = 1, tracks # <<>>
      PROVE  construct_ta_ca(tracks[N]) \in Range(f[N])
  <2>1. N \in 1 .. N /\ N - 1 \in 0 .. N  BY <1>1, <1>5, EmptySeq
  <2>2. passes_prescale(N)
    <3>1. UIntPlus(m_ta_count, N, CountModulus) \in Int
      BY ChannelStatesAssumption DEF UIntPlus
    <3> QED  BY <1>5, <3>1 DEF passes_prescale
  <2>3. PICK s \in Seq(made), ta \in made : s = f[N - 1] /\ ta = construct_ta_ca(tracks[N])
    BY <1>1, <1>2, <1>3, <2>1
  <2>4. f[N] = Append(s, ta)  BY <1>3, <2>1, <2>2, <2>3
  <2>5. Range(Append(s, ta)) = Range(s) \cup {ta}  BY RangeOfAppend
  <2> QED  BY <2>3, <2>4, <2>5
<1> QED  BY <1>1, <1>2, <1>3, <1>4, <1>5

\* Two TPs of one window are never window_length apart.
LEMMA WindowIsNarrow ==
  ASSUME NEW w, NEW length \in Nat, NEW now, ListKept(w, length, now),
         NEW d \in Range(w.inputs), NEW e \in Range(w.inputs), d # e
  PROVE  Apart(d.time_start, e.time_start) < length
<1>1. PICK tps \in Seq(TriggerPrimitive) : tps = w.inputs  BY DEF ListKept, Charged, IsWindow
<1>2. PICK m \in Nat : m = Len(tps) /\ DOMAIN tps = 1 .. m  OBVIOUS
<1>3. ASSUME NEW i \in 1 .. m, NEW j \in 1 .. m, i < j
      PROVE  /\ tps[i].time_start \in Nat /\ tps[j].time_start \in Nat
             /\ tps[i].time_start <= tps[j].time_start
             /\ tps[j].time_start - tps[i].time_start < length
  <2>1. 1 \in 1 .. m /\ j \in 2 .. m  BY <1>3
  <2>2. tps[1] \in TriggerPrimitive /\ tps[i] \in TriggerPrimitive /\ tps[j] \in TriggerPrimitive
    BY <1>2, <2>1
  <2>3. PICK a \in Nat, b \in Nat, c \in Nat :
          a = tps[1].time_start /\ b = tps[i].time_start /\ c = tps[j].time_start
    BY <2>2, TPType
  <2>4. a <= b /\ b <= c
    <3>1. InTimeOrder(tps, now)  BY <1>1 DEF ListKept
    <3>2. 1 = i \/ 1 < i  OBVIOUS
    <3> QED  BY <1>2, <1>3, <2>1, <2>3, <3>1, <3>2 DEF InTimeOrder
  <2>5. fits(c, a, length)  BY <1>1, <1>2, <2>1, <2>3 DEF ListKept
  <2>6. c - a < length  BY <2>4, <2>5 DEF fits, elapsed, UIntMinus
  <2>7. b \in Nat /\ c \in Nat /\ b <= c /\ c - b < length  BY <2>4, <2>6
  <2> QED  BY <2>3, <2>7
<1>4. PICK i \in 1 .. m, j \in 1 .. m : d = tps[i] /\ e = tps[j]
  BY <1>1, <1>2 DEF Range
<1>5. CASE i < j
  <2>1. PICK a \in Nat, b \in Nat :
          a = d.time_start /\ b = e.time_start /\ a <= b /\ b - a < length
    BY <1>3, <1>4, <1>5
  <2>2. a > b => a = b  BY <2>1
  <2>3. Apart(a, b) < length  BY <2>1 DEF Apart
  <2> QED  BY <2>1, <2>3
<1>6. CASE j < i
  <2>1. PICK a \in Nat, b \in Nat :
          a = d.time_start /\ b = e.time_start /\ b <= a /\ a - b < length
    BY <1>3, <1>4, <1>6
  <2>2. Apart(a, b) < length  BY <2>1 DEF Apart
  <2> QED  BY <2>1, <2>2
<1> QED  BY <1>4, <1>5, <1>6

\* What is given out with several TAs at once.
LEMMA AllGivenConcat ==
  ASSUME NEW S, NEW outs \in Seq(S), NEW more \in Seq(S)
  PROVE  AllGiven(outs \o more) = AllGiven(outs) \cup AllGiven(more)
<1>1. \A s : AllGiven(s) = UNION { Ids(ta.inputs) : ta \in Range(s) }
  BY DEF AllGiven, Range
<1>2. Range(outs \o more) = Range(outs) \cup Range(more)  BY RangeConcatenation
<1> QED  BY <1>1, <1>2

LEMMA TracksAreGiven ==
  ASSUME Inv, HeldInv, Outputs, m_ta_count \in Nat, maker = "ChannelAdjacency",
         NEW tp \in NextTPsFor, take(tp), take_tracks(tp)
  PROVE  HeldInv' /\ Outputs' /\ TakesTracks
<1>1. PICK w : w = m_current_window  OBVIOUS
<1>2. maker \in Sliding  BY DEF Sliding
<1>3. /\ w.inputs \in Seq(TriggerPrimitive) /\ FromStream(w.inputs, received)
      /\ Held = Ids(w.inputs)
      /\ maker \in Windowed /\ maker \notin Bundling /\ maker # "PlaneCoincidence"
      /\ maker # "Supernova"
  BY <1>1, <1>2, SlidingHolds DEF Bundling
<1>4. received' = Append(received, tp) /\ UNCHANGED <<maker, flushed>>  BY DEF take
<1>5. PICK tracks : WhatIsTaken(tp, w, tracks)  BY <1>1, TracksTaken
<1>6. /\ tracks # <<>> /\ output_ta' = output_ta \o let_through(tracks)
      /\ m_current_window' = reset(w, tp)
  BY <1>5 DEF WhatIsTaken
<1>7. PICK s : TakenFrom(s, w) /\ s.tracks = tracks
  BY <1>3, <1>5, ExtractionTakes DEF WhatIsTaken
<1>8. /\ tracks \in Seq(Windows)
      /\ \A k \in DOMAIN tracks :
           ~ is_empty(tracks[k]) /\ Range(tracks[k].inputs) \subseteq Range(w.inputs)
  BY <1>7 DEF TakenFrom, TrackSearches
<1>9. /\ FromStream(reset(w, tp).inputs, Append(received, tp))
      /\ Ids(reset(w, tp).inputs) = {number}
  BY ResetHolds
<1>10. HeldInv' /\ Held' = {number}
  <2>1. HeldInv'  BY <1>3, <1>4, <1>6, <1>9 DEF HeldInv, FromStream
  <2>2. Held' = {number}  BY <1>3, <1>4, <1>6, <1>9, HeldBecomes
  <2> QED  BY <2>1, <2>2
<1>11. PICK made : made = { construct_ta_ca(tracks[k]) : k \in DOMAIN tracks }  OBVIOUS
<1>12. PICK more \in Seq(made) :
         /\ more = let_through(tracks)
         /\ m_config["prescale"] = 1 => construct_ta_ca(tracks[Len(tracks)]) \in Range(more)
  BY <1>6, <1>8, <1>11, LetThrough
<1>13. Outputs' /\ Emitted' = Emitted \cup AllGiven(more)
  <2>1. PICK S : output_ta \in Seq(S)  BY DEF Outputs
  <2>2. PICK outs \in Seq(S \cup made), new \in Seq(S \cup made) : outs = output_ta /\ new = more
    <3>1. S \subseteq S \cup made /\ made \subseteq S \cup made  OBVIOUS
    <3>2. output_ta \in Seq(S \cup made) /\ more \in Seq(S \cup made)
      BY <2>1, <3>1, SeqMonotonic
    <3> QED  BY <3>2
  <2>3. output_ta' = outs \o new /\ outs \o new \in Seq(S \cup made)  BY <1>6, <1>12, <2>2
  <2>4. Outputs'  BY <2>3 DEF Outputs
  <2>5. AllGiven(outs \o new) = AllGiven(outs) \cup AllGiven(new)  BY AllGivenConcat
  <2>6. Emitted = AllGiven(output_ta) /\ Emitted' = AllGiven(output_ta')
    BY DEF Emitted, AllGiven
  <2> QED  BY <2>2, <2>3, <2>4, <2>5, <2>6
<1>14. AllGiven(more) \subseteq Held
  <2>1. ASSUME NEW k \in DOMAIN more PROVE Ids(more[k].inputs) \subseteq Held
    <3>1. more[k] \in made  OBVIOUS
    <3>2. PICK n \in DOMAIN tracks : more[k] = construct_ta_ca(tracks[n])  BY <1>11, <3>1
    <3>3. more[k].inputs = tracks[n].inputs  BY <3>2, TrackInputs
    <3>4. Range(tracks[n].inputs) \subseteq Range(w.inputs)  BY <1>8
    <3> QED  BY <1>3, <3>3, <3>4, IdsOfRange
  <2> QED  BY <2>1 DEF AllGiven
<1>15. ASSUME m_config["prescale"] = 1
       PROVE  \E x \in Emitted' \cap Held : \A i \in Held \ {x} :
                Apart(received[x].time_start, received[i].time_start) < Length
  <2>1. PICK track \in Windows :
          /\ track = tracks[Len(tracks)] /\ track.inputs # <<>>
          /\ Range(track.inputs) \subseteq Range(w.inputs)
    <3>1. Len(tracks) \in DOMAIN tracks  BY <1>6, <1>8, EmptySeq
    <3> QED  BY <1>8, <3>1 DEF is_empty
  <2>2. PICK x : x \in Ids(track.inputs)
    BY <2>1, SomeId DEF Windows
  <2>3. x \in Held  BY <1>3, <2>1, <2>2, IdsOfRange
  <2>4. x \in Emitted'
    <3>1. construct_ta_ca(track) \in Range(more)  BY <1>12, <1>15, <2>1
    <3>2. PICK k \in DOMAIN more : more[k].inputs = track.inputs
      BY <3>1, TrackInputs DEF Range
    <3>3. x \in AllGiven(more)  BY <2>2, <3>2 DEF AllGiven
    <3> QED  BY <1>13, <3>3
  <2>5. ASSUME NEW i \in Held \ {x}
        PROVE  Apart(received[x].time_start, received[i].time_start) < Length
    <3>1. PICK d \in Range(w.inputs), e \in Range(w.inputs) : x = d.id /\ i = e.id
      BY <1>3, <2>3, IdsOfRange
    <3>2. received[x] = d /\ received[i] = e /\ d # e
      BY <1>3, <2>5, <3>1 DEF FromStream
    <3>3. PICK length \in Nat : length = Length
      <4>1. maker \in Timed  BY DEF Timed, Windowed
      <4> QED  BY <4>1, LengthIsNat DEF Inv
    <3>4. PICK now : now = LastTime  OBVIOUS
    <3>5. ListKept(w, length, now)
      BY <1>1, <1>2, <3>3, <3>4 DEF Inv, HeldKept, WellKept
    <3>6. Apart(d.time_start, e.time_start) < length  BY <3>2, <3>5, WindowIsNarrow
    <3> QED  BY <3>2, <3>3, <3>6
  <2> QED  BY <2>3, <2>4, <2>5
<1> QED  BY <1>10, <1>13, <1>14, <1>15 DEF TakesTracks

\* With no track the window is made anew of all its TPs.
LEMMA LeftAsItWas ==
  ASSUME NEW tp, NEW w, w.inputs \in Seq(TriggerPrimitive), WhatIsLeft(tp, w)
  PROVE  \E v : m_current_window' = move(v, tp, Length) /\ v.inputs = w.inputs
<1>1. PICK junk \in Junk(w) :
        /\ extraction(w, junk).tracks = <<>>
        /\ m_current_window' = move(extraction(w, junk).window, tp, Length)
  BY DEF WhatIsLeft
<1>2. TakenFrom(extraction(w, junk), w)  BY ExtractionTakes
<1>3. PICK v : v = extraction(w, junk).window /\ v.inputs = w.inputs
  BY <1>1, <1>2 DEF TakenFrom
<1> QED  BY <1>1, <1>3

\* With no track, or while it waits, it lets go of what does not fit the TP.
LEMMA NoTracksTaken ==
  ASSUME Inv, HeldInv, Outputs, maker = "ChannelAdjacency", NEW tp \in NextTPsFor, take(tp),
         ca_first_tp(tp) \/ ca_fill_window(tp) \/ ca_slide_window(tp)
  PROVE  /\ HeldInv' /\ Outputs' /\ Emitted' = Emitted
         /\ \E kept \in SUBSET Held :
              /\ Held' = kept \cup {number}
              /\ \A x \in Held \ kept :
                   ~ fits(tp.time_start, received[x].time_start, Length)
<1>1. PICK w : w = m_current_window  OBVIOUS
<1>2. maker \in Sliding  BY DEF Sliding
<1>3. /\ w.inputs \in Seq(TriggerPrimitive) /\ FromStream(w.inputs, received)
      /\ Held = Ids(w.inputs)
      /\ maker \in Windowed /\ maker \notin Bundling /\ maker # "PlaneCoincidence"
      /\ maker # "Supernova"
  BY <1>1, <1>2, SlidingHolds DEF Bundling
<1>4. received' = Append(received, tp) /\ UNCHANGED <<maker, flushed>>  BY DEF take
<1>5. Outputs' /\ Emitted' = Emitted
  BY DEF ca_first_tp, ca_fill_window, ca_slide_window, Outputs, Emitted
<1>6. Held' = Ids(m_current_window'.inputs)  BY <1>3, <1>4, HeldBecomes
<1>7. ASSUME FromStream(m_current_window'.inputs, Append(received, tp)) PROVE HeldInv'
  BY <1>3, <1>4, <1>7 DEF HeldInv, FromStream
<1>8. CASE ca_first_tp(tp)
  <2>1. m_current_window' = reset(w, tp) /\ Held = {}
    BY <1>1, <1>3, <1>8, RangeOfNone DEF ca_first_tp, is_empty
  <2>2. /\ FromStream(reset(w, tp).inputs, Append(received, tp))
        /\ Ids(reset(w, tp).inputs) = {number}
    BY ResetHolds
  <2>3. {} \in SUBSET Held /\ Held' = {} \cup {number}  BY <1>6, <2>1, <2>2
  <2> QED  BY <1>5, <1>7, <2>1, <2>2, <2>3
<1>9. CASE ca_fill_window(tp)
  <2>1. m_current_window' = add(w, tp)  BY <1>1, <1>9 DEF ca_fill_window
  <2>2. /\ Ids(add(w, tp).inputs) = Held \cup {number}
        /\ FromStream(add(w, tp).inputs, Append(received, tp))
    BY <1>3, AddHolds
  <2>3. Held \in SUBSET Held /\ Held' = Held \cup {number}  BY <1>6, <2>1, <2>2
  <2> QED  BY <1>5, <1>7, <2>1, <2>2, <2>3
<1>10. CASE ca_slide_window(tp)
  <2>1. PICK u, length : u = m_current_window' /\ length = Length  OBVIOUS
  <2>2. PICK v : u = move(v, tp, length) /\ v.inputs = w.inputs
    BY <1>1, <1>3, <1>10, <2>1, SlideLeaves, LeftAsItWas
  <2>3. v.inputs = w.inputs  BY <2>2
  <2>4. /\ FromStream(u.inputs, Append(received, tp))
        /\ \E kept \in SUBSET Held :
             /\ Ids(u.inputs) = kept \cup {number}
             /\ \A x \in Held \ kept : ~ fits(tp.time_start, received[x].time_start, length)
    BY <1>3, <2>2, <2>3, MoveHolds
  <2> QED  BY <1>5, <1>6, <1>7, <2>1, <2>4
<1> QED  BY <1>8, <1>9, <1>10

-----------------------------------------------------------------------------
(* Every step of the stream *)

LEMMA CallTakes ==
  ASSUME Inv, HeldInv, StreamInv, m_ta_count \in Nat, ~ flushed,
         NEW tp \in NextTPsFor, call(tp), maker # "ChannelAdjacency"
  PROVE  take(tp) /\ HeldInv' /\ Takes(tp)
<1>1. CASE maker = "HorizontalMuon" /\ receive_hm(tp)
  BY <1>1, HorizontalMuonTakes DEF receive_hm
<1>2. CASE maker = "MichelElectron" /\ receive_me(tp)
  BY <1>2, MichelElectronTakes DEF receive_me
<1>3. CASE maker = "PlaneCoincidence" /\ receive_pc(tp)
  BY <1>3, PlaneCoincidenceTakes DEF receive_pc
<1>4. CASE maker = "Prescale" /\ receive_prescale(tp)
  BY <1>4, PrescaleTakes DEF receive_prescale
<1>5. CASE maker = "BundleN" /\ receive_bundle(tp)
  BY <1>5, BundleNTakes DEF receive_bundle
<1>6. CASE maker = "ChannelDistance" /\ receive_distance(tp)
  BY <1>6, ChannelDistanceTakes DEF receive_distance
<1>7. CASE maker = "Supernova" /\ receive_supernova(tp)
  BY <1>7, SupernovaTakes DEF receive_supernova
<1> QED  BY <1>1, <1>2, <1>3, <1>4, <1>5, <1>6, <1>7 DEF call

\* ChannelAdjacency gives out tracks, or lets go of what does not fit the TP.
LetsGo(tp) ==
  /\ Emitted' = Emitted
  /\ \E kept \in SUBSET Held :
       /\ Held' = kept \cup {number}
       /\ \A x \in Held \ kept : ~ fits(tp.time_start, received[x].time_start, Length)

LEMMA ChannelAdjacencyTakes ==
  ASSUME Inv, HeldInv, StreamInv, m_ta_count \in Nat, maker = "ChannelAdjacency",
         NEW tp \in NextTPsFor, call(tp)
  PROVE  take(tp) /\ HeldInv' /\ Outputs' /\ (TakesTracks \/ LetsGo(tp))
<1>1. receive_ca(tp)  BY DEF call
<1>2. take(tp) /\ Outputs  BY <1>1 DEF receive_ca, StreamInv
<1>3. CASE take_tracks(tp)  BY <1>2, <1>3, TracksAreGiven
<1>4. CASE ca_first_tp(tp) \/ ca_fill_window(tp) \/ ca_slide_window(tp)
  BY <1>2, <1>4, NoTracksTaken DEF LetsGo
<1> QED  BY <1>1, <1>3, <1>4 DEF receive_ca

\* The numbers ChannelAdjacency holds are numbers of the stream.
LEMMA HeldOfStream ==
  ASSUME HeldInv, maker = "ChannelAdjacency"
  PROVE  Held \subseteq DOMAIN received
<1>1. maker \in Windowed  BY DEF Windowed
<1>2. Held = { e.id : e \in Range(m_current_window.inputs) }  BY <1>1, HeldIs, IdsOfRange
<1> QED  BY <1>1, <1>2 DEF HeldInv, FromStream

\* The stream and the TP that came.
LEMMA StreamAppend ==
  ASSUME Inv, NEW tp \in NextTPsFor
  PROVE  /\ Append(received, tp) \in Seq(TriggerPrimitive) /\ Append(received, tp) # <<>>
         /\ DOMAIN Append(received, tp) = DOMAIN received \cup {number}
         /\ Len(Append(received, tp)) = number
         /\ Append(received, tp)[number] = tp
         /\ \A i \in DOMAIN received :
              i \in DOMAIN Append(received, tp) /\ Append(received, tp)[i] = received[i]
<1>1. PICK s \in Seq(TriggerPrimitive), e \in TriggerPrimitive : s = received /\ e = tp
  BY NextTPNumbered
<1>2. PICK m \in Nat : m = Len(s) /\ DOMAIN s = 1 .. m  OBVIOUS
<1>3. PICK more : more = Append(s, e)  OBVIOUS
<1>4. /\ more \in Seq(TriggerPrimitive) /\ Len(more) = m + 1 /\ DOMAIN more = 1 .. (m + 1)
      /\ more[m + 1] = e /\ \A i \in 1 .. m : more[i] = s[i]
  BY <1>2, <1>3
<1>5. 1 .. (m + 1) = (1 .. m) \cup {m + 1}  OBVIOUS
<1>6. more # <<>>  BY <1>3, AppendProperties
<1> QED  BY <1>1, <1>2, <1>3, <1>4, <1>5, <1>6 DEF number

LEMMA StreamGoesOn ==
  ASSUME Inv, StreamInv, ~ flushed, NEW tp \in NextTPsFor, take(tp), Outputs',
         maker = "ChannelAdjacency" => Emitted' \subseteq DOMAIN received
  PROVE  StreamInv'
<1>1. received' = Append(received, tp) /\ UNCHANGED <<maker, flushed>>  BY DEF take
<1>2. /\ received' # <<>> /\ DOMAIN received' = DOMAIN received \cup {number}
      /\ Len(received') = number /\ received'[number] = tp /\ tp.id = number
      /\ \A i \in DOMAIN received : i \in DOMAIN received' /\ received'[i] = received[i]
  BY <1>1, StreamAppend, NextTPNumbered
<1>3. \A i \in DOMAIN received' : received'[i].id = i  BY <1>2 DEF StreamInv
<1>4. InTimeOrder(received', LastTime')
  <2>1. LastTime' = tp.time_start  BY <1>2 DEF LastTime
  <2>2. /\ tp \in TriggerPrimitive /\ LastTime \in Nat /\ LastTime <= tp.time_start
        /\ received \in Seq(TriggerPrimitive) /\ InTimeOrder(received, LastTime)
    BY NextTPInOrder DEF Inv, StreamInv
  <2>3. PICK now \in Nat : now = LastTime  BY <2>2
  <2>4. \A e \in TriggerPrimitive : e.time_start \in Nat  BY TPType
  <2>5. InTimeOrder(Append(received, tp), tp.time_start)
    BY <2>2, <2>3, <2>4, InOrderAppend
  <2> QED  BY <1>1, <2>1, <2>5
<1> QED  BY <1>1, <1>2, <1>3, <1>4 DEF StreamInv

-----------------------------------------------------------------------------
(* No TP goes early *)

\* What is out of date stays so.
LEMMA StaleStays ==
  ASSUME Inv, StreamInv, NEW tp \in NextTPsFor, take(tp), Length \in Nat,
         NEW i \in DOMAIN received,
         Stale(i) \/ ~ fits(tp.time_start, received[i].time_start, Length)
  PROVE  Stale(i)'
<1>1. received' = Append(received, tp) /\ Length' = Length  BY DEF take, Length
<1>2. /\ Len(received') = number /\ received'[number] = tp
      /\ received'[i] = received[i]
  BY <1>1, StreamAppend
<1>3. Stale(i)' <=> ~ fits(tp.time_start, received[i].time_start, Length)
  BY <1>1, <1>2 DEF Stale, Length
<1>4. CASE Stale(i)
  <2>1. received # <<>> /\ received[i] \in TriggerPrimitive  BY DEF Inv
  <2>2. PICK a \in Nat, b \in Nat, c \in Nat, length \in Nat :
          /\ a = received[i].time_start /\ b = LastTime /\ c = tp.time_start
          /\ b <= c /\ length = Length
    BY <2>1, TPType, NextTPInOrder DEF Inv
  <2>3. a <= b  BY <2>2 DEF StreamInv, InTimeOrder
  <2>4. ~ fits(b, a, length)  BY <1>4, <2>1, <2>2 DEF Stale, LastTime, Length
  <2>5. ~ fits(c, a, length)  BY <2>2, <2>3, <2>4, FitsEarlier
  <2> QED  BY <1>3, <2>2, <2>5
<1> QED  BY <1>3, <1>4

\* Once a TA is out with a TP near by, it is out.
LEMMA NearStays ==
  ASSUME Inv, StreamInv, NEW tp \in NextTPsFor, take(tp), maker = "ChannelAdjacency",
         Emitted \subseteq Emitted', NEW i \in DOMAIN received, NearEmitted(i)
  PROVE  NearEmitted(i)'
<1>1. received' = Append(received, tp) /\ UNCHANGED m_config  BY DEF take
<1>2. \A x \in DOMAIN received : received'[x] = received[x]  BY <1>1, StreamAppend
<1>3. PICK x \in Emitted :
        Apart(received[x].time_start, received[i].time_start) < m_config["window_length"]
  BY DEF NearEmitted
<1>4. x \in DOMAIN received /\ x \in Emitted'  BY DEF StreamInv
<1>5. Apart(received'[x].time_start, received'[i].time_start) < m_config'["window_length"]
  BY <1>1, <1>2, <1>3, <1>4
<1> QED  BY <1>4, <1>5 DEF NearEmitted

LEMMA LostByCall ==
  ASSUME Inv, StreamInv, NothingLost, NEW tp \in NextTPsFor, take(tp), Takes(tp),
         maker # "ChannelAdjacency"
  PROVE  NothingLost'
<1>1. received' = Append(received, tp) /\ UNCHANGED <<maker, m_config>>  BY DEF take
<1>2. DOMAIN received' = DOMAIN received \cup {number}  BY <1>1, StreamAppend
<1>3. PICK kept \in SUBSET Held : NoneDropped(kept, tp) /\ (Accounts(kept) \/ Passes(kept))
  BY DEF Takes
<1>4. Outputs  BY DEF StreamInv
<1>5. ASSUME Accounts(kept), NEW i \in DOMAIN received', i \notin Emitted' \cup Held'
      PROVE  i \in DOMAIN received /\ i \notin Emitted /\ i \notin kept
  <2>1. Emitted' \cup Held' = Emitted \cup kept \cup {number}
    BY <1>4, <1>5, NothingElseGoes
  <2> QED  BY <1>2, <1>5, <2>1
<1>6. SUFFICES ASSUME NEW i \in DOMAIN received', i \notin Emitted' \cup Held'
               PROVE  /\ maker = "HorizontalMuon" /\ m_config["prescale"] = 1 => Stale(i)'
                      /\ maker # "BundleN"
                      /\ maker = "Supernova" => 0 \in TimesOf(received')
  BY <1>1 DEF NothingLost
<1>7. ASSUME maker = "HorizontalMuon", m_config["prescale"] = 1 PROVE Stale(i)'
  <2>1. Accounts(kept) /\ \A x \in Held \ kept :
                             ~ fits(tp.time_start, received[x].time_start, Length)
    BY <1>3, <1>7 DEF NoneDropped
  <2>2. i \in DOMAIN received /\ i \notin Emitted /\ i \notin kept  BY <1>5, <1>6, <2>1
  <2>3. Stale(i) \/ ~ fits(tp.time_start, received[i].time_start, Length)
    <3>1. CASE i \in Held  BY <2>1, <2>2, <3>1
    <3>2. CASE i \notin Held  BY <1>7, <2>2, <3>2 DEF NothingLost
    <3> QED  BY <3>1, <3>2
  <2>4. Length \in Nat
    <3>1. maker \in Timed  BY <1>7 DEF Timed, Windowed
    <3> QED  BY <3>1, LengthIsNat DEF Inv
  <2> QED  BY <2>2, <2>3, <2>4, StaleStays
<1>8. ASSUME maker = "BundleN" PROVE FALSE
  <2>1. Accounts(kept) /\ kept = Held  BY <1>3, <1>8 DEF NoneDropped
  <2>2. i \in DOMAIN received /\ i \notin Emitted \cup Held  BY <1>5, <1>6, <2>1
  <2> QED  BY <1>8, <2>2 DEF NothingLost
<1>9. ASSUME maker = "Supernova" PROVE 0 \in TimesOf(received')
  <2>1. TimesOf(received') = TimesOf(received) \cup {tp.time_start}  BY <1>1, TimesAppend
  <2>2. SUFFICES ASSUME 0 \notin TimesOf(received) PROVE FALSE
    BY <2>1
  <2>3. Accounts(kept) /\ kept = Held  BY <1>3, <1>9, <2>2 DEF NoneDropped
  <2>4. i \in DOMAIN received /\ i \notin Emitted \cup Held  BY <1>5, <1>6, <2>3
  <2> QED  BY <1>9, <2>2, <2>4 DEF NothingLost
<1> QED  BY <1>7, <1>8, <1>9

LEMMA LostByChannelAdjacency ==
  ASSUME Inv, StreamInv, HeldInv, NothingLost, NEW tp \in NextTPsFor, take(tp),
         TakesTracks \/ LetsGo(tp), maker = "ChannelAdjacency"
  PROVE  NothingLost'
<1>1. received' = Append(received, tp) /\ UNCHANGED <<maker, m_config>> /\ Length' = Length
  BY DEF take, Length
<1>2. /\ DOMAIN received' = DOMAIN received \cup {number}
      /\ \A x \in DOMAIN received : received'[x] = received[x]
  BY <1>1, StreamAppend
<1>3. Emitted \subseteq Emitted' /\ number \in Held'  BY DEF TakesTracks, LetsGo
<1>4. SUFFICES ASSUME NEW i \in DOMAIN received', i \notin Emitted' \cup Held',
                      m_config["prescale"] = 1
               PROVE  Stale(i)' \/ NearEmitted(i)'
  BY <1>1 DEF NothingLost
<1>5. i \in DOMAIN received  BY <1>2, <1>3, <1>4
<1>6. Length \in Nat
  <2>1. maker \in Timed  BY DEF Timed, Windowed
  <2> QED  BY <2>1, LengthIsNat DEF Inv
<1>7. CASE i \notin Held
  <2>1. Stale(i) \/ NearEmitted(i)  BY <1>3, <1>4, <1>5, <1>7 DEF NothingLost
  <2> QED  BY <1>3, <1>5, <1>6, <2>1, StaleStays, NearStays
<1>8. CASE i \in Held /\ TakesTracks
  <2>1. PICK x \in Emitted' \cap Held : \A j \in Held \ {x} :
          Apart(received[x].time_start, received[j].time_start) < Length
    BY <1>4, <1>8 DEF TakesTracks
  <2>2. i # x /\ x \in DOMAIN received  BY <1>4, <2>1, HeldOfStream
  <2>3. Apart(received'[x].time_start, received'[i].time_start) < Length'
    BY <1>1, <1>2, <1>5, <1>8, <2>1, <2>2
  <2> QED  BY <2>1, <2>3 DEF NearEmitted, Length
<1>9. CASE i \in Held /\ LetsGo(tp)
  <2>1. ~ fits(tp.time_start, received[i].time_start, Length)
    BY <1>4, <1>9 DEF LetsGo
  <2> QED  BY <1>5, <1>6, <2>1, StaleStays
<1> QED  BY <1>7, <1>8, <1>9

-----------------------------------------------------------------------------
(* How many triggers there were, and how many were given out *)

\* The Prescale maker counts the TPs; HorizontalMuon counts at most one trigger
\* a TP, and ChannelAdjacency one for each TP it lets go of at most, so that the
\* counter does not wrap while the stream is shorter than its modulus.
CountInv ==
  /\ m_ta_count \in Nat /\ m_primitive_count \in Nat
  /\ received = <<>> => m_ta_count = 0 /\ m_primitive_count = 0
  /\ maker = "Prescale" =>
       /\ m_primitive_count = Len(received)
       /\ \A i \in DOMAIN received :
            i \in Emitted <=> i % m_config["prescale"] = 1 % m_config["prescale"]
       /\ Emitted \subseteq DOMAIN received
  /\ Len(received) < CountModulus =>
       /\ maker = "HorizontalMuon" =>
            /\ m_ta_count <= Len(received)
            /\ ~ m_config["trigger_on_tot"] =>
                 Len(output_ta) = m_ta_count \div m_config["prescale"]
       /\ maker = "ChannelAdjacency" =>
            /\ m_ta_count + Len(m_current_window.inputs) <= Len(received)
            /\ Len(output_ta) = m_ta_count \div m_config["prescale"]

LEMMA PrescaleIsPositive ==
  ASSUME Configured, maker \in {"HorizontalMuon", "ChannelAdjacency", "Prescale"}
  PROVE  m_config["prescale"] \in Nat \ {0}
<1>1. maker \in Makers  BY TriggerActivityFactoryAssumption DEF Windowed, Bundling
<1>2. "prescale" \in DOMAIN m_config /\ ValidConfig(m_config, maker)
  BY <1>1, TriggerActivityFactoryAssumption DEF Configured, Members
<1>3. "prescale" \notin Switches  BY DEF Switches
<1> QED  BY <1>2, <1>3 DEF ValidConfig

\* The other makers leave the counters of triggers alone.
LEMMA OthersCount ==
  ASSUME CountInv, received' # <<>>, UNCHANGED maker,
         maker \notin {"Prescale", "HorizontalMuon", "ChannelAdjacency"},
         UNCHANGED counters
  PROVE  CountInv'
BY DEF CountInv, counters

LEMMA PrescaleCounts ==
  ASSUME Inv, StreamInv, CountInv, maker = "Prescale", NEW tp \in NextTPsFor,
         receive_prescale(tp)
  PROVE  CountInv'
<1>1. received' = Append(received, tp) /\ UNCHANGED <<maker, m_config>>
  BY DEF receive_prescale, take
<1>2. m_primitive_count' = m_primitive_count + 1 /\ UNCHANGED m_ta_count
  BY DEF receive_prescale
<1>3. /\ received' # <<>> /\ DOMAIN received' = DOMAIN received \cup {number}
      /\ Len(received') = number
  BY <1>1, StreamAppend
<1>4. PICK p \in Nat \ {0}, n \in Nat :
        p = m_config["prescale"] /\ n = m_primitive_count /\ n = Len(received) /\ number = n + 1
        /\ DOMAIN received = 1 .. n
  BY PrescaleIsPositive DEF Inv, CountInv, number
<1>5. CASE n % p = 0
  <2>1. output_ta' = Append(output_ta, ta_of_tps(<<tp>>))
    BY <1>4, <1>5 DEF receive_prescale, passes
  <2>2. ta_of_tps(<<tp>>).inputs = <<tp>>  BY DEF ta_of_tps, ta_of
  <2>3. GivesOut({number})
    BY <2>1, <2>2, RangeOfOne, NextTPNumbered DEF GivesOut
  <2>4. Emitted' = Emitted \cup {number}  BY <2>3, GivenGrows DEF StreamInv
  <2>5. number % p = 1 % p  BY <1>4, <1>5, NextAfterMultiple
  <2>6. \A i \in DOMAIN received : i # number  BY <1>4
  <2> QED  BY <1>1, <1>2, <1>3, <1>4, <2>4, <2>5, <2>6 DEF CountInv
<1>6. CASE n % p # 0
  <2>1. output_ta' = output_ta  BY <1>4, <1>6 DEF receive_prescale, passes
  <2>2. Emitted' = Emitted  BY <2>1 DEF Emitted
  <2>3. number % p # 1 % p  BY <1>4, <1>6, NextAfterMultiple
  <2>4. number \notin Emitted  BY <1>4 DEF CountInv
  <2> QED  BY <1>1, <1>2, <1>3, <1>4, <2>2, <2>3, <2>4 DEF CountInv
<1> QED  BY <1>5, <1>6

\* One more trigger, while the counter does not wrap.
LEMMA OneMoreTrigger ==
  ASSUME CountInv, NEW n \in Nat, m_ta_count <= n, n + 1 < CountModulus
  PROVE  UIntPlus(m_ta_count, 1, CountModulus) = m_ta_count + 1
<1>1. PICK c \in Nat, m \in Nat : c = m_ta_count /\ m = CountModulus
  BY ChannelStatesAssumption DEF CountInv
<1>2. c + 1 \in 0 .. m - 1  BY <1>1
<1>3. (c + 1) % m = c + 1  BY <1>2
<1> QED  BY <1>1, <1>3 DEF UIntPlus

LEMMA HorizontalMuonCounts ==
  ASSUME Inv, StreamInv, CountInv, maker = "HorizontalMuon", NEW tp \in NextTPsFor,
         receive_hm(tp)
  PROVE  CountInv'
<1>1. /\ received' = Append(received, tp) /\ UNCHANGED <<maker, m_config>>
      /\ UNCHANGED m_primitive_count
  BY DEF receive_hm, take
<1>2. received' # <<>> /\ Len(received') = number  BY <1>1, StreamAppend
<1>3. PICK n \in Nat, c \in Nat, p \in Nat \ {0} :
        /\ n = Len(received) /\ number = n + 1 /\ c = m_ta_count
        /\ p = m_config["prescale"]
  BY PrescaleIsPositive DEF Inv, CountInv, number
<1>4. CountModulus \in Nat \ {0}  BY ChannelStatesAssumption
<1>5. UIntPlus(c, 1, CountModulus) \in Nat  BY <1>4 DEF UIntPlus
<1>6. m_ta_count' \in Nat
  <2>1. m_ta_count' = c \/ m_ta_count' = UIntPlus(c, 1, CountModulus)
    BY <1>3 DEF receive_hm, first_tp, fill_window, emit_ta, prescale_out, emit_ta_on_tot, slide_window
  <2> QED  BY <1>5, <2>1
<1>7. ASSUME n + 1 < CountModulus
      PROVE  /\ m_ta_count' <= n + 1
             /\ ~ m_config["trigger_on_tot"] => Len(output_ta') = m_ta_count' \div p
  <2>1. /\ n < CountModulus /\ c <= n
        /\ ~ m_config["trigger_on_tot"] => Len(output_ta) = c \div p
    BY <1>3, <1>4, <1>7 DEF CountInv
  <2>2. UIntPlus(c, 1, CountModulus) = c + 1  BY <1>3, <1>7, <2>1, OneMoreTrigger
  <2>3. (c + 1) \div p = IF (c + 1) % p = 0 THEN (c \div p) + 1 ELSE c \div p  BY DivStep
  <2>4. CASE m_ta_count' = c /\ (UNCHANGED output_ta \/ m_config["trigger_on_tot"])
    BY <2>1, <2>4
  <2>5. CASE emit_ta(tp)
    <3>1. (c + 1) % p = 0 /\ m_ta_count' = c + 1
      BY <1>3, <2>2, <2>5 DEF emit_ta, emits
    <3>2. Len(output_ta') = Len(output_ta) + 1
      <4>1. PICK S : output_ta \in Seq(S)  BY DEF StreamInv, Outputs
      <4>2. PICK ta : output_ta' = Append(output_ta, ta)  BY <2>5 DEF emit_ta
      <4> QED  BY <4>1, <4>2
    <3> QED  BY <2>1, <2>3, <3>1, <3>2
  <2>6. CASE prescale_out(tp)
    <3>1. (c + 1) % p # 0 /\ m_ta_count' = c + 1 /\ output_ta' = output_ta
      BY <1>3, <2>2, <2>6 DEF prescale_out, emits
    <3> QED  BY <2>1, <2>3, <3>1
  <2> QED
    BY <1>3, <2>4, <2>5, <2>6
    DEF receive_hm, first_tp, fill_window, emit_ta_on_tot, slide_window, long_tp
<1> QED  BY <1>1, <1>2, <1>3, <1>6, <1>7 DEF CountInv

\* The tracks let through are those that the prescale picks.
LEMMA PassedCount ==
  ASSUME NEW tracks \in Seq(Windows), NEW c \in Nat, c = m_ta_count,
         NEW p \in Nat \ {0}, p = m_config["prescale"], c + Len(tracks) < CountModulus
  PROVE  Len(let_through(tracks)) = ((c + Len(tracks)) \div p) - (c \div p)
<1>1. PICK N \in Nat : N = Len(tracks) /\ DOMAIN tracks = 1 .. N  OBVIOUS
<1>2. PICK made, f :
        /\ made = { construct_ta_ca(tracks[k]) : k \in DOMAIN tracks }
        /\ f = passed(tracks)
  OBVIOUS
<1>3. /\ \A n \in 0 .. N : f[n] \in Seq(made)
      /\ f[0] = <<>>
      /\ \A n \in 1 .. N : f[n] = IF passes_prescale(n)
                                  THEN Append(f[n - 1], construct_ta_ca(tracks[n])) ELSE f[n - 1]
  BY <1>1, <1>2, PassedSteps
<1> DEFINE T == { n \in 0 .. N : Len(f[n]) = ((c + n) \div p) - (c \div p) }
<1>4. 0 \in T
  <2>1. Len(f[0]) = 0 /\ c + 0 = c /\ (c \div p) \in Int  BY <1>3
  <2> QED  BY <2>1
<1>5. ASSUME NEW n \in 1 .. N, n - 1 \in T PROVE n \in T
  <2>1. PICK m \in Nat : m = c + (n - 1) /\ m + 1 = c + n  OBVIOUS
  <2>2. passes_prescale(n) <=> (m + 1) % p = 0
    <3>1. m + 1 \in 0 .. CountModulus - 1 /\ CountModulus \in Nat \ {0}
      BY <1>1, <2>1, ChannelStatesAssumption
    <3>2. (m + 1) % CountModulus = m + 1
      <4>1. PICK x \in Nat, y \in Nat \ {0} : x = m + 1 /\ y = CountModulus /\ x < y
        BY <3>1
      <4>2. x % y = x  BY <4>1, SmallMod
      <4> QED  BY <4>1, <4>2
    <3> QED  BY <2>1, <3>2 DEF passes_prescale, UIntPlus
  <2>3. (m + 1) \div p = IF (m + 1) % p = 0 THEN (m \div p) + 1 ELSE m \div p  BY DivStep
  <2>4. n - 1 \in 0 .. N /\ n \in 0 .. N /\ Len(f[n - 1]) = (m \div p) - (c \div p)
    BY <1>5, <2>1
  <2>5. PICK s \in Seq(made) : s = f[n - 1]  BY <1>3, <2>4
  <2>6. (m \div p) \in Int /\ (c \div p) \in Int  OBVIOUS
  <2>7. CASE passes_prescale(n)
    <3>1. PICK ta \in made : ta = construct_ta_ca(tracks[n])  BY <1>1, <1>2
    <3>2. f[n] = Append(s, ta)  BY <1>3, <2>5, <2>7, <3>1
    <3>3. Len(f[n]) = Len(s) + 1  BY <3>2
    <3>4. Len(f[n]) = ((m + 1) \div p) - (c \div p)
      BY <2>2, <2>3, <2>4, <2>5, <2>6, <2>7, <3>3
    <3> QED  BY <2>1, <2>4, <3>4
  <2>8. CASE ~ passes_prescale(n)
    <3>1. f[n] = s  BY <1>3, <2>5, <2>8
    <3>2. Len(f[n]) = ((m + 1) \div p) - (c \div p)
      BY <2>2, <2>3, <2>4, <2>5, <2>8, <3>1
    <3> QED  BY <2>1, <2>4, <3>2
  <2> QED  BY <2>7, <2>8
<1> HIDE DEF T
<1>6. \A n \in 0 .. N : n \in T  BY <1>4, <1>5, InductionUpTo
<1>7. N \in 0 .. N /\ N \in T  BY <1>6
<1>8. Len(f[N]) = ((c + N) \div p) - (c \div p)  BY <1>7 DEF T
<1> QED  BY <1>1, <1>2, <1>8 DEF let_through

\* A window never grows by more than the TP that came.
LEMMA WindowGrows ==
  ASSUME NEW w, w.inputs \in Seq(TriggerPrimitive), NEW tp \in TriggerPrimitive, NEW length
  PROVE  /\ Len(reset(w, tp).inputs) = 1
         /\ Len(add(w, tp).inputs) = Len(w.inputs) + 1
         /\ Len(move(w, tp, length).inputs) \in 1 .. Len(w.inputs) + 1
<1>1. PICK tps \in Seq(TriggerPrimitive) : tps = w.inputs  OBVIOUS
<1>2. PICK m \in Nat : m = Len(tps)  OBVIOUS
<1>3. Len(reset(w, tp).inputs) = 1  BY DEF reset
<1>4. \A v : v.inputs \in Seq(TriggerPrimitive) =>
               Len(add(v, tp).inputs) = Len(v.inputs) + 1
  BY DEF add
<1>5. PICK n \in 0 .. m : n = n_to_erase(tps, tp.time_start, length)
  BY <1>1, <1>2, NToErase
<1>6. CASE n < m
  <2>1. PICK v : v = erase_front(w, n)  OBVIOUS
  <2>2. v.inputs = SubSeq(tps, n + 1, m)  BY <1>1, <1>2, <2>1 DEF erase_front
  <2>3. v.inputs \in Seq(TriggerPrimitive) /\ Len(v.inputs) = m - n
    BY <1>2, <2>2
  <2>4. move(w, tp, length) = add(v, tp)  BY <1>1, <1>2, <1>5, <1>6, <2>1 DEF move
  <2>5. Len(move(w, tp, length).inputs) = m - n + 1  BY <1>4, <2>3, <2>4
  <2> QED  BY <1>1, <1>2, <1>3, <1>4, <1>6, <2>5
<1>7. CASE ~ (n < m)
  <2>1. move(w, tp, length) = reset(w, tp)  BY <1>1, <1>2, <1>5, <1>7 DEF move
  <2>2. Len(move(w, tp, length).inputs) = 1 /\ 1 \in 1 .. m + 1  BY <1>3, <2>1
  <2> QED  BY <1>1, <1>2, <1>3, <1>4, <2>2
<1> QED  BY <1>6, <1>7

LEMMA ChannelAdjacencyCounts ==
  ASSUME Inv, StreamInv, CountInv, maker = "ChannelAdjacency", NEW tp \in NextTPsFor,
         receive_ca(tp)
  PROVE  CountInv'
<1>1. /\ received' = Append(received, tp) /\ UNCHANGED <<maker, m_config>>
      /\ UNCHANGED m_primitive_count
  BY DEF receive_ca, take
<1>2. received' # <<>> /\ Len(received') = number  BY <1>1, StreamAppend
<1>3. PICK n \in Nat, c \in Nat, p \in Nat \ {0} :
        /\ n = Len(received) /\ number = n + 1 /\ c = m_ta_count
        /\ p = m_config["prescale"]
  BY PrescaleIsPositive DEF Inv, CountInv, number
<1>4. CountModulus \in Nat \ {0} /\ tp \in TriggerPrimitive
  BY ChannelStatesAssumption, NextTPNumbered
<1>5. PICK w : w = m_current_window /\ w.inputs \in Seq(TriggerPrimitive)
  <2>1. maker \in Sliding  BY DEF Sliding
  <2> QED  BY <2>1, WellKeptAgrees DEF Inv, HeldKept
<1>6. PICK k \in Nat : k = Len(w.inputs)  BY <1>5
<1>7. PICK u, j : u = m_current_window' /\ j = Len(u.inputs)  OBVIOUS
<1>8. ASSUME NEW tracks, WhatIsTaken(tp, w, tracks)
      PROVE  tracks \in Seq(Windows) /\ Len(tracks) <= k
  <2>1. PICK s : TakenFrom(s, w) /\ s.tracks = tracks
    BY <1>5, <1>8, ExtractionTakes DEF WhatIsTaken
  <2>2. /\ tracks \in Seq(Windows) /\ s.window \in Windows
        /\ Len(tracks) + Len(s.window.inputs) <= Len(w.inputs)
    BY <2>1 DEF TakenFrom, TrackSearches
  <2>3. Len(s.window.inputs) \in Nat /\ Len(tracks) \in Nat
    BY <2>2 DEF Windows
  <2> QED  BY <1>6, <2>2, <2>3
<1>9. ASSUME take_tracks(tp)
      PROVE  \E tracks : WhatIsTaken(tp, w, tracks)
  BY <1>5, <1>9, TracksTaken
<1>11. CASE take_tracks(tp)
  <2>5. PICK tracks : WhatIsTaken(tp, w, tracks) /\ tracks \in Seq(Windows) /\ Len(tracks) <= k
    BY <1>8, <1>9, <1>11
  <2>6. PICK N \in Nat : N = Len(tracks) /\ N <= k  BY <2>5
  <2>1. /\ m_ta_count' = UIntPlus(c, N, CountModulus)
        /\ output_ta' = output_ta \o let_through(tracks)
        /\ u = reset(w, tp)
    BY <1>3, <1>7, <2>5, <2>6 DEF WhatIsTaken
  <2>2. j = 1  BY <1>4, <1>5, <1>7, <2>1, WindowGrows
  <2>3. m_ta_count' \in Nat  BY <1>4, <2>1 DEF UIntPlus
  <2>4. ASSUME n + 1 < CountModulus
        PROVE  m_ta_count' + j <= n + 1 /\ Len(output_ta') = m_ta_count' \div p
    <3>1. c + k <= n /\ Len(output_ta) = c \div p
      BY <1>3, <1>4, <1>5, <1>6, <2>4 DEF CountInv
    <3>2. c + N \in 0 .. CountModulus - 1 /\ c + N < CountModulus
      BY <1>4, <2>6, <2>4, <3>1
    <3>3. m_ta_count' = c + N
      <4>1. (c + N) % CountModulus = c + N  BY <1>4, <3>2
      <4> QED  BY <2>1, <4>1 DEF UIntPlus
    <3>4. Len(let_through(tracks)) = ((c + N) \div p) - (c \div p)
      BY <1>3, <2>5, <2>6, <3>2, PassedCount
    <3>5. Len(output_ta') = Len(output_ta) + Len(let_through(tracks))
      <4>1. PICK S : output_ta \in Seq(S)  BY DEF StreamInv, Outputs
      <4>2. PICK made : let_through(tracks) \in Seq(made)
        BY <2>5, LetThrough DEF CountInv
      <4>3. S \subseteq S \cup made /\ made \subseteq S \cup made  OBVIOUS
      <4>4. PICK a \in Seq(S \cup made), b \in Seq(S \cup made) :
              a = output_ta /\ b = let_through(tracks)
        <5>1. output_ta \in Seq(S \cup made) /\ let_through(tracks) \in Seq(S \cup made)
          BY <4>1, <4>2, <4>3, SeqMonotonic
        <5> QED  BY <5>1
      <4>5. Len(a \o b) = Len(a) + Len(b)  OBVIOUS
      <4> QED  BY <2>1, <4>4, <4>5
    <3>6. (c \div p) \in Int /\ ((c + N) \div p) \in Int  BY <1>3
    <3>7. Len(output_ta') = (c + N) \div p  BY <3>1, <3>4, <3>5, <3>6
    <3>8. PICK x \in Nat : x = c + N /\ x + 1 <= n + 1  BY <2>6, <3>1
    <3>9. m_ta_count' + j = x + 1  BY <2>2, <3>3, <3>8
    <3> QED  BY <3>3, <3>7, <3>8, <3>9
  <2> QED  BY <1>1, <1>2, <1>3, <1>7, <2>3, <2>4 DEF CountInv
<1>12. CASE ca_first_tp(tp) \/ ca_fill_window(tp) \/ ca_slide_window(tp)
  <2>1. UNCHANGED <<m_ta_count, output_ta>>
    BY <1>12 DEF ca_first_tp, ca_fill_window, ca_slide_window
  <2>2. j \in 1 .. k + 1
    <3>1. CASE ca_first_tp(tp)
      <4>1. u = reset(w, tp)  BY <1>5, <1>7, <3>1 DEF ca_first_tp
      <4>2. j = 1  BY <1>4, <1>5, <1>7, <4>1, WindowGrows
      <4> QED  BY <4>2
    <3>2. CASE ca_fill_window(tp)
      <4>1. u = add(w, tp)  BY <1>5, <1>7, <3>2 DEF ca_fill_window
      <4>2. j = k + 1  BY <1>4, <1>5, <1>6, <1>7, <4>1, WindowGrows
      <4> QED  BY <4>2
    <3>3. CASE ca_slide_window(tp)
      <4>1. PICK length : length = Length  OBVIOUS
      <4>2. PICK v : u = move(v, tp, length) /\ v.inputs = w.inputs
        BY <1>5, <1>7, <3>3, <4>1, SlideLeaves, LeftAsItWas
      <4> QED  BY <1>4, <1>5, <1>6, <1>7, <4>2, WindowGrows
    <3> QED  BY <1>12, <3>1, <3>2, <3>3
  <2>3. ASSUME n + 1 < CountModulus
        PROVE  c + j <= n + 1 /\ Len(output_ta) = c \div p
    <3>1. c + k <= n /\ Len(output_ta) = c \div p
      BY <1>3, <1>4, <1>5, <1>6, <2>3 DEF CountInv
    <3> QED  BY <2>2, <3>1
  <2> QED  BY <1>1, <1>2, <1>3, <1>7, <2>1, <2>3 DEF CountInv
<1> QED  BY <1>11, <1>12 DEF receive_ca

-----------------------------------------------------------------------------
(* The invariant of all steps *)

StepInv ==
  /\ Inv
  /\ StreamInv
  /\ HeldInv
  /\ CountInv
  /\ NothingLost

\* Nothing is held of a stream that has not begun.
LEMMA NothingYet ==
  ASSUME Untouched, received = <<>>
  PROVE  HeldInv /\ Held = {} /\ NothingLost
<1>1. "Z" \in Planes  BY DEF Planes
<1>2. HeldList = <<>>  BY <1>1 DEF HeldList, Untouched, EmptyWindow
<1>3. Held = {}  BY <1>2, RangeOfNone DEF Held
<1>4. DOMAIN received = {} /\ <<>> \in Seq(TriggerPrimitive)  OBVIOUS
<1>5. HeldInv
  BY <1>1, <1>4, RangeOfNone DEF HeldInv, Untouched, EmptyWindow, FromStream
<1>6. NothingLost  BY <1>4 DEF NothingLost
<1> QED  BY <1>3, <1>5, <1>6

LEMMA NothingYetNext ==
  ASSUME Untouched', received' = <<>>
  PROVE  HeldInv' /\ Held' = {} /\ NothingLost'
<1>1. "Z" \in Planes  BY DEF Planes
<1>2. HeldList' = <<>>  BY <1>1 DEF HeldList, Untouched, EmptyWindow
<1>3. Held' = {}  BY <1>2, RangeOfNone DEF Held
<1>4. DOMAIN received' = {} /\ <<>> \in Seq(TriggerPrimitive)  OBVIOUS
<1>5. HeldInv'
  BY <1>1, <1>4, RangeOfNone DEF HeldInv, Untouched, EmptyWindow, FromStream
<1>6. NothingLost'  BY <1>4 DEF NothingLost
<1> QED  BY <1>3, <1>5, <1>6

LEMMA InitSteps == Init => StepInv /\ Segments!Init
<1> SUFFICES ASSUME Init PROVE StepInv /\ Segments!Init
  OBVIOUS
<1>1. Inv  BY InvInit
<1>2. /\ received = <<>> /\ output_ta = <<>> /\ maker = NoMaker /\ m_extent = NoExtent
      /\ m_ta_count = 0 /\ m_primitive_count = 0 /\ flushed = FALSE
      /\ DOMAIN received = {}
  BY DEF Init
<1>3. HeldInv /\ Held = {} /\ NothingLost  BY <1>1, <1>2, NothingYet DEF Inv
<1>4. Outputs
  <2>1. output_ta \in Seq({})  BY <1>2
  <2> QED  BY <2>1 DEF Outputs
<1>5. maker \notin Makers
  BY <1>2, TriggerActivityFactoryAssumption DEF NoMaker, Windowed, Bundling
<1>6. maker \notin {"Supernova", "ChannelAdjacency", "Prescale", "HorizontalMuon"}
  BY <1>2 DEF NoMaker
<1>7. StreamInv  BY <1>2, <1>4, <1>6 DEF StreamInv, InTimeOrder
<1>8. CountInv  BY <1>2, <1>6 DEF CountInv
<1>9. Segments!Init
  <2>1. Len(received) = 0  BY <1>2
  <2>2. [k \in DOMAIN output_ta |-> Ids(output_ta[k].inputs)] = <<>>
    <3>1. DOMAIN output_ta = {}  BY <1>2
    <3> QED  BY <3>1
  <2> QED  BY <1>3, <2>1, <2>2 DEF Segments!Init
<1> QED  BY <1>1, <1>3, <1>7, <1>8, <1>9 DEF StepInv

\* A maker that is built or configured has seen no TP.
LEMMA BeforeTheStream ==
  ASSUME StepInv, Inv', received = <<>>,
         UNCHANGED <<received, output_ta, m_extent, flushed, counters>>
  PROVE  StepInv' /\ UNCHANGED Segments!segmentVars
<1>1. received' = <<>> /\ DOMAIN received' = {}  OBVIOUS
<1>2. HeldInv' /\ Held' = {} /\ NothingLost'  BY <1>1, NothingYetNext DEF Inv
<1>3. Held = {}  BY NothingYet DEF StepInv, Inv
<1>4. output_ta = <<>> /\ ~ flushed  BY DEF StepInv, StreamInv
<1>5. DOMAIN output_ta = {} /\ Emitted' = {}  BY <1>4 DEF Emitted
<1>6. Outputs'  BY DEF StepInv, StreamInv, Outputs
<1>7. StreamInv'
  BY <1>1, <1>4, <1>5, <1>6 DEF StepInv, StreamInv, InTimeOrder
<1>8. CountInv'
  <2>1. m_ta_count' = 0 /\ m_primitive_count' = 0  BY DEF StepInv, CountInv, counters
  <2>2. Len(received') = 0 /\ Len(output_ta') = 0  BY <1>1, <1>4
  <2>3. maker' \in {"HorizontalMuon", "ChannelAdjacency"} => 0 \div m_config'["prescale"] = 0
    <3>1. ASSUME NEW p \in Nat \ {0} PROVE 0 \div p = 0  OBVIOUS
    <3>2. ASSUME maker' \in {"HorizontalMuon", "ChannelAdjacency"}
          PROVE  m_config'["prescale"] \in Nat \ {0}
      <4>1. maker' \in Makers
        BY <3>2, TriggerActivityFactoryAssumption DEF Windowed, Bundling
      <4>2. "prescale" \in DOMAIN m_config' /\ ValidConfig(m_config', maker')
        BY <3>2, <4>1, TriggerActivityFactoryAssumption DEF Inv, Configured, Members
      <4>3. "prescale" \notin Switches  BY DEF Switches
      <4> QED  BY <4>2, <4>3 DEF ValidConfig
    <3> QED  BY <3>1, <3>2
  <2>4. maker' = "ChannelAdjacency" => Len(m_current_window'.inputs) = 0
    BY <1>1 DEF Inv, Untouched, EmptyWindow
  <2> QED  BY <1>1, <1>5, <2>1, <2>2, <2>3, <2>4 DEF CountInv
<1>9. UNCHANGED Segments!segmentVars
  <2>1. [k \in DOMAIN output_ta |-> Ids(output_ta[k].inputs)] = <<>>
    BY <1>5
  <2>2. [k \in DOMAIN output_ta' |-> Ids(output_ta'[k].inputs)] = <<>>
    BY <1>5
  <2> QED  BY <1>2, <1>3, <2>1, <2>2 DEF Segments!segmentVars
<1> QED  BY <1>2, <1>7, <1>8, <1>9 DEF StepInv

LEMMA CallCounts ==
  ASSUME Inv, StreamInv, CountInv, NEW tp \in NextTPsFor, call(tp)
  PROVE  CountInv'
<1>1. CASE maker = "HorizontalMuon" /\ receive_hm(tp)  BY <1>1, HorizontalMuonCounts
<1>2. CASE maker = "ChannelAdjacency" /\ receive_ca(tp)  BY <1>2, ChannelAdjacencyCounts
<1>3. CASE maker = "Prescale" /\ receive_prescale(tp)  BY <1>3, PrescaleCounts
<1>4. CASE /\ maker \notin {"Prescale", "HorizontalMuon", "ChannelAdjacency"}
           /\ take(tp) /\ UNCHANGED counters
  <2>1. received' # <<>> /\ UNCHANGED maker  BY <1>4, StreamAppend DEF take
  <2> QED  BY <1>4, <2>1, OthersCount
<1> QED
  BY <1>1, <1>2, <1>3, <1>4
  DEF call, receive_me, receive_pc, receive_bundle, receive_distance, receive_supernova

LEMMA CallKeepsSteps ==
  ASSUME StepInv, Inv', ~ flushed, NEW tp \in NextTPsFor, call(tp)
  PROVE  StepInv' /\ Segments!Next
<1>1. Inv /\ StreamInv /\ HeldInv /\ CountInv /\ NothingLost /\ m_ta_count \in Nat /\ Outputs
      /\ received \in Seq(TriggerPrimitive)
  BY DEF StepInv, CountInv, StreamInv, Inv
<1>2. CountInv'  BY <1>1, CallCounts
<1>3. CASE maker # "ChannelAdjacency"
  <2>1. take(tp) /\ HeldInv' /\ Takes(tp)  BY <1>1, <1>3, CallTakes
  <2>2. PICK kept \in SUBSET Held : Accounts(kept) \/ Passes(kept)  BY <2>1 DEF Takes
  <2>3. Outputs'  BY <1>1, <2>2, EmittedStays
  <2>4. StreamInv'  BY <1>1, <1>3, <2>1, <2>3, StreamGoesOn
  <2>5. NothingLost'  BY <1>1, <1>3, <2>1, LostByCall
  <2>6. Segments!Next  BY <1>1, <1>3, <2>1, <2>2, CallIsAStep DEF take
  <2> QED  BY <1>2, <2>1, <2>4, <2>5, <2>6 DEF StepInv
<1>4. CASE maker = "ChannelAdjacency"
  <2>1. take(tp) /\ HeldInv' /\ Outputs' /\ (TakesTracks \/ LetsGo(tp))
    BY <1>1, <1>4, ChannelAdjacencyTakes
  <2>2. Emitted' \subseteq DOMAIN received
    <3>1. Held \subseteq DOMAIN received /\ Emitted \subseteq DOMAIN received
      BY <1>1, <1>4, HeldOfStream DEF StreamInv
    <3> QED  BY <2>1, <3>1 DEF TakesTracks, LetsGo
  <2>3. StreamInv'  BY <1>1, <2>1, <2>2, StreamGoesOn
  <2>4. NothingLost'  BY <1>1, <1>4, <2>1, LostByChannelAdjacency
  <2>5. Segments!Next
    <3>1. \E kept \in SUBSET Held : Held' = kept \cup {number}
      <4>1. CASE TakesTracks
        <5>1. {} \in SUBSET Held /\ Held' = {} \cup {number}  BY <4>1 DEF TakesTracks
        <5> QED  BY <5>1
      <4>2. CASE LetsGo(tp)  BY <4>2 DEF LetsGo
      <4> QED  BY <2>1, <4>1, <4>2
    <3>2. PICK kept \in SUBSET Held : Held' = kept \cup {number}  BY <3>1
    <3> QED  BY <1>1, <1>4, <2>1, <3>2, HeldIsAStep DEF take
  <2> QED  BY <1>2, <2>1, <2>3, <2>4, <2>5 DEF StepInv
<1> QED  BY <1>3, <1>4

\* flush() gives out all that a Supernova activity holds.
LEMMA FlushKeepsSteps ==
  ASSUME StepInv, Inv', end_of_stream
  PROVE  StepInv' /\ Segments!Next
<1>1. /\ maker = "Supernova" /\ received # <<>> /\ ~ flushed /\ flushed' = TRUE
      /\ output_ta' = Append(output_ta, MakeTriggerActivity)
      /\ UNCHANGED <<maker, m_config, windowVars, bundleVars, counters, received>>
  BY DEF end_of_stream, flush
<1>2. maker \in Bundling  BY <1>1 DEF Bundling
<1>3. m_current_ta \in Seq(TriggerPrimitive) /\ m_current_ta # <<>>
      /\ m_extent.time_start \in TimesOf(received)
  BY <1>1, <1>2 DEF StepInv, HeldInv
<1>4. Held = Ids(m_current_ta) /\ Held # {}  BY <1>1, <1>2, <1>3, HeldIs, SomeId
<1>5. Held' = {}
  <2>1. HeldList' = <<>>  BY <1>1, <1>2 DEF HeldList, Windowed
  <2> QED  BY <2>1, RangeOfNone DEF Held
<1>6. GivesOut(Held)
  <2>1. MakeTriggerActivity.inputs = m_current_ta  BY DEF MakeTriggerActivity, ta_of
  <2> QED  BY <1>1, <1>4, <2>1 DEF GivesOut
<1>7. /\ Outputs' /\ Emitted' = Emitted \cup Held
      /\ Given(output_ta)' = Append(Given(output_ta), Held)
  BY <1>6, GivenGrows DEF StepInv, StreamInv
<1>8. HeldInv'
  BY <1>1, <1>3 DEF HeldInv, Windowed, bundleVars, TimesOf
<1>9. StreamInv'
  <2>1. LastTime' = LastTime  BY <1>1 DEF LastTime
  <2> QED  BY <1>1, <1>7, <2>1 DEF StepInv, StreamInv, bundleVars
<1>10. CountInv'
  <2>1. maker' = "Supernova" /\ m_ta_count' \in Nat /\ m_primitive_count' \in Nat /\ received' # <<>>
    BY <1>1 DEF StepInv, CountInv, counters
  <2> QED  BY <2>1 DEF CountInv
<1>11. NothingLost'
  BY <1>1, <1>5, <1>7 DEF StepInv, NothingLost
<1>12. Segments!Next
  <2>1. Segments!GiveAll  BY <1>1, <1>4, <1>5, <1>7 DEF Segments!GiveAll, Given
  <2> QED  BY <2>1 DEF Segments!Next
<1> QED  BY <1>8, <1>9, <1>10, <1>11, <1>12 DEF StepInv

LEMMA StepKeeps ==
  StepInv /\ [Next]_vars => StepInv' /\ [Segments!Next]_(Segments!segmentVars)
<1> SUFFICES ASSUME StepInv, [Next]_vars
             PROVE  StepInv' /\ [Segments!Next]_(Segments!segmentVars)
  OBVIOUS
<1>1. Inv'  BY InvNext DEF StepInv
<1>2. ASSUME NEW name \in Makers, build_maker(name)
      PROVE  StepInv' /\ UNCHANGED Segments!segmentVars
  <2>1. UNCHANGED <<received, output_ta, m_extent, flushed, counters>>
    BY <1>2 DEF build_maker, bundleVars
  <2>2. received = <<>>
    <3>1. maker = NoMaker /\ NoMaker \notin Makers
      BY <1>2, TriggerActivityFactoryAssumption DEF build_maker, NoMaker, Windowed, Bundling
    <3> QED  BY <3>1 DEF StepInv, Inv, Configured
  <2> QED  BY <1>1, <2>1, <2>2, BeforeTheStream
<1>3. ASSUME NEW config \in Configs[maker], configure(config)
      PROVE  StepInv' /\ UNCHANGED Segments!segmentVars
  <2>1. UNCHANGED <<received, output_ta, m_extent, flushed, counters>> /\ received = <<>>
    BY <1>3 DEF configure, bundleVars
  <2> QED  BY <1>1, <2>1, BeforeTheStream
<1>4. ASSUME ~ flushed, NEW tp \in NextTPsFor, call(tp)
      PROVE  StepInv' /\ Segments!Next
  BY <1>1, <1>4, CallKeepsSteps
<1>5. CASE end_of_stream  BY <1>1, <1>5, FlushKeepsSteps
<1>6. CASE UNCHANGED vars
  <2>1. UNCHANGED <<maker, m_config, m_current_window, m_plane_windows, m_current_ta, m_extent,
                    m_ta_count, m_primitive_count, flushed, output_ta, received>>
    BY <1>6 DEF vars, windowVars, bundleVars, counters
  <2>2. UNCHANGED <<Held, Emitted>>  BY <2>1 DEF Held, HeldList, Emitted
  <2>3. StreamInv'  BY <2>1, <2>2 DEF StepInv, StreamInv, Outputs, LastTime
  <2>4. HeldInv'  BY <2>1 DEF StepInv, HeldInv, FromStream, TimesOf
  <2>5. CountInv'  BY <2>1, <2>2 DEF StepInv, CountInv
  <2>6. NothingLost'
    BY <2>1, <2>2 DEF StepInv, NothingLost, Stale, NearEmitted, TimesOf
  <2>7. UNCHANGED Segments!segmentVars  BY <2>1, <2>2 DEF Segments!segmentVars
  <2> QED  BY <1>1, <2>3, <2>4, <2>5, <2>6, <2>7 DEF StepInv
<1> QED  BY <1>2, <1>3, <1>4, <1>5, <1>6 DEF Next

-----------------------------------------------------------------------------
(* The start of a TA *)

Least(m, S) == m \in S /\ \A n \in S : m <= n

\* A set of numbers has one least, and a bounded one has a largest.
LEMMA OneLeast ==
  ASSUME NEW S \in SUBSET Nat, S # {}
  PROVE  /\ \E m \in S : Least(m, S)
         /\ \A m, n : Least(m, S) /\ Least(n, S) => m = n
<1>1. \E m \in S : \A n \in S : m <= n  BY LeastElement
<1>2. ASSUME NEW m, NEW n, Least(m, S), Least(n, S) PROVE m = n
  <2>1. m \in Nat /\ n \in Nat /\ m <= n /\ n <= m  BY <1>2 DEF Least
  <2> QED  BY <2>1
<1> QED  BY <1>1, <1>2 DEF Least

LEMMA LeastOfOneMore ==
  ASSUME NEW S \in SUBSET Nat, NEW m, Least(m, S), NEW t \in Nat
  PROVE  Least(IF t < m THEN t ELSE m, S \cup {t})
<1>1. m \in Nat /\ m \in S /\ \A n \in S : n \in Nat /\ m <= n  BY DEF Least
<1>2. CASE t < m
  <2>1. ASSUME NEW n \in S PROVE t <= n
    <3>1. n \in Nat /\ m <= n  BY <1>1
    <3> QED  BY <1>1, <1>2, <3>1
  <2> QED  BY <1>2, <2>1 DEF Least
<1>3. CASE ~ (t < m)
  <2>1. m <= t  BY <1>1, <1>3
  <2> QED  BY <1>1, <1>3, <2>1 DEF Least
<1> QED  BY <1>2, <1>3

LEMMA LargestOf ==
  ASSUME NEW N \in Nat, NEW S \in SUBSET (1 .. N), S # {}
  PROVE  Max(S) \in S /\ \A n \in S : n <= Max(S)
<1> DEFINE rest == { N - n : n \in S }
<1>1. rest \in SUBSET Nat /\ rest # {}  OBVIOUS
<1> HIDE DEF rest
<1>2. PICK r \in rest : Least(r, rest)  BY <1>1, OneLeast
<1>3. PICK m \in S : r = N - m  BY <1>2 DEF rest
<1>4. ASSUME NEW n \in S PROVE m >= n
  <2>1. N - n \in rest  BY DEF rest
  <2>2. N - m <= N - n  BY <1>2, <1>3, <2>1 DEF Least
  <2> QED  BY <2>2
<1>5. Max(S) \in S /\ \A n \in S : Max(S) >= n  BY <1>3, <1>4 DEF Max
<1> QED  BY <1>5

\* The loop over a list that keeps the lesser of two times, over the list's
\* elements of the numbers in s.
Earlier(f, list, N, base) ==
  f = [s \in SUBSET (1 .. N) |->
         IF s = {} THEN base
         ELSE LET x == Max(s)
              IN  IF list[x].time_start < f[s \ {x}] THEN list[x].time_start ELSE f[s \ {x}]]

Earliest(list, N, base) == (CHOOSE f : Earlier(f, list, N, base))[1 .. N]

\* From the time of the last element it ends with the least time of all.
LEMMA EarliestOf ==
  ASSUME NEW list, NEW N \in Nat \ {0}, \A i \in 1 .. N : list[i].time_start \in Nat
  PROVE  Least(Earliest(list, N, list[N].time_start), { list[i].time_start : i \in 1 .. N })
<1>1. PICK t \in [1 .. N -> Nat] : \A i \in 1 .. N : t[i] = list[i].time_start
  <2>1. [i \in 1 .. N |-> list[i].time_start] \in [1 .. N -> Nat]  OBVIOUS
  <2> QED  BY <2>1
<1>2. PICK base \in Nat : base = list[N].time_start /\ base = t[N]
  <2>1. N \in 1 .. N  OBVIOUS
  <2> QED  BY <1>1, <2>1
<1> DEFINE times(s) == {base} \cup { t[i] : i \in s }
<1>3. \A s \in SUBSET (1 .. N) : times(s) \in SUBSET Nat /\ times(s) # {}  OBVIOUS
<1>4. ASSUME NEW s \in SUBSET (1 .. N), s # {}
      PROVE  /\ Max(s) \in 1 .. N /\ s \ {Max(s)} \in SUBSET (1 .. N)
             /\ \A m : Least(m, times(s \ {Max(s)})) =>
                  Least(IF t[Max(s)] < m THEN t[Max(s)] ELSE m, times(s))
  <2>1. PICK x \in s : x = Max(s)  BY <1>4, LargestOf
  <2>2. x \in 1 .. N /\ s \ {x} \in SUBSET (1 .. N)  OBVIOUS
  <2>3. PICK n \in Nat : n = t[x]  BY <2>2
  <2>4. times(s) = times(s \ {x}) \cup {n}  BY <2>3
  <2>5. times(s \ {x}) \in SUBSET Nat  BY <1>3, <2>2
  <2> HIDE DEF times
  <2>6. ASSUME NEW m, Least(m, times(s \ {x}))
        PROVE  Least(IF n < m THEN n ELSE m, times(s))
    <3>1. PICK S \in SUBSET Nat : S = times(s \ {x})  BY <2>5
    <3>2. Least(m, S)  BY <2>6, <3>1
    <3>3. Least(IF n < m THEN n ELSE m, S \cup {n})  BY <3>2, LeastOfOneMore
    <3> QED  BY <2>4, <3>1, <3>3
  <2> QED  BY <2>1, <2>2, <2>3, <2>6
<1> DEFINE least(s) == CHOOSE m \in times(s) : Least(m, times(s))
<1>5. PICK g : g = [s \in SUBSET (1 .. N) |-> least(s)]  OBVIOUS
<1>6. ASSUME NEW s \in SUBSET (1 .. N) PROVE Least(g[s], times(s))
  <2>1. g[s] = CHOOSE m \in times(s) : Least(m, times(s))  BY <1>5
  <2>2. times(s) \in SUBSET Nat /\ times(s) # {}  BY <1>3
  <2> HIDE DEF times
  <2>3. \E m \in times(s) : Least(m, times(s))  BY <2>2, OneLeast
  <2> QED  BY <2>1, <2>3
<1>7. ASSUME NEW s \in SUBSET (1 .. N)
      PROVE  g[s] = IF s = {} THEN base
                    ELSE LET x == Max(s)
                         IN  IF t[x] < g[s \ {x}] THEN t[x] ELSE g[s \ {x}]
  <2>1. Least(g[s], times(s)) /\ times(s) \in SUBSET Nat /\ times(s) # {}  BY <1>3, <1>6
  <2>2. CASE s = {}
    <3>1. times(s) = {base}  BY <2>2
    <3> QED  BY <2>1, <2>2, <3>1 DEF Least
  <2>3. CASE s # {}
    <3>1. PICK x : x = Max(s) /\ x \in 1 .. N /\ s \ {x} \in SUBSET (1 .. N)  BY <1>4, <2>3
    <3>2. Least(g[s \ {x}], times(s \ {x}))  BY <1>6, <3>1
    <3>3. Least(IF t[x] < g[s \ {x}] THEN t[x] ELSE g[s \ {x}], times(s))
      BY <1>4, <2>3, <3>1, <3>2
    <3> HIDE DEF times
    <3>4. g[s] = IF t[x] < g[s \ {x}] THEN t[x] ELSE g[s \ {x}]  BY <2>1, <3>3, OneLeast
    <3> QED  BY <2>3, <3>1, <3>4
  <2> QED  BY <2>2, <2>3
<1>8. Earlier(g, list, N, base)
  <2>1. ASSUME NEW s \in SUBSET (1 .. N)
        PROVE  g[s] = IF s = {} THEN base
                      ELSE LET x == Max(s)
                           IN  IF list[x].time_start < g[s \ {x}] THEN list[x].time_start
                               ELSE g[s \ {x}]
    <3>1. CASE s = {}  BY <1>7, <3>1
    <3>2. CASE s # {}
      <4>1. Max(s) \in 1 .. N  BY <1>4, <3>2
      <4>2. t[Max(s)] = list[Max(s)].time_start  BY <1>1, <4>1
      <4>3. g[s] = IF t[Max(s)] < g[s \ {Max(s)}] THEN t[Max(s)] ELSE g[s \ {Max(s)}]
        BY <1>7, <3>2
      <4> QED  BY <3>2, <4>2, <4>3
    <3> QED  BY <3>1, <3>2
  <2> DEFINE body(s) == IF s = {} THEN base
                        ELSE LET x == Max(s)
                             IN  IF list[x].time_start < g[s \ {x}] THEN list[x].time_start
                                 ELSE g[s \ {x}]
  <2>2. \A s \in SUBSET (1 .. N) : g[s] = body(s)  BY <2>1
  <2> HIDE DEF body, least
  <2>3. g = [s \in SUBSET (1 .. N) |-> g[s]]  BY <1>5
  <2>4. g = [s \in SUBSET (1 .. N) |-> body(s)]  BY <2>2, <2>3
  <2> QED  BY <2>4 DEF Earlier, body
<1>9. PICK f : f = (CHOOSE h : Earlier(h, list, N, base))  OBVIOUS
<1>10. Earlier(f, list, N, base)  BY <1>8, <1>9
<1>11. ASSUME NEW s \in SUBSET (1 .. N)
       PROVE  f[s] = IF s = {} THEN base
                     ELSE LET x == Max(s)
                          IN  IF list[x].time_start < f[s \ {x}] THEN list[x].time_start
                              ELSE f[s \ {x}]
  BY <1>10 DEF Earlier
<1> DEFINE T == { n \in 0 .. N : Least(f[1 .. n], times(1 .. n)) }
<1>12. 0 \in T
  <2>1. 1 .. 0 = {} /\ {} \in SUBSET (1 .. N) /\ 0 \in 0 .. N  OBVIOUS
  <2>2. f[{}] = base  BY <1>11, <2>1
  <2>3. times({}) = {base}  OBVIOUS
  <2>4. Least(base, {base})  BY <1>2 DEF Least
  <2>5. Least(f[1 .. 0], times(1 .. 0))  BY <2>1, <2>2, <2>3, <2>4
  <2> QED  BY <2>1, <2>5
<1>13. ASSUME NEW n \in 1 .. N, n - 1 \in T PROVE n \in T
  <2>1. PICK s : s = 1 .. n  OBVIOUS
  <2>2. n \in 0 .. N /\ n \in Nat /\ n \in s  BY <2>1
  <2>3. s \in SUBSET (1 .. n)  BY <2>1
  <2>4. s \in SUBSET (1 .. N)  BY <2>1
  <2>5. s # {}  BY <2>2
  <2>6. Max(s) \in s /\ n <= Max(s)  BY <2>2, <2>3, <2>5, LargestOf
  <2>7. Max(s) = n  BY <2>1, <2>6
  <2>8. s \ {n} = 1 .. (n - 1)  BY <2>1
  <2>9. Least(f[s \ {n}], times(s \ {n}))  BY <1>13, <2>8
  <2>10. f[s] = IF t[n] < f[s \ {n}] THEN t[n] ELSE f[s \ {n}]
    BY <1>1, <1>11, <2>4, <2>5, <2>7
  <2> HIDE DEF times
  <2>11. Least(f[s], times(s))  BY <1>4, <2>4, <2>5, <2>7, <2>9, <2>10
  <2> QED  BY <2>1, <2>2, <2>11
<1> HIDE DEF T
<1>14. \A n \in 0 .. N : n \in T  BY <1>12, <1>13, InductionUpTo
<1>15. Least(f[1 .. N], times(1 .. N))
  <2>1. N \in T  BY <1>14
  <2> QED  BY <2>1 DEF T
<1>16. times(1 .. N) = { list[i].time_start : i \in 1 .. N }
  <2>1. N \in 1 .. N  OBVIOUS
  <2> QED  BY <1>1, <1>2, <2>1
<1> HIDE DEF times
<1> QED  BY <1>2, <1>9, <1>15, <1>16 DEF Earliest

\* construct_ta() gives the window's charge and TPs, and the least of their times.
LEMMA ConstructedTA ==
  ASSUME NEW w, w.inputs \in Seq(TriggerPrimitive), w.inputs # <<>>,
         NEW ta, ta = construct_ta_hm(w) \/ ta = construct_ta_ca(w)
  PROVE  /\ ta = ta_of(ta.time_start, w.adc_integral, w.inputs)
         /\ Least(ta.time_start, TimesOf(w.inputs))
<1>1. PICK tps \in Seq(TriggerPrimitive) : tps = w.inputs  OBVIOUS
<1>2. PICK N \in Nat \ {0} : N = Len(tps) /\ DOMAIN tps = 1 .. N
  BY <1>1, EmptySeq
<1>3. \A i \in 1 .. N : tps[i].time_start \in Nat
  <2>1. \A i \in 1 .. N : tps[i] \in TriggerPrimitive  BY <1>2
  <2> QED  BY <2>1, TPType
<1>4. Len(w.inputs) = N /\ DOMAIN w.inputs = 1 .. N  BY <1>1, <1>2
<1>5. PICK start : start = Earliest(tps, N, tps[N].time_start)  OBVIOUS
<1>6. Least(start, { tps[i].time_start : i \in 1 .. N })  BY <1>3, <1>5, EarliestOf
<1>7. construct_ta_hm(w) = ta_of(start, w.adc_integral, w.inputs)
  BY <1>1, <1>4, <1>5 DEF construct_ta_hm, FoldLeft, MapThenFoldSet, Earliest, Earlier
<1>8. construct_ta_ca(w) = ta_of(start, w.adc_integral, w.inputs)
  BY <1>1, <1>4, <1>5 DEF construct_ta_ca, FoldLeft, MapThenFoldSet, Earliest, Earlier
<1>9. ta = ta_of(start, w.adc_integral, w.inputs)  BY <1>7, <1>8
<1>10. ta.time_start = start  BY <1>9 DEF ta_of
<1> QED  BY <1>1, <1>2, <1>6, <1>9, <1>10 DEF TimesOf

-----------------------------------------------------------------------------
(* The members of the TA makers *)

TAs == [time_start : Timestamps, adc_integral : Nat, inputs : Seq(TriggerPrimitive)]

\* The TAs that have the charge, as wide as a window keeps it or in full, and
\* the start of their own TPs, and those with the charge of a track.
WindowTAs ==
  { ta \in TAs : /\ ta.adc_integral = TotalAdc(ta.inputs) % AdcModulus
                 /\ Least(ta.time_start, TimesOf(ta.inputs)) }
BundleTAs ==
  { ta \in TAs : /\ ta.adc_integral = TotalAdc(ta.inputs)
                 /\ Least(ta.time_start, TimesOf(ta.inputs)) }
TrackTAs ==
  { ta \in TAs : /\ ta.adc_integral \in TrackCharges(ta.inputs)
                 /\ Least(ta.time_start, TimesOf(ta.inputs)) }
HonestTAs ==
  IF maker = "ChannelAdjacency" THEN TrackTAs
  ELSE IF maker \in Windowed \cup {"PlaneCoincidence"} THEN WindowTAs ELSE BundleTAs

LEMMA TimesType ==
  ASSUME NEW tps \in Seq(TriggerPrimitive)
  PROVE  TimesOf(tps) \in SUBSET Timestamps
<1>1. \A i \in DOMAIN tps : tps[i] \in TriggerPrimitive  OBVIOUS
<1>2. \A i \in DOMAIN tps : tps[i].time_start \in Timestamps  BY <1>1, TPType
<1> QED  BY <1>2 DEF TimesOf

LEMMA ChargeType ==
  ASSUME NEW tps \in Seq(TriggerPrimitive)
  PROVE  TotalAdc(tps) \in Nat
<1>1. \A e \in TriggerPrimitive : e.adc_integral \in Nat  BY TPType
<1> QED  BY <1>1, TotalAdcType

LEMMA WindowTA ==
  ASSUME NEW w, Charged(w), NEW t, Least(t, TimesOf(w.inputs))
  PROVE  ta_of(t, w.adc_integral, w.inputs) \in WindowTAs
<1>1. PICK ta : ta = ta_of(t, w.adc_integral, w.inputs)  OBVIOUS
<1>2. ta.time_start = t /\ ta.adc_integral = w.adc_integral /\ ta.inputs = w.inputs
  BY <1>1 DEF ta_of
<1>3. w.inputs \in Seq(TriggerPrimitive) /\ w.adc_integral = TotalAdc(w.inputs) % AdcModulus
  BY DEF Charged, IsWindow, ChargeAgrees
<1>4. t \in Timestamps  BY <1>3, TimesType DEF Least
<1>5. w.adc_integral \in Nat
  <2>1. w.adc_integral \in 0 .. AdcModulus - 1  BY DEF Charged, IsWindow
  <2>2. 0 .. AdcModulus - 1 \subseteq Nat  BY TPWindowAssumption
  <2> QED  BY <2>1, <2>2
<1>6. ta \in TAs  BY <1>1, <1>3, <1>4, <1>5 DEF ta_of, TAs
<1> QED  BY <1>1, <1>2, <1>3, <1>6 DEF WindowTAs

LEMMA BundleTA ==
  ASSUME NEW tps \in Seq(TriggerPrimitive), NEW t, Least(t, TimesOf(tps))
  PROVE  ta_of(t, TotalAdc(tps), tps) \in BundleTAs
<1>1. PICK ta : ta = ta_of(t, TotalAdc(tps), tps)  OBVIOUS
<1>2. ta.time_start = t /\ ta.adc_integral = TotalAdc(tps) /\ ta.inputs = tps
  BY <1>1 DEF ta_of
<1>3. t \in Timestamps  BY TimesType DEF Least
<1>4. TotalAdc(tps) \in Nat  BY ChargeType
<1>5. ta \in TAs  BY <1>1, <1>3, <1>4 DEF ta_of, TAs
<1> QED  BY <1>1, <1>2, <1>5 DEF BundleTAs

\* In a list in order of time the first is the least.
LEMMA FirstIsLeast ==
  ASSUME NEW tps \in Seq(TriggerPrimitive), tps # <<>>, NEW now, InTimeOrder(tps, now)
  PROVE  Least(tps[1].time_start, TimesOf(tps))
<1>1. 1 \in DOMAIN tps  BY EmptySeq
<1>2. ASSUME NEW i \in DOMAIN tps PROVE tps[1].time_start <= tps[i].time_start
  <2>1. CASE i = 1
    <3>1. tps[1] \in TriggerPrimitive  BY <1>1
    <3>2. tps[1].time_start \in Nat  BY <3>1, TPType
    <3> QED  BY <2>1, <3>2
  <2>2. CASE i # 1
    <3>1. 1 < i  BY <2>2
    <3> QED  BY <1>1, <3>1 DEF InTimeOrder
  <2> QED  BY <2>1, <2>2
<1> QED  BY <1>1, <1>2 DEF Least, TimesOf

LEMMA WindowStartIsLeast ==
  ASSUME NEW w, NEW length, NEW now, WellKept(w, length, now), w.inputs # <<>>
  PROVE  Least(w.time_start, TimesOf(w.inputs))
<1>1. /\ w.inputs \in Seq(TriggerPrimitive) /\ InTimeOrder(w.inputs, now)
      /\ w.time_start = w.inputs[1].time_start
  BY DEF WellKept, ListKept, Charged, IsWindow
<1> QED  BY <1>1, FirstIsLeast

LEMMA BundleTAOfTPs ==
  ASSUME NEW tps \in Seq(TriggerPrimitive), tps # <<>>, NEW now, InTimeOrder(tps, now)
  PROVE  ta_of_tps(tps) \in BundleTAs
<1>1. Least(tps[1].time_start, TimesOf(tps))  BY FirstIsLeast
<1>2. ta_of_tps(tps) = ta_of(tps[1].time_start, TotalAdc(tps), tps)  BY DEF ta_of_tps
<1>3. PICK t : t = tps[1].time_start  OBVIOUS
<1> QED  BY <1>1, <1>2, <1>3, BundleTA

-----------------------------------------------------------------------------
(* What Supernova knows of its TPs *)

Greatest(m, S) == m \in S /\ \A n \in S : n <= m

Extents ==
  [time_start : Timestamps, time_end : Timestamps, channel_start : Nat, channel_end : Nat,
   adc_integral : Nat]

EndsOf(tps) == { tend(tps[i]) : i \in DOMAIN tps }

Spans(x, tps) ==
  /\ x \in Extents
  /\ Least(x.time_start, TimesOf(tps)) /\ Greatest(x.time_end, EndsOf(tps))
  /\ Least(x.channel_start, ChannelsOf(tps)) /\ Greatest(x.channel_end, ChannelsOf(tps))
  /\ x.adc_integral = TotalAdc(tps)

LEMMA TPEnds ==
  ASSUME NEW tp \in TriggerPrimitive
  PROVE  /\ tend(tp) \in Timestamps /\ tend(tp) \in Nat
         /\ tp.channel \in Nat
<1>1. PICK t \in Nat, tot \in Nat : t = tp.time_start /\ tot = tp.time_over_threshold
  <2>1. tp.time_start \in Nat  BY TPType
  <2>2. tp.time_over_threshold \in Nat  BY TPAssumption DEF TriggerPrimitive, Tots
  <2> QED  BY <2>1, <2>2
<1>2. (t + tot) % TimeModulus \in 0 .. TimeModulus - 1  BY TimeModulusAssumption
<1>3. (t + tot) % TimeModulus \in Nat  BY <1>2
<1> QED  BY <1>1, <1>2, <1>3, TPChannel DEF tend, Timestamps

\* One TP more.
LEMMA OfAppend ==
  ASSUME NEW tps \in Seq(TriggerPrimitive), NEW tp \in TriggerPrimitive
  PROVE  /\ TimesOf(Append(tps, tp)) = TimesOf(tps) \cup {tp.time_start}
         /\ EndsOf(Append(tps, tp)) = EndsOf(tps) \cup {tend(tp)}
         /\ ChannelsOf(Append(tps, tp)) = ChannelsOf(tps) \cup {tp.channel}
<1>1. PICK m \in Nat : m = Len(tps) /\ DOMAIN tps = 1 .. m  OBVIOUS
<1>2. PICK more : more = Append(tps, tp)  OBVIOUS
<1>3. /\ DOMAIN more = 1 .. (m + 1) /\ more[m + 1] = tp
      /\ \A i \in 1 .. m : more[i] = tps[i]
  BY <1>1, <1>2
<1>4. 1 .. (m + 1) = (1 .. m) \cup {m + 1}  OBVIOUS
<1>5. TimesOf(more) = TimesOf(tps) \cup {tp.time_start}  BY <1>1, <1>3, <1>4 DEF TimesOf
<1>6. EndsOf(more) = EndsOf(tps) \cup {tend(tp)}  BY <1>1, <1>3, <1>4 DEF EndsOf
<1>7. ChannelsOf(more) = ChannelsOf(tps) \cup {tp.channel}  BY <1>1, <1>3, <1>4 DEF ChannelsOf
<1> QED  BY <1>2, <1>5, <1>6, <1>7

LEMMA OfOne ==
  ASSUME NEW tp
  PROVE  /\ TimesOf(<<tp>>) = {tp.time_start} /\ EndsOf(<<tp>>) = {tend(tp)}
         /\ ChannelsOf(<<tp>>) = {tp.channel}
<1>1. DOMAIN <<tp>> = {1} /\ <<tp>>[1] = tp  OBVIOUS
<1> QED  BY <1>1 DEF TimesOf, EndsOf, ChannelsOf

LEMMA NumbersOf ==
  ASSUME NEW tps \in Seq(TriggerPrimitive)
  PROVE  TimesOf(tps) \in SUBSET Nat /\ EndsOf(tps) \in SUBSET Nat
         /\ ChannelsOf(tps) \in SUBSET Nat
<1>1. \A i \in DOMAIN tps : tps[i] \in TriggerPrimitive  OBVIOUS
<1>2. \A i \in DOMAIN tps :
        tps[i].time_start \in Nat /\ tend(tps[i]) \in Nat /\ tps[i].channel \in Nat
  BY <1>1, TPType, TPEnds
<1> QED  BY <1>2 DEF TimesOf, EndsOf, ChannelsOf

LEMMA GreatestOfOneMore ==
  ASSUME NEW S \in SUBSET Nat, NEW m, Greatest(m, S), NEW t \in Nat
  PROVE  Greatest(IF t > m THEN t ELSE m, S \cup {t})
<1>1. m \in Nat /\ m \in S /\ \A n \in S : n \in Nat /\ n <= m  BY DEF Greatest
<1>2. CASE t > m
  <2>1. ASSUME NEW n \in S PROVE n <= t
    <3>1. n \in Nat /\ n <= m  BY <1>1
    <3> QED  BY <1>1, <1>2, <3>1
  <2> QED  BY <1>2, <2>1 DEF Greatest
<1>3. CASE ~ (t > m)
  <2>1. t <= m  BY <1>1, <1>3
  <2> QED  BY <1>1, <1>3, <2>1 DEF Greatest
<1> QED  BY <1>2, <1>3

\* begin and emit start with one TP,
LEMMA SpansOne ==
  ASSUME NEW tp \in TriggerPrimitive
  PROVE  Spans(extent_of(tp), <<tp>>)
<1>1. PICK x : x = extent_of(tp)  OBVIOUS
<1>2. /\ x.time_start = tp.time_start /\ x.time_end = tend(tp)
      /\ x.channel_start = tp.channel /\ x.channel_end = tp.channel
      /\ x.adc_integral = tp.adc_integral
  BY <1>1 DEF extent_of
<1>3. x \in Extents  BY <1>1, TPType, TPEnds DEF extent_of, Extents
<1>4. TotalAdc(<<tp>>) = tp.adc_integral
  <2>1. \A e \in TriggerPrimitive : e.adc_integral \in Nat  BY TPType
  <2> QED  BY <2>1, TotalAdcOne
<1>5. tp.time_start \in Nat /\ tend(tp) \in Nat /\ tp.channel \in Nat  BY TPType, TPEnds
<1> QED  BY <1>1, <1>2, <1>3, <1>4, <1>5, OfOne DEF Spans, Least, Greatest

\* and one more is merged in.
LEMMA SpansMore ==
  ASSUME NEW x, NEW tps \in Seq(TriggerPrimitive), Spans(x, tps), NEW tp \in TriggerPrimitive
  PROVE  Spans(merged(x, tp), Append(tps, tp))
<1>1. PICK t \in Nat, e \in Nat, c \in Nat :
        t = tp.time_start /\ e = tend(tp) /\ c = tp.channel
  BY TPType, TPEnds
<1>2. PICK y : y = merged(x, tp)  OBVIOUS
<1>3. /\ y.time_start = IF t < x.time_start THEN t ELSE x.time_start
      /\ y.time_end = IF e > x.time_end THEN e ELSE x.time_end
      /\ y.channel_start = IF c < x.channel_start THEN c ELSE x.channel_start
      /\ y.channel_end = IF c > x.channel_end THEN c ELSE x.channel_end
      /\ y.adc_integral = x.adc_integral + tp.adc_integral
  BY <1>1, <1>2 DEF merged, merged_upwards
<1>4. PICK times \in SUBSET Nat, ends \in SUBSET Nat, channels \in SUBSET Nat :
        times = TimesOf(tps) /\ ends = EndsOf(tps) /\ channels = ChannelsOf(tps)
  BY NumbersOf
<1>5. /\ Least(x.time_start, times) /\ Greatest(x.time_end, ends)
      /\ Least(x.channel_start, channels) /\ Greatest(x.channel_end, channels)
      /\ x.adc_integral = TotalAdc(tps) /\ x \in Extents
  BY <1>4 DEF Spans
<1>6. Least(y.time_start, times \cup {t})  BY <1>3, <1>5, LeastOfOneMore
<1>7. Greatest(y.time_end, ends \cup {e})  BY <1>3, <1>5, GreatestOfOneMore
<1>8. Least(y.channel_start, channels \cup {c})  BY <1>3, <1>5, LeastOfOneMore
<1>9. Greatest(y.channel_end, channels \cup {c})  BY <1>3, <1>5, GreatestOfOneMore
<1>10. TotalAdc(Append(tps, tp)) = TotalAdc(tps) + tp.adc_integral
  <2>1. \A d \in TriggerPrimitive : d.adc_integral \in Nat  BY TPType
  <2> QED  BY <2>1, TotalAdcAppend
<1>11. y \in Extents
  <2>1. /\ x.time_start \in Timestamps /\ x.time_end \in Timestamps /\ x.channel_start \in Nat
        /\ x.channel_end \in Nat /\ x.adc_integral \in Nat
    BY <1>5 DEF Extents
  <2>2. t \in Timestamps /\ e \in Timestamps /\ tp.adc_integral \in Nat
    BY <1>1, TPType, TPEnds
  <2>3. PICK a \in Nat : a = x.adc_integral + tp.adc_integral
    <3>1. x.adc_integral + tp.adc_integral \in Nat  BY <2>1, <2>2
    <3> QED  BY <3>1
  <2>4. PICK ts \in Timestamps, te \in Timestamps, cs \in Nat, ce \in Nat :
          ts = y.time_start /\ te = y.time_end /\ cs = y.channel_start /\ ce = y.channel_end
    <3>1. y.time_start \in Timestamps  BY <1>3, <2>1, <2>2
    <3>2. y.time_end \in Timestamps  BY <1>3, <2>1, <2>2
    <3>3. y.channel_start \in Nat  BY <1>3, <2>1
    <3>4. y.channel_end \in Nat  BY <1>3, <2>1
    <3> QED  BY <3>1, <3>2, <3>3, <3>4
  <2>5. y = [time_start |-> ts, time_end |-> te, channel_start |-> cs, channel_end |-> ce,
             adc_integral |-> a]
    <3>1. y = [merged_upwards(x, tp) EXCEPT !.channel_start =
                 IF tp.channel < @ THEN tp.channel ELSE @]
      BY <1>2 DEF merged
    <3> QED  BY <2>3, <2>4, <3>1 DEF merged_upwards
  <2> QED  BY <2>5 DEF Extents
<1> QED
  BY <1>1, <1>2, <1>3, <1>4, <1>5, <1>6, <1>7, <1>8, <1>9, <1>10, <1>11, OfAppend DEF Spans

\* So it is what the list of them says.
LEMMA SpansIsExtent ==
  ASSUME NEW x, NEW tps \in Seq(TriggerPrimitive), Spans(x, tps)
  PROVE  x = ExtentOf(tps)
<1>1. ASSUME NEW S \in SUBSET Nat, NEW m, Least(m, S) PROVE m = Min(S)
  <2>1. m \in S /\ \A n \in S : m <= n  BY <1>1 DEF Least
  <2>2. Min(S) \in S /\ \A n \in S : Min(S) <= n  BY <2>1 DEF Min
  <2>3. PICK k \in Nat : k = Min(S) /\ k <= m  BY <2>1, <2>2
  <2>4. m \in Nat /\ m <= k  BY <2>1, <2>2, <2>3
  <2> QED  BY <2>3, <2>4
<1>2. ASSUME NEW S \in SUBSET Nat, NEW m, Greatest(m, S) PROVE m = Max(S)
  <2>1. m \in S /\ \A n \in S : n <= m /\ m >= n  BY <1>2 DEF Greatest
  <2>2. Max(S) \in S /\ \A n \in S : Max(S) >= n  BY <2>1 DEF Max
  <2>3. PICK k \in Nat : k = Max(S) /\ k <= m  BY <2>1, <2>2
  <2>4. m \in Nat /\ k >= m  BY <2>1, <2>2, <2>3
  <2> QED  BY <2>3, <2>4
<1>3. PICK times \in SUBSET Nat, ends \in SUBSET Nat, channels \in SUBSET Nat :
        times = TimesOf(tps) /\ ends = EndsOf(tps) /\ channels = ChannelsOf(tps)
  BY NumbersOf
<1>4. x.time_start = Min(times)  BY <1>1, <1>3 DEF Spans
<1>5. x.time_end = Max(ends)  BY <1>2, <1>3 DEF Spans
<1>6. x.channel_start = Min(channels)  BY <1>1, <1>3 DEF Spans
<1>7. x.channel_end = Max(channels)  BY <1>2, <1>3 DEF Spans
<1>8. x.adc_integral = TotalAdc(tps) /\ x \in Extents  BY DEF Spans
<1>9. ExtentOf(tps) = [time_start |-> Min(times), time_end |-> Max(ends),
                       channel_start |-> Min(channels), channel_end |-> Max(channels),
                       adc_integral |-> TotalAdc(tps)]
  BY <1>3 DEF ExtentOf, EndsOf
<1>10. x = [time_start |-> x.time_start, time_end |-> x.time_end,
            channel_start |-> x.channel_start, channel_end |-> x.channel_end,
            adc_integral |-> x.adc_integral]
  BY <1>8 DEF Extents
<1> QED  BY <1>4, <1>5, <1>6, <1>7, <1>8, <1>9, <1>10

-----------------------------------------------------------------------------
(* The members, in every state *)

Sound(w) == Kept(w) /\ Charged(w)

WindowsSound ==
  /\ Sound(m_current_window)
  /\ m_plane_windows = [p \in Planes |-> m_plane_windows[p]]
  /\ \A p \in Planes : Sound(m_plane_windows[p])

Bounds == [lower : 0 .. ChannelModulus - 1, upper : 0 .. ChannelModulus - 1]

BundleSound ==
  /\ m_current_ta \in Seq(TriggerPrimitive) /\ InTimeOrder(m_current_ta, LastTime)
  /\ m_extent \in Extents
  /\ maker = "Supernova" /\ m_current_ta # <<>> => Spans(m_extent, m_current_ta)

\* The bounds of ChannelDistance do not wrap twice.
BoundsSound ==
  /\ m_bounds \in Bounds
  /\ maker = "ChannelDistance" => m_config["max_channel_distance"] < ChannelModulus

CountSound == m_ta_count \in 0 .. CountModulus - 1 /\ flushed \in BOOLEAN

TAsSound == output_ta \in Seq(HonestTAs)

MemberInv == WindowsSound /\ BundleSound /\ BoundsSound /\ CountSound /\ TAsSound

LEMMA EmptyIsSound == Sound(EmptyWindow)
<1>1. WellKept(EmptyWindow, 0, 0)  BY EmptyKept
<1> QED  BY <1>1, EmptyIsKept DEF Sound, WellKept, ListKept

LEMMA ResetIsSound ==
  ASSUME NEW w, NEW tp \in TriggerPrimitive
  PROVE  Sound(reset(w, tp))
<1>1. WellKept(reset(w, tp), 0, tp.time_start)  BY ResetKeeps
<1> QED  BY <1>1, ResetKept DEF Sound, WellKept, ListKept

LEMMA NoBoundsType == NoBounds \in Bounds
<1>1. 0 \in 0 .. ChannelModulus - 1  BY AdjacencyAssumption
<1> QED  BY <1>1 DEF NoBounds, Bounds

LEMMA NoExtentType == NoExtent \in Extents
<1>1. 0 \in Timestamps  BY TimeModulusAssumption DEF Timestamps
<1> QED  BY <1>1 DEF NoExtent, Extents

LEMMA InitMembers == Init => MemberInv
<1> SUFFICES ASSUME Init PROVE MemberInv
  OBVIOUS
<1>1. WindowsSound  BY EmptyIsSound DEF Init, WindowsSound
<1>2. BundleSound
  <2>1. InTimeOrder(<<>>, LastTime)  BY DEF InTimeOrder
  <2> QED  BY <2>1, NoExtentType DEF Init, BundleSound
<1>3. BoundsSound  BY NoBoundsType DEF Init, BoundsSound, NoMaker
<1>4. CountSound
  <2>1. 0 \in 0 .. CountModulus - 1  BY ChannelStatesAssumption
  <2> QED  BY <2>1 DEF Init, CountSound
<1>5. TAsSound  BY DEF Init, TAsSound
<1> QED  BY <1>1, <1>2, <1>3, <1>4, <1>5 DEF MemberInv

\* The members before the first TP, whatever the maker and its configuration.
LEMMA MembersBefore ==
  ASSUME MemberInv, Inv', output_ta = <<>>, received = <<>>,
         UNCHANGED <<windowVars, bundleVars, counters, flushed, output_ta, received>>,
         maker' = "ChannelDistance" => m_config'["max_channel_distance"] < ChannelModulus
  PROVE  MemberInv'
<1>1. WindowsSound'  BY DEF MemberInv, WindowsSound, windowVars
<1>2. BundleSound'
  <2>1. LastTime' = LastTime  BY DEF LastTime
  <2>2. m_current_ta' = <<>>  BY DEF Inv, Untouched
  <2> QED  BY <2>1, <2>2 DEF MemberInv, BundleSound, bundleVars
<1>3. BoundsSound'  BY DEF MemberInv, BoundsSound, bundleVars
<1>4. CountSound'  BY DEF MemberInv, CountSound, counters
<1>5. TAsSound'  BY DEF TAsSound
<1> QED  BY <1>1, <1>2, <1>3, <1>4, <1>5 DEF MemberInv

-----------------------------------------------------------------------------
(* The members after a call *)

LEMMA TimeGoesOn ==
  ASSUME Inv, NEW tp \in NextTPsFor, take(tp)
  PROVE  /\ tp \in TriggerPrimitive /\ tp.time_start \in Nat
         /\ LastTime \in Nat /\ LastTime <= tp.time_start /\ LastTime' = tp.time_start
<1>1. /\ tp \in TriggerPrimitive /\ tp.time_start \in Nat
      /\ LastTime \in Nat /\ LastTime <= tp.time_start
  BY NextTPInOrder DEF Inv
<1>2. received' = Append(received, tp)  BY DEF take
<1>3. LastTime' = tp.time_start  BY <1>2, StreamAppend DEF LastTime
<1> QED  BY <1>1, <1>3

LEMMA ListGoesOn ==
  ASSUME NEW tps \in Seq(TriggerPrimitive), NEW now \in Nat, InTimeOrder(tps, now),
         NEW tp \in TriggerPrimitive, now <= tp.time_start
  PROVE  /\ InTimeOrder(tps, tp.time_start)
         /\ Append(tps, tp) \in Seq(TriggerPrimitive) /\ Append(tps, tp) # <<>>
         /\ InTimeOrder(Append(tps, tp), tp.time_start)
         /\ <<tp>> \in Seq(TriggerPrimitive) /\ <<tp>> # <<>>
         /\ InTimeOrder(<<tp>>, tp.time_start)
         /\ <<>> \in Seq(TriggerPrimitive) /\ InTimeOrder(<<>>, tp.time_start)
<1>1. tp.time_start \in Nat  BY TPType
<1>2. InTimeOrder(tps, tp.time_start)  BY <1>1, OrderLater
<1>3. Append(tps, tp) \in Seq(TriggerPrimitive)  OBVIOUS
<1>4. InTimeOrder(Append(tps, tp), tp.time_start)
  <2>1. \A e \in TriggerPrimitive : e.time_start \in Nat  BY TPType
  <2> QED  BY <2>1, InOrderAppend
<1>5. <<tp>> \in Seq(TriggerPrimitive) /\ <<tp>> # <<>>  OBVIOUS
<1>6. InTimeOrder(<<tp>>, tp.time_start)  BY ClusterStarts DEF ClusterKept
<1>7. InTimeOrder(<<>>, tp.time_start)  BY DEF InTimeOrder
<1>8. Append(tps, tp) # <<>>
  <2>1. Len(Append(tps, tp)) = Len(tps) + 1 /\ Len(tps) + 1 # 0 /\ Len(<<>>) = 0  OBVIOUS
  <2> QED  BY <2>1
<1>9. <<>> \in Seq(TriggerPrimitive)  OBVIOUS
<1> QED  BY <1>2, <1>3, <1>4, <1>5, <1>6, <1>7, <1>8, <1>9

\* The windows a maker leaves alone, or the lists.
LEMMA WindowsLeft ==
  ASSUME WindowsSound, UNCHANGED windowVars
  PROVE  WindowsSound'
BY DEF WindowsSound, windowVars

LEMMA BundleLeft ==
  ASSUME Inv, BundleSound, NEW tp \in NextTPsFor, take(tp), UNCHANGED <<m_current_ta, m_extent>>,
         maker # "Supernova"
  PROVE  BundleSound'
<1>1. /\ tp \in TriggerPrimitive /\ tp.time_start \in Nat
      /\ LastTime \in Nat /\ LastTime <= tp.time_start /\ LastTime' = tp.time_start
  BY TimeGoesOn
<1>2. m_current_ta \in Seq(TriggerPrimitive) /\ InTimeOrder(m_current_ta, LastTime)
  BY DEF BundleSound
<1>3. InTimeOrder(m_current_ta, tp.time_start)  BY <1>1, <1>2, OrderLater
<1> QED  BY <1>1, <1>2, <1>3 DEF BundleSound, take

LEMMA BoundsLeft ==
  ASSUME BoundsSound, UNCHANGED <<maker, m_config, m_bounds>>
  PROVE  BoundsSound'
BY DEF BoundsSound

LEMMA TAsLeft ==
  ASSUME TAsSound, UNCHANGED <<maker, output_ta>>
  PROVE  TAsSound'
BY DEF TAsSound, HonestTAs

LEMMA TAsGrow ==
  ASSUME TAsSound, UNCHANGED maker, NEW ta \in HonestTAs, output_ta' = Append(output_ta, ta)
  PROVE  TAsSound'
<1>1. PICK S : S = HonestTAs  OBVIOUS
<1>2. HonestTAs' = S  BY <1>1 DEF HonestTAs
<1>3. output_ta \in Seq(S) /\ ta \in S  BY <1>1 DEF TAsSound
<1>4. output_ta' \in Seq(S)  BY <1>3
<1> QED  BY <1>2, <1>4 DEF TAsSound

\* The makers that slide one window.
LEMMA SlidingSound ==
  ASSUME Inv, Inv', WindowsSound, maker \in Sliding, NEW tp \in NextTPsFor, take(tp),
         UNCHANGED m_plane_windows,
         \/ m_current_window' = reset(m_current_window, tp)
         \/ m_current_window' = move(m_current_window, tp, Length)
         \/ m_current_window' = m_current_window
         \/ m_current_window' = add(m_current_window, tp)
         \/ WhatIsLeft(tp, m_current_window)
  PROVE  WindowsSound'
<1>1. tp \in TriggerPrimitive  BY TimeGoesOn
<1>2. PICK w : w = m_current_window /\ Kept(w) /\ w.inputs \in Seq(TriggerPrimitive)
  BY KeptParts DEF WindowsSound, Sound
<1>3. Kept(m_current_window')
  <2>2. Kept(reset(w, tp))  BY <1>1, ResetKept
  <2>3. Kept(move(w, tp, Length))  BY <1>1, <1>2, MoveKept
  <2>4. Kept(add(w, tp))  BY <1>1, <1>2, AddKept
  <2>5. ASSUME WhatIsLeft(tp, w) PROVE Kept(m_current_window')
    <3>1. PICK junk \in Junk(w) :
            m_current_window' = move(extraction(w, junk).window, tp, Length)
      BY <2>5 DEF WhatIsLeft
    <3>2. PICK u : u = extraction(w, junk).window /\ Kept(u)
      BY <1>2, <3>1, ExtractionTakes DEF TakenFrom
    <3>3. Kept(move(u, tp, Length))  BY <1>1, <3>2, MoveKept
    <3> QED  BY <3>1, <3>2, <3>3
  <2> QED  BY <1>2, <2>2, <2>3, <2>4, <2>5
<1>4. Charged(m_current_window')
  <2>1. maker' \in Sliding  BY DEF take
  <2>2. WellKept(m_current_window', Length', LastTime')  BY <2>1 DEF Inv, HeldKept
  <2> QED  BY <2>2 DEF WellKept, ListKept
<1> QED  BY <1>3, <1>4 DEF WindowsSound, Sound

\* What a maker that slides a window leaves to be shown.
LEMMA SlidingMembers ==
  ASSUME Inv, MemberInv, maker \in Sliding, NEW tp \in NextTPsFor, take(tp),
         UNCHANGED bundleVars, WindowsSound', TAsSound', m_ta_count' \in 0 .. CountModulus - 1
  PROVE  MemberInv'
<1>1. maker # "Supernova"  BY DEF Sliding
<1>2. BundleSound'  BY <1>1, BundleLeft DEF MemberInv, bundleVars
<1>3. BoundsSound'  BY BoundsLeft DEF MemberInv, bundleVars, take
<1>4. CountSound'  BY DEF MemberInv, CountSound, take
<1> QED  BY <1>2, <1>3, <1>4 DEF MemberInv

LEMMA CountWraps ==
  ASSUME MemberInv, NEW n \in Nat
  PROVE  /\ m_ta_count \in 0 .. CountModulus - 1
         /\ UIntPlus(m_ta_count, n, CountModulus) \in 0 .. CountModulus - 1
<1>1. m_ta_count \in 0 .. CountModulus - 1  BY DEF MemberInv, CountSound
<1>2. PICK c \in Nat, m \in Nat \ {0} : c = m_ta_count /\ m = CountModulus
  BY <1>1, ChannelStatesAssumption
<1>3. (c + n) % m \in 0 .. m - 1  OBVIOUS
<1> QED  BY <1>1, <1>2, <1>3 DEF UIntPlus

\* A TA of the window as it stands.
LEMMA ConstructedIsHonest ==
  ASSUME NEW w, Sound(w), ~ is_empty(w), NEW ta,
         ta = construct_ta_hm(w)
  PROVE  ta \in WindowTAs
<1>1. w.inputs \in Seq(TriggerPrimitive) /\ w.inputs # <<>> /\ Charged(w)
  BY KeptParts DEF Sound, is_empty
<1>2. /\ ta = ta_of(ta.time_start, w.adc_integral, w.inputs)
      /\ Least(ta.time_start, TimesOf(w.inputs))
  BY <1>1, ConstructedTA
<1>3. PICK t : t = ta.time_start  OBVIOUS
<1>4. ta_of(t, w.adc_integral, w.inputs) \in WindowTAs  BY <1>1, <1>2, <1>3, WindowTA
<1> QED  BY <1>2, <1>3, <1>4

\* A TA of a track.
LEMMA TrackIsHonest ==
  ASSUME NEW w, Loaded(w), ~ is_empty(w), NEW ta, ta = construct_ta_ca(w)
  PROVE  ta \in TrackTAs
<1>1. w.inputs \in Seq(TriggerPrimitive) /\ w.inputs # <<>>
  BY DEF Loaded, IsWindow, is_empty
<1>2. PICK t : /\ t = ta.time_start /\ ta = ta_of(t, w.adc_integral, w.inputs)
               /\ Least(t, TimesOf(w.inputs))
  BY <1>1, ConstructedTA
<1>3. ta.adc_integral = w.adc_integral /\ ta.inputs = w.inputs  BY <1>2 DEF ta_of
<1>4. t \in Timestamps  BY <1>1, <1>2, TimesType DEF Least
<1>5. w.adc_integral \in Nat
  <2>1. 0 .. AdcModulus - 1 \subseteq Nat  BY TPWindowAssumption
  <2> QED  BY <2>1 DEF Loaded, IsWindow
<1>6. ta \in TAs  BY <1>1, <1>2, <1>4, <1>5 DEF ta_of, TAs
<1> QED  BY <1>2, <1>3, <1>6 DEF TrackTAs, Loaded

LEMMA StartedIsHonest ==
  ASSUME NEW w, NEW length, NEW now, WellKept(w, length, now), ~ is_empty(w),
         NEW ta, ta = ta_of(w.time_start, w.adc_integral, w.inputs)
  PROVE  ta \in WindowTAs
<1>1. Charged(w) /\ w.inputs # <<>>  BY DEF WellKept, ListKept, is_empty
<1>2. PICK t : t = w.time_start  OBVIOUS
<1>3. Least(t, TimesOf(w.inputs))  BY <1>1, <1>2, WindowStartIsLeast
<1>4. ta_of(t, w.adc_integral, w.inputs) \in WindowTAs  BY <1>1, <1>3, WindowTA
<1> QED  BY <1>2, <1>4

-----------------------------------------------------------------------------
(* The members, maker by maker *)

LEMMA HorizontalMuonMembers ==
  ASSUME Inv, Inv', MemberInv, maker = "HorizontalMuon", NEW tp \in NextTPsFor, receive_hm(tp)
  PROVE  MemberInv'
<1>1. /\ maker \in Sliding /\ take(tp) /\ UNCHANGED <<maker, m_plane_windows>>
      /\ UNCHANGED bundleVars
  BY DEF Sliding, receive_hm, take
<1>2. \/ m_current_window' = reset(m_current_window, tp)
      \/ m_current_window' = move(m_current_window, tp, Length)
      \/ m_current_window' = m_current_window
      \/ m_current_window' = add(m_current_window, tp)
  BY DEF receive_hm, first_tp, fill_window, emit_ta, prescale_out, emit_ta_on_tot,
         slide_window, Length
<1>3. WindowsSound'  BY <1>1, <1>2, SlidingSound DEF MemberInv
<1>4. m_ta_count' \in 0 .. CountModulus - 1
  <2>1. m_ta_count' = m_ta_count \/ m_ta_count' = UIntPlus(m_ta_count, 1, CountModulus)
    BY DEF receive_hm, first_tp, fill_window, emit_ta, prescale_out, emit_ta_on_tot,
           slide_window
  <2> QED  BY <2>1, CountWraps
<1>5. TAsSound'
  <2>1. CASE UNCHANGED output_ta  BY <1>1, <2>1, TAsLeft DEF MemberInv
  <2>2. CASE emit_ta(tp) \/ emit_ta_on_tot(tp)
    <3>1. PICK ta : ta = construct_ta_hm(m_current_window)  OBVIOUS
    <3>2. output_ta' = Append(output_ta, ta) /\ ~ is_empty(m_current_window)
      BY <2>2, <3>1 DEF emit_ta, emit_ta_on_tot, window_closed
    <3>3. Sound(m_current_window)  BY DEF MemberInv, WindowsSound
    <3>4. ta \in WindowTAs  BY <3>1, <3>2, <3>3, ConstructedIsHonest
    <3>5. ta \in HonestTAs  BY <3>4 DEF HonestTAs, Windowed
    <3> QED  BY <1>1, <3>2, <3>5, TAsGrow DEF MemberInv
  <2> QED
    BY <2>1, <2>2 DEF receive_hm, first_tp, fill_window, prescale_out, slide_window
<1> QED  BY <1>1, <1>3, <1>4, <1>5, SlidingMembers

LEMMA MichelElectronMembers ==
  ASSUME Inv, Inv', MemberInv, maker = "MichelElectron", NEW tp \in NextTPsFor, receive_me(tp)
  PROVE  MemberInv'
<1>1. /\ maker \in Sliding /\ take(tp) /\ UNCHANGED <<maker, m_plane_windows, m_ta_count>>
      /\ UNCHANGED bundleVars
  BY DEF Sliding, receive_me, take, counters
<1>2. \/ m_current_window' = reset(m_current_window, tp)
      \/ m_current_window' = move(m_current_window, tp, Length)
      \/ m_current_window' = m_current_window
      \/ m_current_window' = add(m_current_window, tp)
  BY DEF receive_me, me_first_tp, me_fill_window, emit_michel, ignore_tp, me_slide_window,
         reset_me, add_me, move_me, Length
<1>3. WindowsSound'  BY <1>1, <1>2, SlidingSound DEF MemberInv
<1>4. m_ta_count' \in 0 .. CountModulus - 1  BY <1>1 DEF MemberInv, CountSound
<1>5. TAsSound'
  <2>1. CASE UNCHANGED output_ta  BY <1>1, <2>1, TAsLeft DEF MemberInv
  <2>2. CASE emit_michel(tp)
    <3>1. PICK ta : ta = construct_ta_me(m_current_window)  OBVIOUS
    <3>2. output_ta' = Append(output_ta, ta) /\ ~ is_empty(m_current_window)
      BY <2>2, <3>1 DEF emit_michel
    <3>3. WellKept(m_current_window, Length, LastTime)  BY <1>1 DEF Inv, HeldKept
    <3>4. ta \in WindowTAs  BY <3>1, <3>2, <3>3, StartedIsHonest DEF construct_ta_me
    <3>5. ta \in HonestTAs  BY <3>4 DEF HonestTAs, Windowed
    <3> QED  BY <1>1, <3>2, <3>5, TAsGrow DEF MemberInv
  <2> QED
    BY <2>1, <2>2 DEF receive_me, me_first_tp, me_fill_window, ignore_tp, me_slide_window
<1> QED  BY <1>1, <1>3, <1>4, <1>5, SlidingMembers

LEMMA ChannelAdjacencyMembers ==
  ASSUME Inv, Inv', MemberInv, maker = "ChannelAdjacency", NEW tp \in NextTPsFor,
         receive_ca(tp)
  PROVE  MemberInv'
<1>1. /\ maker \in Sliding /\ take(tp) /\ UNCHANGED <<maker, m_plane_windows>>
      /\ UNCHANGED bundleVars
  BY DEF Sliding, receive_ca, take
<1>2. \/ m_current_window' = reset(m_current_window, tp)
      \/ WhatIsLeft(tp, m_current_window)
      \/ m_current_window' = add(m_current_window, tp)
  BY SlideLeaves DEF receive_ca, ca_first_tp, ca_fill_window, take_tracks
<1>3. WindowsSound'  BY <1>1, <1>2, SlidingSound DEF MemberInv
<1>4. PICK w : w = m_current_window  OBVIOUS
<1>5. ASSUME NEW tracks, WhatIsTaken(tp, w, tracks)
      PROVE  /\ tracks \in Seq(Windows)
             /\ \A k \in DOMAIN tracks : Loaded(tracks[k]) /\ ~ is_empty(tracks[k])
  <2>1. w.inputs \in Seq(TriggerPrimitive)
    BY <1>4, KeptParts DEF MemberInv, WindowsSound, Sound
  <2>2. PICK s : TakenFrom(s, w) /\ s.tracks = tracks
    BY <1>5, <2>1, ExtractionTakes DEF WhatIsTaken
  <2> QED  BY <2>2 DEF TakenFrom, TrackSearches
<1>6. m_ta_count' \in 0 .. CountModulus - 1
  <2>1. CASE m_ta_count' = m_ta_count  BY <2>1, CountWraps
  <2>2. CASE take_tracks(tp)
    <3>1. PICK tracks : WhatIsTaken(tp, w, tracks)  BY <1>4, <2>2, TracksTaken
    <3>2. PICK n \in Nat : n = Len(tracks)  BY <1>5, <3>1
    <3> QED  BY <3>1, <3>2, CountWraps DEF WhatIsTaken
  <2> QED  BY <2>1, <2>2 DEF receive_ca, ca_first_tp, ca_fill_window, ca_slide_window
<1>7. TAsSound'
  <2>1. CASE UNCHANGED output_ta  BY <1>1, <2>1, TAsLeft DEF MemberInv
  <2>2. CASE take_tracks(tp)
    <3>1. PICK tracks, out : WhatIsTaken(tp, w, tracks) /\ out = let_through(tracks)
      BY <1>4, <2>2, TracksTaken
    <3>2. output_ta' = output_ta \o out  BY <3>1 DEF WhatIsTaken
    <3>3. PICK made : made = { construct_ta_ca(tracks[k]) : k \in DOMAIN tracks }  OBVIOUS
    <3>4. m_ta_count \in Nat
      <4>1. 0 .. CountModulus - 1 \subseteq Nat  BY ChannelStatesAssumption
      <4> QED  BY <4>1 DEF MemberInv, CountSound
    <3>5. out \in Seq(made)  BY <1>5, <3>1, <3>3, <3>4, LetThrough
    <3>6. made \subseteq TrackTAs
      <4>1. ASSUME NEW k \in DOMAIN tracks PROVE construct_ta_ca(tracks[k]) \in TrackTAs
        <5>1. PICK v : v = tracks[k]  OBVIOUS
        <5>2. Loaded(v) /\ ~ is_empty(v)  BY <1>5, <3>1, <5>1
        <5>3. construct_ta_ca(v) \in TrackTAs  BY <5>2, TrackIsHonest
        <5> QED  BY <5>1, <5>3
      <4> QED  BY <3>3, <4>1
    <3>7. PICK S : S = TrackTAs  OBVIOUS
    <3>8. HonestTAs = S /\ HonestTAs' = S
      BY <1>1, <3>7 DEF HonestTAs, Windowed
    <3>9. output_ta \in Seq(S)  BY <3>8 DEF MemberInv, TAsSound
    <3>10. out \in Seq(S)  BY <3>5, <3>6, <3>7
    <3>11. output_ta \o out \in Seq(S)  BY <3>9, <3>10
    <3> QED  BY <3>2, <3>8, <3>11 DEF TAsSound
  <2> QED  BY <2>1, <2>2 DEF receive_ca, ca_first_tp, ca_fill_window, ca_slide_window
<1> QED  BY <1>1, <1>3, <1>6, <1>7, SlidingMembers

LEMMA PlaneCoincidenceMembers ==
  ASSUME Inv, Inv', MemberInv, maker = "PlaneCoincidence", NEW tp \in NextTPsFor,
         receive_pc(tp)
  PROVE  MemberInv'
<1>1. /\ take(tp) /\ tp \in TriggerPrimitive /\ UNCHANGED <<maker, m_current_window>>
      /\ UNCHANGED bundleVars /\ UNCHANGED counters /\ UNCHANGED <<m_config, flushed>>
  BY TimeGoesOn DEF receive_pc, take
<1>2. PICK old, new, ws, plane :
        /\ old = m_plane_windows /\ new = m_plane_windows'
        /\ ws = windows_with(tp) /\ plane = PlaneOf[tp.channel]
  OBVIOUS
<1>3. /\ old = [p \in Planes |-> old[p]] /\ \A p \in Planes : Kept(old[p])
      /\ \A p \in Planes : WellKept(old[p], Length, LastTime)
  BY <1>2 DEF MemberInv, WindowsSound, Sound, Inv, HeldKept
<1>4. ws = [p \in Planes |-> ws[p]] /\ \A p \in Planes : Kept(ws[p])
  <2>1. ws = IF plane \in Planes /\ fits_window(tp, old[plane])
             THEN [old EXCEPT ![plane] = add(old[plane], tp)] ELSE old
    BY <1>2 DEF windows_with
  <2>2. \A p \in Planes : Kept(add(old[p], tp))  BY <1>1, <1>3, AddKept
  <2> QED  BY <1>3, <2>1, <2>2
<1>5. new = [p \in Planes |-> new[p]] /\ \A p \in Planes : Kept(new[p])
  <2>1. CASE first_in_plane(tp)
    <3>1. plane \in Planes /\ new = [old EXCEPT ![plane] = reset(old[plane], tp)]
      BY <1>2, <2>1 DEF first_in_plane
    <3>2. Kept(reset(old[plane], tp))  BY <1>1, ResetKept
    <3> QED  BY <1>3, <3>1, <3>2
  <2>2. CASE wait_for_collection(tp)  BY <1>2, <1>4, <2>2 DEF wait_for_collection
  <2>3. CASE emit_collection(tp)
    <3>1. new = [p \in Planes |-> IF p = plane THEN reset(old[p], tp) ELSE EmptyWindow]
      BY <1>2, <2>3 DEF emit_collection, clear
    <3>2. \A p \in Planes : Kept(reset(old[p], tp))  BY <1>1, ResetKept
    <3> QED  BY <3>1, <3>2, EmptyIsKept
  <2>4. CASE slide_plane(tp)
    <3>1. new = IF plane \in Planes THEN [ws EXCEPT ![plane] = move(ws[plane], tp, Length)] ELSE ws
      BY <1>2, <2>4 DEF slide_plane, Length
    <3>2. \A p \in Planes : Kept(move(ws[p], tp, Length))  BY <1>1, <1>4, MoveKept
    <3> QED  BY <1>4, <3>1, <3>2
  <2> QED  BY <2>1, <2>2, <2>3, <2>4 DEF receive_pc
<1>6. \A p \in Planes : Charged(new[p])
  <2>1. \A p \in Planes : WellKept(m_plane_windows'[p], Length', LastTime')
    BY <1>1 DEF Inv, HeldKept
  <2> QED  BY <1>2, <2>1 DEF WellKept, ListKept
<1>7. WindowsSound'
  <2>1. Sound(m_current_window')  BY <1>1 DEF MemberInv, WindowsSound
  <2>2. \A p \in Planes : Sound(m_plane_windows'[p])  BY <1>2, <1>5, <1>6 DEF Sound
  <2> QED  BY <1>2, <1>5, <2>1, <2>2 DEF WindowsSound
<1>8. TAsSound'
  <2>1. CASE UNCHANGED output_ta  BY <1>1, <2>1, TAsLeft DEF MemberInv
  <2>2. CASE emit_collection(tp)
    <3>1. PICK z : z = old["Z"]  OBVIOUS
    <3>2. collectionComplete(tp, ws) /\ coincides(ws)
          /\ output_ta' = Append(output_ta, construct_ta_pc(ws["Z"]))
      BY <1>2, <2>2 DEF emit_collection
    <3>3. ws["Z"] = z  BY <1>2, <3>1, <3>2, CollectionCompleteBefore
    <3>4. ~ is_empty(z)
      <4>1. check_adjacency_pc(z) >= m_config["adjacency_threshold"]
        BY <3>2, <3>3 DEF coincides
      <4> QED  BY <4>1, NoTrackInNothing DEF is_empty
    <3>5. WellKept(z, Length, LastTime)
      <4>1. "Z" \in Planes  BY DEF Planes
      <4> QED  BY <1>3, <3>1, <4>1
    <3>6. PICK ta : ta = construct_ta_pc(z)  OBVIOUS
    <3>7. ta \in WindowTAs  BY <3>4, <3>5, <3>6, StartedIsHonest DEF construct_ta_pc
    <3>8. ta \in HonestTAs  BY <3>7 DEF HonestTAs
    <3> QED  BY <1>1, <3>2, <3>3, <3>6, <3>8, TAsGrow DEF MemberInv
  <2> QED  BY <2>1, <2>2 DEF receive_pc, first_in_plane, wait_for_collection, slide_plane
<1>9. BundleSound'  BY <1>1, BundleLeft DEF MemberInv, bundleVars
<1>10. BoundsSound'  BY <1>1, BoundsLeft DEF MemberInv, bundleVars
<1>11. CountSound'  BY <1>1 DEF MemberInv, CountSound, counters
<1> QED  BY <1>7, <1>8, <1>9, <1>10, <1>11 DEF MemberInv

LEMMA PrescaleMembers ==
  ASSUME Inv, MemberInv, maker = "Prescale", NEW tp \in NextTPsFor, receive_prescale(tp)
  PROVE  MemberInv'
<1>1. /\ take(tp) /\ tp \in TriggerPrimitive /\ UNCHANGED windowVars /\ UNCHANGED bundleVars
      /\ UNCHANGED <<maker, m_config, flushed, m_ta_count>>
  BY TimeGoesOn DEF receive_prescale, take
<1>2. WindowsSound'  BY <1>1, WindowsLeft DEF MemberInv
<1>3. BundleSound'  BY <1>1, BundleLeft DEF MemberInv, bundleVars
<1>4. BoundsSound'  BY <1>1, BoundsLeft DEF MemberInv, bundleVars
<1>5. CountSound'  BY <1>1 DEF MemberInv, CountSound
<1>6. TAsSound'
  <2>1. PICK list, ta : list = <<tp>> /\ ta = ta_of_tps(list)  OBVIOUS
  <2>2. output_ta' = Append(output_ta, ta) \/ UNCHANGED output_ta
    BY <2>1 DEF receive_prescale
  <2>3. list \in Seq(TriggerPrimitive) /\ list # <<>> /\ InTimeOrder(list, tp.time_start)
    BY <1>1, <2>1, ClusterStarts DEF ClusterKept
  <2>4. ta \in BundleTAs  BY <2>1, <2>3, BundleTAOfTPs
  <2>5. ta \in HonestTAs  BY <2>4 DEF HonestTAs, Windowed
  <2> QED  BY <1>1, <2>2, <2>5, TAsLeft, TAsGrow DEF MemberInv
<1> QED  BY <1>2, <1>3, <1>4, <1>5, <1>6 DEF MemberInv

\* The list of TPs being put together, before and after the call.
LEMMA BundleLists ==
  ASSUME Inv, MemberInv, NEW tp \in NextTPsFor, take(tp)
  PROVE  /\ tp \in TriggerPrimitive /\ LastTime' = tp.time_start
         /\ m_current_ta \in Seq(TriggerPrimitive) /\ InTimeOrder(m_current_ta, LastTime)
         /\ InTimeOrder(m_current_ta, tp.time_start)
         /\ Append(m_current_ta, tp) \in Seq(TriggerPrimitive) /\ Append(m_current_ta, tp) # <<>>
         /\ InTimeOrder(Append(m_current_ta, tp), tp.time_start)
         /\ <<tp>> \in Seq(TriggerPrimitive) /\ InTimeOrder(<<tp>>, tp.time_start)
         /\ <<>> \in Seq(TriggerPrimitive) /\ InTimeOrder(<<>>, tp.time_start)
<1>1. /\ tp \in TriggerPrimitive /\ tp.time_start \in Nat
      /\ LastTime \in Nat /\ LastTime <= tp.time_start /\ LastTime' = tp.time_start
  BY TimeGoesOn
<1>2. m_current_ta \in Seq(TriggerPrimitive) /\ InTimeOrder(m_current_ta, LastTime)
  BY DEF MemberInv, BundleSound
<1>3. PICK tps \in Seq(TriggerPrimitive) : tps = m_current_ta  BY <1>2
<1>4. PICK now \in Nat : now = LastTime  BY <1>1
<1> QED  BY <1>1, <1>2, <1>3, <1>4, ListGoesOn

LEMMA BundleNMembers ==
  ASSUME Inv, MemberInv, maker = "BundleN", NEW tp \in NextTPsFor, receive_bundle(tp)
  PROVE  MemberInv'
<1>1. /\ take(tp) /\ UNCHANGED windowVars /\ UNCHANGED counters
      /\ UNCHANGED <<maker, m_config, flushed, m_bounds, m_extent>>
  BY DEF receive_bundle, take
<1>2. /\ LastTime' = tp.time_start
      /\ Append(m_current_ta, tp) \in Seq(TriggerPrimitive) /\ Append(m_current_ta, tp) # <<>>
      /\ InTimeOrder(Append(m_current_ta, tp), tp.time_start)
      /\ <<>> \in Seq(TriggerPrimitive) /\ InTimeOrder(<<>>, tp.time_start)
  BY <1>1, BundleLists
<1>3. WindowsSound'  BY <1>1, WindowsLeft DEF MemberInv
<1>4. BundleSound'
  <2>1. m_current_ta' = Append(m_current_ta, tp) \/ m_current_ta' = <<>>
    BY DEF receive_bundle, grow_bundle, emit_bundle
  <2>2. m_extent' \in Extents  BY <1>1 DEF MemberInv, BundleSound
  <2> QED  BY <1>1, <1>2, <2>1, <2>2 DEF BundleSound
<1>5. BoundsSound'  BY <1>1, BoundsLeft DEF MemberInv
<1>6. CountSound'  BY <1>1 DEF MemberInv, CountSound, counters
<1>7. TAsSound'
  <2>1. PICK list, ta : list = Append(m_current_ta, tp) /\ ta = ta_of_tps(list)  OBVIOUS
  <2>2. output_ta' = Append(output_ta, ta) \/ UNCHANGED output_ta
    BY <2>1 DEF receive_bundle, grow_bundle, emit_bundle
  <2>3. ta \in BundleTAs  BY <1>2, <2>1, BundleTAOfTPs
  <2>4. ta \in HonestTAs  BY <1>1, <2>3 DEF HonestTAs, Windowed
  <2> QED  BY <1>1, <2>2, <2>4, TAsLeft, TAsGrow DEF MemberInv
<1> QED  BY <1>3, <1>4, <1>5, <1>6, <1>7 DEF MemberInv

LEMMA BoundsType ==
  ASSUME Inv, MemberInv, maker = "ChannelDistance", NEW tp \in TriggerPrimitive
  PROVE  bounds_of(tp) \in Bounds /\ widen(m_bounds, tp) \in Bounds
<1>1. PICK M \in Nat \ {0} : M = ChannelModulus  BY AdjacencyAssumption
<1>2. PICK c \in 0 .. M - 1 : c = tp.channel
  <2>1. tp.channel \in Channels  BY TPChannel
  <2> QED  BY <1>1, <2>1, ChannelAssumption
<1>3. PICK d \in Nat : d = m_config["max_channel_distance"] /\ d < M
  <2>1. maker \in Makers /\ "max_channel_distance" \in DOMAIN Defaults[maker]
    BY TriggerActivityFactoryAssumption DEF Bundling, Members
  <2>2. ValidConfig(m_config, maker) /\ "max_channel_distance" \in DOMAIN m_config
    BY <2>1 DEF Inv, Configured
  <2>3. "max_channel_distance" \notin Switches  BY DEF Switches
  <2>4. m_config["max_channel_distance"] \in Nat  BY <2>2, <2>3 DEF ValidConfig
  <2>5. m_config["max_channel_distance"] < M  BY <1>1 DEF MemberInv, BoundsSound
  <2> QED  BY <2>4, <2>5
<1>4. PICK lo \in 0 .. M - 1 : lo = UIntMinus(c, d, M)
  <2>1. UIntMinus(c, d, M) \in 0 .. M - 1  BY <1>3 DEF UIntMinus
  <2> QED  BY <2>1
<1>5. PICK hi \in 0 .. M - 1 : hi = UIntPlus(c, d, M)
  <2>1. (c + d) % M \in 0 .. M - 1  OBVIOUS
  <2> QED  BY <2>1 DEF UIntPlus
<1>6. PICK b : b = bounds_of(tp)  OBVIOUS
<1>7. b = [lower |-> lo, upper |-> hi]
  BY <1>1, <1>2, <1>3, <1>4, <1>5, <1>6 DEF bounds_of
<1>8. bounds_of(tp) \in Bounds  BY <1>1, <1>6, <1>7 DEF Bounds
<1>9. m_bounds.lower \in 0 .. M - 1 /\ m_bounds.upper \in 0 .. M - 1
  BY <1>1 DEF MemberInv, BoundsSound, Bounds
<1>10. widen(m_bounds, tp) = [lower |-> IF lo < m_bounds.lower THEN lo ELSE m_bounds.lower,
                              upper |-> IF hi > m_bounds.upper THEN hi ELSE m_bounds.upper]
  BY <1>6, <1>7 DEF widen
<1>11. widen(m_bounds, tp) \in Bounds  BY <1>1, <1>9, <1>10 DEF Bounds
<1> QED  BY <1>8, <1>11

LEMMA ChannelDistanceMembers ==
  ASSUME Inv, MemberInv, maker = "ChannelDistance", NEW tp \in NextTPsFor, receive_distance(tp)
  PROVE  MemberInv'
<1>1. /\ take(tp) /\ UNCHANGED windowVars /\ UNCHANGED counters
      /\ UNCHANGED <<maker, m_config, flushed, m_extent>>
  BY DEF receive_distance, take
<1>2. /\ tp \in TriggerPrimitive /\ LastTime' = tp.time_start
      /\ m_current_ta \in Seq(TriggerPrimitive) /\ InTimeOrder(m_current_ta, LastTime)
      /\ InTimeOrder(m_current_ta, tp.time_start)
      /\ Append(m_current_ta, tp) \in Seq(TriggerPrimitive)
      /\ InTimeOrder(Append(m_current_ta, tp), tp.time_start)
      /\ <<tp>> \in Seq(TriggerPrimitive) /\ InTimeOrder(<<tp>>, tp.time_start)
  BY <1>1, BundleLists
<1>3. WindowsSound'  BY <1>1, WindowsLeft DEF MemberInv
<1>4. BundleSound'
  <2>1. m_current_ta' = Append(m_current_ta, tp) \/ m_current_ta' = <<tp>>
        \/ m_current_ta' = m_current_ta
    BY DEF receive_distance, start_cluster, emit_cluster, drop_cluster, skip_tp, grow_cluster,
           set_new_ta
  <2>2. m_extent' \in Extents  BY <1>1 DEF MemberInv, BundleSound
  <2> QED  BY <1>1, <1>2, <2>1, <2>2 DEF BundleSound
<1>5. BoundsSound'
  <2>1. bounds_of(tp) \in Bounds /\ widen(m_bounds, tp) \in Bounds /\ m_bounds \in Bounds
    BY <1>2, BoundsType DEF MemberInv, BoundsSound
  <2>2. m_bounds' = bounds_of(tp) \/ m_bounds' = widen(m_bounds, tp) \/ m_bounds' = m_bounds
    BY DEF receive_distance, start_cluster, emit_cluster, drop_cluster, skip_tp, grow_cluster,
           set_new_ta
  <2>3. m_bounds' \in Bounds  BY <2>1, <2>2
  <2> QED  BY <1>1, <2>3 DEF MemberInv, BoundsSound
<1>6. CountSound'  BY <1>1 DEF MemberInv, CountSound, counters
<1>7. TAsSound'
  <2>1. CASE UNCHANGED output_ta  BY <1>1, <2>1, TAsLeft DEF MemberInv
  <2>2. CASE emit_cluster(tp)
    <3>1. PICK ta : ta = ta_of_tps(m_current_ta)  OBVIOUS
    <3>2. output_ta' = Append(output_ta, ta) /\ m_current_ta # <<>>
      BY <2>2, <3>1 DEF emit_cluster
    <3>3. ta \in BundleTAs  BY <1>2, <3>1, <3>2, BundleTAOfTPs
    <3>4. ta \in HonestTAs  BY <1>1, <3>3 DEF HonestTAs, Windowed
    <3> QED  BY <1>1, <3>2, <3>4, TAsGrow DEF MemberInv
  <2> QED
    BY <2>1, <2>2 DEF receive_distance, start_cluster, drop_cluster, skip_tp, grow_cluster
<1> QED  BY <1>3, <1>4, <1>5, <1>6, <1>7 DEF MemberInv

\* The TA of a Supernova activity has what is known of its TPs.
LEMMA SupernovaTAIsHonest ==
  ASSUME MemberInv, maker = "Supernova", m_current_ta # <<>>
  PROVE  MakeTriggerActivity \in HonestTAs
<1>1. /\ m_current_ta \in Seq(TriggerPrimitive)
      /\ Least(m_extent.time_start, TimesOf(m_current_ta))
      /\ m_extent.adc_integral = TotalAdc(m_current_ta)
  BY DEF MemberInv, BundleSound, Spans
<1>2. PICK t : t = m_extent.time_start  OBVIOUS
<1>3. ta_of(t, TotalAdc(m_current_ta), m_current_ta) \in BundleTAs  BY <1>1, <1>2, BundleTA
<1>4. MakeTriggerActivity \in BundleTAs  BY <1>1, <1>2, <1>3 DEF MakeTriggerActivity
<1> QED  BY <1>4 DEF HonestTAs, Windowed

LEMMA SupernovaMembers ==
  ASSUME Inv, StreamInv, HeldInv, MemberInv, maker = "Supernova", NEW tp \in NextTPsFor,
         receive_supernova(tp)
  PROVE  MemberInv'
<1>1. /\ take(tp) /\ UNCHANGED windowVars /\ UNCHANGED counters
      /\ UNCHANGED <<maker, m_config, flushed, m_bounds>>
  BY DEF receive_supernova, take
<1>2. /\ tp \in TriggerPrimitive /\ LastTime' = tp.time_start
      /\ m_current_ta \in Seq(TriggerPrimitive)
      /\ Append(m_current_ta, tp) \in Seq(TriggerPrimitive)
      /\ InTimeOrder(Append(m_current_ta, tp), tp.time_start)
      /\ <<tp>> \in Seq(TriggerPrimitive) /\ InTimeOrder(<<tp>>, tp.time_start)
  BY <1>1, BundleLists
<1>3. ASSUME m_extent.time_start # 0 PROVE m_current_ta # <<>>
  <2>1. received # <<>>  BY <1>3 DEF StreamInv, NoExtent
  <2> QED  BY <2>1 DEF HeldInv
<1>4. WindowsSound'  BY <1>1, WindowsLeft DEF MemberInv
<1>5. BundleSound'
  <2>1. CASE m_current_ta' = <<tp>> /\ m_extent' = extent_of(tp)
    <3>1. Spans(m_extent', m_current_ta')  BY <1>2, <2>1, SpansOne
    <3>2. m_extent' \in Extents  BY <3>1 DEF Spans
    <3> QED  BY <1>2, <2>1, <3>1, <3>2 DEF BundleSound
  <2>2. CASE grow_supernova(tp)
    <3>1. /\ m_current_ta' = Append(m_current_ta, tp) /\ m_extent' = merged(m_extent, tp)
          /\ m_current_ta # <<>>
      BY <1>3, <2>2 DEF grow_supernova
    <3>2. Spans(m_extent, m_current_ta)  BY <3>1 DEF MemberInv, BundleSound
    <3>3. Spans(m_extent', m_current_ta')  BY <1>2, <3>1, <3>2, SpansMore
    <3>4. m_extent' \in Extents  BY <3>3 DEF Spans
    <3> QED  BY <1>2, <3>1, <3>3, <3>4 DEF BundleSound
  <2> QED  BY <2>1, <2>2 DEF receive_supernova, begin_supernova, emit_supernova
<1>6. BoundsSound'  BY <1>1, BoundsLeft DEF MemberInv
<1>7. CountSound'  BY <1>1 DEF MemberInv, CountSound, counters
<1>8. TAsSound'
  <2>1. CASE UNCHANGED output_ta  BY <1>1, <2>1, TAsLeft DEF MemberInv
  <2>2. CASE emit_supernova(tp)
    <3>1. PICK ta : ta = MakeTriggerActivity  OBVIOUS
    <3>2. output_ta' = Append(output_ta, ta) /\ m_current_ta # <<>>
      BY <1>3, <2>2, <3>1 DEF emit_supernova
    <3>3. ta \in HonestTAs  BY <3>1, <3>2, SupernovaTAIsHonest
    <3> QED  BY <1>1, <3>2, <3>3, TAsGrow DEF MemberInv
  <2> QED  BY <2>1, <2>2 DEF receive_supernova, begin_supernova, grow_supernova
<1> QED  BY <1>4, <1>5, <1>6, <1>7, <1>8 DEF MemberInv

LEMMA FlushMembers ==
  ASSUME Inv, HeldInv, MemberInv, end_of_stream
  PROVE  MemberInv'
<1>1. /\ maker = "Supernova" /\ received # <<>> /\ flushed' = TRUE
      /\ output_ta' = Append(output_ta, MakeTriggerActivity)
      /\ UNCHANGED <<maker, m_config, windowVars, bundleVars, counters, received>>
  BY DEF end_of_stream, flush
<1>2. m_current_ta # <<>>  BY <1>1 DEF HeldInv
<1>3. PICK ta : ta = MakeTriggerActivity  OBVIOUS
<1>4. ta \in HonestTAs  BY <1>1, <1>2, <1>3, SupernovaTAIsHonest
<1>5. TAsSound'  BY <1>1, <1>3, <1>4, TAsGrow DEF MemberInv
<1>6. WindowsSound'  BY <1>1, WindowsLeft DEF MemberInv
<1>7. BundleSound'
  <2>1. LastTime' = LastTime  BY <1>1 DEF LastTime
  <2> QED  BY <1>1, <2>1 DEF MemberInv, BundleSound, bundleVars
<1>8. BoundsSound'  BY <1>1, BoundsLeft DEF MemberInv, bundleVars
<1>9. CountSound'  BY <1>1 DEF MemberInv, CountSound, counters
<1> QED  BY <1>5, <1>6, <1>7, <1>8, <1>9 DEF MemberInv

LEMMA StepMembers == StepInv /\ StepInv' /\ MemberInv /\ [Next]_vars => MemberInv'
<1> SUFFICES ASSUME StepInv, StepInv', MemberInv, [Next]_vars PROVE MemberInv'
  OBVIOUS
<1>1. Inv /\ Inv' /\ StreamInv /\ HeldInv  BY DEF StepInv
<1>2. ASSUME received = <<>> PROVE output_ta = <<>>  BY <1>1, <1>2 DEF StreamInv
<1>3. ASSUME NEW name \in Makers, build_maker(name) PROVE MemberInv'
  <2>1. maker' = name /\ m_config' = Defaults[name]
        /\ UNCHANGED <<windowVars, bundleVars, counters, flushed, output_ta, received>>
    BY <1>3 DEF build_maker
  <2>2. received = <<>>
    <3>1. maker = NoMaker /\ NoMaker \notin Makers
      BY <1>3, TriggerActivityFactoryAssumption DEF build_maker, NoMaker, Windowed, Bundling
    <3> QED  BY <1>1, <3>1 DEF Inv, Configured
  <2>3. maker' = "ChannelDistance" => m_config'["max_channel_distance"] < ChannelModulus
    <3>1. ASSUME name = "ChannelDistance"
          PROVE  "max_channel_distance" \in DOMAIN Defaults[name]
      BY <3>1, TriggerActivityFactoryAssumption DEF Members
    <3> QED  BY <1>3, <2>1, <3>1, ChannelAssumption
  <2> QED  BY <1>1, <1>2, <2>1, <2>2, <2>3, MembersBefore
<1>4. ASSUME maker \in Makers, NEW config \in Configs[maker], configure(config) PROVE MemberInv'
  <2>1. /\ received = <<>> /\ m_config = Defaults[maker] /\ maker' = maker
        /\ m_config' = [k \in DOMAIN m_config |->
                          IF k \in DOMAIN config THEN config[k] ELSE m_config[k]]
        /\ UNCHANGED <<windowVars, bundleVars, counters, flushed, output_ta, received>>
    BY <1>4 DEF configure
  <2>2. maker' = "ChannelDistance" => m_config'["max_channel_distance"] < ChannelModulus
    <3>1. ASSUME maker = "ChannelDistance"
          PROVE  "max_channel_distance" \in DOMAIN Defaults[maker]
      BY <1>4, <3>1, TriggerActivityFactoryAssumption DEF Members
    <3>2. ASSUME "max_channel_distance" \in DOMAIN config
          PROVE  config["max_channel_distance"] < ChannelModulus
      BY <1>4, <3>2, ChannelAssumption
    <3>3. ASSUME "max_channel_distance" \in DOMAIN Defaults[maker]
          PROVE  Defaults[maker]["max_channel_distance"] < ChannelModulus
      BY <1>4, <3>3, ChannelAssumption
    <3> QED  BY <2>1, <3>1, <3>2, <3>3
  <2> QED  BY <1>1, <1>2, <2>1, <2>2, MembersBefore
<1>5. ASSUME NEW tp \in NextTPsFor, call(tp) PROVE MemberInv'
  BY <1>1, <1>5, HorizontalMuonMembers, MichelElectronMembers, ChannelAdjacencyMembers,
     PlaneCoincidenceMembers, PrescaleMembers, BundleNMembers, ChannelDistanceMembers,
     SupernovaMembers DEF call
<1>6. CASE end_of_stream  BY <1>1, <1>6, FlushMembers
<1>7. CASE UNCHANGED vars
  <2>1. /\ UNCHANGED <<maker, m_config, m_ta_count, flushed, output_ta, received>>
        /\ UNCHANGED windowVars /\ UNCHANGED <<m_current_ta, m_bounds, m_extent>>
    BY <1>7 DEF vars, bundleVars, counters
  <2>2. LastTime' = LastTime  BY <2>1 DEF LastTime
  <2>3. WindowsSound'  BY <2>1, WindowsLeft DEF MemberInv
  <2>4. BundleSound'  BY <2>1, <2>2 DEF MemberInv, BundleSound
  <2>5. BoundsSound'  BY <2>1, BoundsLeft DEF MemberInv
  <2>6. CountSound'  BY <2>1 DEF MemberInv, CountSound
  <2>7. TAsSound'  BY <2>1, TAsLeft DEF MemberInv
  <2> QED  BY <2>3, <2>4, <2>5, <2>6, <2>7 DEF MemberInv
<1> QED  BY <1>3, <1>4, <1>5, <1>6, <1>7 DEF Next

-----------------------------------------------------------------------------
(* The totals kept by hand, against their lists *)

OnChannel(list, c) == { i \in DOMAIN list : list[i].channel = c }

\* The TPs of a list on a channel, counted one by one.
LEMMA OnChannelCounted ==
  ASSUME NEW list \in Seq(TriggerPrimitive), NEW c \in Nat
  PROVE  /\ Cardinality(OnChannel(list, c)) = TPHits(list)[c]
         /\ TPHits(list)[c] # 0 <=> c \in ChannelsOf(list)
<1>1. PICK Q : Q = { tp \in TriggerPrimitive : tp.channel = c }  OBVIOUS
<1>2. Indicator(TriggerPrimitive, Q) = TPWeight(c)
  BY <1>1 DEF Indicator, TPWeight
<1>3. { i \in DOMAIN list : list[i] \in Q } = OnChannel(list, c)
  <2>1. \A i \in DOMAIN list : list[i] \in TriggerPrimitive  OBVIOUS
  <2> QED  BY <1>1, <2>1 DEF OnChannel
<1>4. IsFiniteSet(OnChannel(list, c)) /\ Cardinality(OnChannel(list, c)) = Weight(list, TPWeight(c))
  BY <1>2, <1>3, CountOf
<1>5. TPHits(list)[c] = Weight(list, TPWeight(c))  BY DEF TPHits
<1>6. OnChannel(list, c) # {} <=> c \in ChannelsOf(list)  BY DEF OnChannel, ChannelsOf
<1> QED  BY <1>4, <1>5, <1>6, FS_EmptySet

HeldWindows == {m_current_window} \cup { m_plane_windows[p] : p \in Planes }

\* No channel has more TPs in a window than a count can tell.
CountsFit ==
  \A w \in HeldWindows : \A ch \in Channels :
    Cardinality(OnChannel(w.inputs, ch)) < CountModulus

LEMMA SoundAgrees ==
  ASSUME NEW w, Sound(w),
         \A ch \in Channels : Cardinality(OnChannel(w.inputs, ch)) < CountModulus
  PROVE  ChargeAgrees(w) /\ CountsAgree(w)
<1>1. PICK list \in Seq(TriggerPrimitive) : list = w.inputs  BY KeptParts DEF Sound
<1>2. PICK f \in Tallies : f = TPHits(list)  BY TPHitsType
<1>3. PICK states \in CountMaps(Channels) : states = w.channel_states /\ Counted(states, f)
  BY <1>1, <1>2, KeptParts DEF Sound
<1>4. Channels \subseteq Nat  BY TPChannel
<1>5. DOMAIN states \subseteq Channels  BY CountMapType
<1>6. ASSUME NEW c \in Channels
      PROVE  /\ c \in DOMAIN states <=> c \in ChannelsOf(list)
             /\ c \in DOMAIN states =>
                  states[c] = Cardinality(OnChannel(list, c)) % CountModulus
  <2>1. PICK n \in Nat : n = f[c]  BY <1>4 DEF Tallies
  <2>2. Cardinality(OnChannel(list, c)) = n /\ (n # 0 <=> c \in ChannelsOf(list))
    BY <1>2, <1>4, <2>1, OnChannelCounted
  <2>3. n < CountModulus  BY <1>1, <2>2
  <2>4. /\ c \in DOMAIN states <=> n # 0
        /\ c \in DOMAIN states => states[c] = n
    BY <1>3, <1>4, <2>1, <2>3, CountedSmall
  <2>5. n % CountModulus = n  BY <2>3, SmallMod, ChannelStatesAssumption
  <2> QED  BY <2>2, <2>4, <2>5
<1>7. ChannelsOf(list) \subseteq Channels
  <2>1. ASSUME NEW i \in DOMAIN list PROVE list[i].channel \in Channels
    <3>1. list[i] \in TriggerPrimitive  OBVIOUS
    <3> QED  BY <3>1, TPChannel
  <2> QED  BY <2>1 DEF ChannelsOf
<1>8. DOMAIN states = ChannelsOf(list)  BY <1>5, <1>6, <1>7
<1>9. CountsAgree(w)
  <2>1. DOMAIN w.channel_states = { w.inputs[i].channel : i \in DOMAIN w.inputs }
    BY <1>1, <1>3, <1>8 DEF ChannelsOf
  <2>2. ASSUME NEW ch \in DOMAIN w.channel_states
        PROVE  w.channel_states[ch]
                 = Cardinality({ i \in DOMAIN w.inputs : w.inputs[i].channel = ch }) % CountModulus
    <3>1. ch \in Channels /\ ch \in DOMAIN states  BY <1>3, <1>5, <2>2
    <3>2. states[ch] = Cardinality(OnChannel(list, ch)) % CountModulus  BY <1>6, <3>1
    <3> QED  BY <1>1, <1>3, <3>2 DEF OnChannel
  <2> QED  BY <2>1, <2>2 DEF CountsAgree
<1> QED  BY <1>9 DEF Sound, Charged

LEMMA HonestAgree ==
  ASSUME TAsSound, NEW k \in DOMAIN output_ta, NEW ta, ta = output_ta[k]
  PROVE  /\ ta.adc_integral \in ChargesOf(ta.inputs)
         /\ ta.time_start \in TimesOf(ta.inputs)
         /\ \A t \in TimesOf(ta.inputs) : ta.time_start <= t
<1>1. ta \in HonestTAs
  <2>1. PICK S : S = HonestTAs /\ output_ta \in Seq(S)  BY DEF TAsSound
  <2>2. output_ta[k] \in S  BY <2>1
  <2> QED  BY <2>1, <2>2
<1> QED
  BY <1>1 DEF HonestTAs, WindowTAs, BundleTAs, TrackTAs, TrackCharges, ChargesOf, Least

-----------------------------------------------------------------------------
(* Why the TAs were given out *)

\* The TPs that came behind those of a list have come.
Followed(tps) == \A i \in DOMAIN tps : tps[i].id + 1 \in DOMAIN received

\* A list looked at as HorizontalMuon looks at its window, but counted afresh.
Recounted(tps) ==
  [EmptyWindow EXCEPT !.inputs = tps, !.adc_integral = TotalAdc(tps) % AdcModulus,
                      !.channel_states = [ch \in ChannelsOf(tps) |-> 1]]

\* A number of channels that n_channels_hit() can tell.
Countable(tps) == maker = "HorizontalMuon" => Cardinality(ChannelsOf(tps)) < CountModulus

\* A reason that will last: where it is in the TP behind, that TP has come.
Reasoned(tps) ==
  Countable(tps) =>
    /\ Justified(tps)
    /\ maker = "HorizontalMuon" => over_any(Recounted(tps)) \/ Followed(tps)
    /\ maker = "Supernova" => 0 \in TimesOf(received) \/ flushed \/ Followed(tps)

ReasonInv == \A k \in DOMAIN output_ta : Reasoned(output_ta[k].inputs)

LEMMA LastIsOne ==
  ASSUME NEW tps \in Seq(TriggerPrimitive), tps # <<>>
  PROVE  Len(tps) \in DOMAIN tps /\ Last(tps) = tps[Len(tps)]
<1>1. Len(tps) \in DOMAIN tps  BY EmptySeq
<1> QED  BY <1>1 DEF Last

\* A list of received TPs keeps its reason when one more comes.
LEMMA ReasonStaysHM ==
  ASSUME Inv, maker = "HorizontalMuon", NEW tp \in NextTPsFor, take(tp),
         NEW tps \in Seq(TriggerPrimitive), tps # <<>>, Reasoned(tps)
  PROVE  Reasoned(tps)'
<1>1. UNCHANGED <<maker, m_config>> /\ received' = Append(received, tp)  BY DEF take
<1>2. \A i \in DOMAIN received : i \in DOMAIN received' /\ received'[i] = received[i]
  BY <1>1, StreamAppend
<1>3. Followed(tps) => Followed(tps)'  BY <1>2 DEF Followed
<1>4. PICK w : w = Recounted(tps)  OBVIOUS
<1>5. over_any(w)' <=> over_any(w)
  BY <1>1 DEF over_any, over_adc, over_n_channels, over_adjacency, adjacency
<1>6. PICK e : e = received[Last(tps).id + 1]  OBVIOUS
<1>7. long_tp(e)' <=> long_tp(e)  BY <1>1 DEF long_tp
<1>8. Followed(tps) => received'[Last(tps).id + 1] = e
  BY <1>2, <1>6, LastIsOne DEF Followed
<1>9. Justified(tps) <=> over_any(w) \/ long_tp(e)
  BY <1>4, <1>6 DEF Justified, Recounted
<1>10. Justified(tps)' <=> over_any(w)' \/ long_tp(received[Last(tps).id + 1])'
  BY <1>1, <1>4 DEF Justified, Recounted
<1>11. SUFFICES ASSUME Countable(tps)
                PROVE  Justified(tps)' /\ (over_any(w)' \/ Followed(tps)')
  BY <1>1, <1>4 DEF Reasoned, Countable
<1>12. Justified(tps) /\ (over_any(w) \/ Followed(tps))  BY <1>4, <1>11 DEF Reasoned, Countable
<1>13. CASE over_any(w)  BY <1>5, <1>10, <1>13
<1>14. CASE ~ over_any(w)
  <2>1. long_tp(e) /\ Followed(tps)  BY <1>9, <1>12, <1>14
  <2>2. PICK f : f = received'[Last(tps).id + 1]  OBVIOUS
  <2>3. f = e  BY <1>8, <2>1, <2>2
  <2>4. long_tp(f)'  BY <1>7, <2>1, <2>3
  <2>5. Justified(tps)'  BY <1>10, <2>2, <2>4 DEF long_tp
  <2> QED  BY <1>3, <2>1, <2>5
<1> QED  BY <1>13, <1>14

\* The makers whose reason is in the TA alone.
LEMMA ReasonStaysAlone ==
  ASSUME maker \in {"ChannelAdjacency", "MichelElectron", "Prescale", "BundleN",
                    "ChannelDistance"},
         UNCHANGED <<maker, m_config>>, NEW tps, Reasoned(tps)
  PROVE  Reasoned(tps)'
<1>1. SUFFICES ASSUME Countable(tps)
               PROVE  Justified(tps)'
  BY DEF Reasoned, Countable
<1>2. Justified(tps)  BY <1>1 DEF Reasoned, Countable
<1>3. CASE maker = "ChannelAdjacency"  BY <1>2, <1>3 DEF Justified
<1>4. CASE maker = "MichelElectron"  BY <1>2, <1>4 DEF Justified
<1>5. CASE maker = "Prescale"  BY <1>2, <1>5 DEF Justified
<1>6. CASE maker = "BundleN"  BY <1>2, <1>6 DEF Justified
<1>7. CASE maker = "ChannelDistance"  BY <1>2, <1>7 DEF Justified
<1> QED  BY <1>3, <1>4, <1>5, <1>6, <1>7

\* What ties two TPs of a Supernova activity, or lets them go.
Tied(tps, tp, n) ==
  \/ is_time_consistent(tp, ExtentOf(SubSeq(tps, 1, n)))
  \/ is_channel_consistent(tp, ExtentOf(SubSeq(tps, 1, n)))

LEMMA SupernovaJustified ==
  ASSUME maker = "Supernova", NEW tps
  PROVE  Justified(tps) <=>
           \/ 0 \in TimesOf(received)
           \/ /\ Consecutive(tps)
              /\ \A n \in 1 .. Len(tps) :
                   \/ flushed /\ Last(tps) = Last(received) /\ n = Len(tps)
                   \/ n < Len(tps) <=> Tied(tps, received[tps[n].id + 1], n)
BY DEF Justified, Tied

LEMMA SupernovaJustifiedNext ==
  ASSUME UNCHANGED maker, maker = "Supernova", NEW tps
  PROVE  Justified(tps)' <=>
           \/ 0 \in TimesOf(received')
           \/ /\ Consecutive(tps)
              /\ \A n \in 1 .. Len(tps) :
                   \/ flushed' /\ Last(tps) = Last(received') /\ n = Len(tps)
                   \/ n < Len(tps) <=> Tied(tps, received'[tps[n].id + 1], n)
BY DEF Justified, Tied, TimesOf

LEMMA ReasonStaysSN ==
  ASSUME Inv, maker = "Supernova", NEW tp \in NextTPsFor, take(tp), ~ flushed,
         NEW tps \in Seq(TriggerPrimitive), tps # <<>>, Reasoned(tps)
  PROVE  Reasoned(tps)'
<1>1. UNCHANGED <<maker, m_config, flushed>> /\ received' = Append(received, tp)  BY DEF take
<1>2. \A i \in DOMAIN received : i \in DOMAIN received' /\ received'[i] = received[i]
  BY <1>1, StreamAppend
<1>3. Followed(tps) => Followed(tps)'  BY <1>2 DEF Followed
<1>4. 0 \in TimesOf(received) => 0 \in TimesOf(received')  BY <1>2 DEF TimesOf
<1>5. SUFFICES ASSUME Countable(tps)
               PROVE  Justified(tps)' /\ (0 \in TimesOf(received') \/ Followed(tps)')
  BY <1>1 DEF Reasoned, Countable, TimesOf
<1>6. Justified(tps) /\ (0 \in TimesOf(received) \/ Followed(tps))
  BY <1>1, <1>5 DEF Reasoned, Countable
<1>7. CASE 0 \in TimesOf(received')  BY <1>1, <1>7, SupernovaJustifiedNext
<1>8. CASE 0 \notin TimesOf(received')
  <2>1. Followed(tps) /\ Consecutive(tps)
    BY <1>4, <1>6, <1>8, SupernovaJustified
  <2>2. ASSUME NEW n \in 1 .. Len(tps)
        PROVE  n < Len(tps) <=> Tied(tps, received'[tps[n].id + 1], n)
    <3>1. n < Len(tps) <=> Tied(tps, received[tps[n].id + 1], n)
      BY <1>1, <1>4, <1>6, <1>8, SupernovaJustified
    <3>2. n \in DOMAIN tps  OBVIOUS
    <3>3. received'[tps[n].id + 1] = received[tps[n].id + 1]
      BY <1>2, <2>1, <3>2 DEF Followed
    <3> QED  BY <3>1, <3>3
  <2>3. Justified(tps)'  BY <1>1, <2>1, <2>2, SupernovaJustifiedNext
  <2> QED  BY <1>3, <2>1, <2>3
<1> QED  BY <1>7, <1>8

\* A member of the configuration that is no switch is a number.
LEMMA MemberIsNat ==
  ASSUME Configured, maker \in Makers, NEW k \in Members[maker], k \notin Switches
  PROVE  m_config[k] \in Nat
<1>1. k \in DOMAIN m_config /\ ValidConfig(m_config, maker)
  BY TriggerActivityFactoryAssumption DEF Configured
<1> QED  BY <1>1 DEF ValidConfig

\* The charge of the TPs on induction planes, as a weight.
InductionAdc ==
  [tp \in TriggerPrimitive |->
     IF PlaneOf[tp.channel] \in {"U", "Y"} THEN tp.adc_integral ELSE 0]

LEMMA InductionAdcType ==
  /\ InductionAdc \in [TriggerPrimitive -> Nat]
  /\ \A tp \in TriggerPrimitive :
       InductionAdc[tp] = IF PlaneOf[tp.channel] \in {"U", "Y"} THEN tp.adc_integral ELSE 0
BY TPType DEF InductionAdc

LEMMA OfInductionIsWeight ==
  ASSUME NEW list \in Seq(TriggerPrimitive)
  PROVE  TotalAdc(OfInduction(list)) = Weight(list, InductionAdc)
<1>1. \A i \in DOMAIN list : list[i] \in TriggerPrimitive  OBVIOUS
<1>2. PICK w : w = InductionAdc
        /\ \A tp \in TriggerPrimitive :
             w[tp] = IF PlaneOf[tp.channel] \in {"U", "Y"} THEN tp.adc_integral ELSE 0
  BY InductionAdcType
<1>3. OfInduction(list) = Weighed(list, w)  BY <1>1, <1>2 DEF OfInduction, Weighed
<1> QED  BY <1>2, <1>3 DEF Weight

LEMMA OfInductionAppend ==
  ASSUME NEW list \in Seq(TriggerPrimitive), NEW tp \in TriggerPrimitive
  PROVE  /\ TotalAdc(OfInduction(list)) \in Nat
         /\ TotalAdc(OfInduction(Append(list, tp))) = TotalAdc(OfInduction(list)) + InductionAdc[tp]
         /\ InductionAdc[tp] \in Nat
<1>1. PICK w \in [TriggerPrimitive -> Nat] : w = InductionAdc  BY InductionAdcType
<1>2. PICK more \in Seq(TriggerPrimitive) : more = Append(list, tp)
  <2>1. Append(list, tp) \in Seq(TriggerPrimitive)  OBVIOUS
  <2> QED  BY <2>1
<1>3. Weight(more, w) = Weight(list, w) + w[tp]  BY <1>2, WeightAppend
<1>4. Weight(list, w) \in Nat  BY WeightStep
<1>5. TotalAdc(OfInduction(list)) = Weight(list, w)  BY <1>1, OfInductionIsWeight
<1>6. TotalAdc(OfInduction(more)) = Weight(more, w)  BY <1>1, OfInductionIsWeight
<1>7. w[tp] \in Nat  OBVIOUS
<1> QED  BY <1>1, <1>2, <1>3, <1>4, <1>5, <1>6, <1>7

LEMMA ReasonStaysPC ==
  ASSUME Inv, maker = "PlaneCoincidence", maker \in Makers, NEW tp \in NextTPsFor, take(tp),
         NEW tps \in Seq(TriggerPrimitive), Reasoned(tps)
  PROVE  Reasoned(tps)'
<1>1. UNCHANGED <<maker, m_config>> /\ received' = Append(received, tp)  BY DEF take
<1>2. tp \in TriggerPrimitive /\ received \in Seq(TriggerPrimitive)  BY NextTPNumbered
<1>3. PICK a \in Nat, b \in Nat : /\ a = TotalAdc(OfInduction(received))
                                  /\ TotalAdc(OfInduction(received')) = a + b
  BY <1>1, <1>2, OfInductionAppend
<1>4. PICK t \in Nat : t = TotalAdc(tps)  BY ChargeType
<1>5. PICK th \in Nat : th = m_config["adc_threshold"]
  <2>1. "adc_threshold" \in Members[maker] /\ "adc_threshold" \notin Switches
    BY DEF Members, Switches
  <2> QED  BY <2>1, MemberIsNat DEF Inv
<1>6. SUFFICES ASSUME Countable(tps)
               PROVE  Justified(tps)'
  BY <1>1 DEF Reasoned, Countable
<1>7. Justified(tps)  BY <1>6 DEF Reasoned, Countable
<1>8. t + 2 * a > th  BY <1>3, <1>4, <1>5, <1>7 DEF Justified
<1>9. t + 2 * (a + b) > th  BY <1>8
<1>10. OfInduction(received)' = OfInduction(received')  BY DEF OfInduction
<1>11. TotalAdc(tps) + 2 * TotalAdc(OfInduction(received')) > m_config["adc_threshold"]
  BY <1>3, <1>4, <1>5, <1>9
<1> QED  BY <1>1, <1>7, <1>10, <1>11 DEF Justified

LEMMA ReasonStays ==
  ASSUME Inv, maker \in Makers, ~ flushed, NEW tp \in NextTPsFor, take(tp),
         NEW tps \in Seq(TriggerPrimitive), tps # <<>>, Reasoned(tps)
  PROVE  Reasoned(tps)'
<1>1. UNCHANGED <<maker, m_config>>  BY DEF take
<1>2. \/ maker \in {"HorizontalMuon", "PlaneCoincidence", "Supernova"}
      \/ maker \in {"ChannelAdjacency", "MichelElectron", "Prescale", "BundleN",
                    "ChannelDistance"}
  BY TriggerActivityFactoryAssumption DEF Windowed, Bundling
<1> QED  BY <1>1, <1>2, ReasonStaysHM, ReasonStaysPC, ReasonStaysSN, ReasonStaysAlone

\* A TA is made of TPs, of one at least.
LEMMA HonestIsMade ==
  ASSUME NEW ta \in HonestTAs
  PROVE  ta.inputs \in Seq(TriggerPrimitive) /\ ta.inputs # <<>>
<1>1. ta \in TAs /\ Least(ta.time_start, TimesOf(ta.inputs))
  BY DEF HonestTAs, WindowTAs, BundleTAs, TrackTAs
<1>2. TimesOf(<<>>) = {}
  <2>1. DOMAIN <<>> = {}  OBVIOUS
  <2> QED  BY <2>1 DEF TimesOf
<1> QED  BY <1>1, <1>2 DEF TAs, Least

\* So what is left to be shown after a call are the reasons of the new TAs.
LEMMA ReasonsStay ==
  ASSUME Inv, maker \in Makers, ~ flushed, NEW tp \in NextTPsFor, take(tp),
         TAsSound, ReasonInv,
         \A k \in DOMAIN output_ta' :
           \/ k \in DOMAIN output_ta /\ output_ta'[k] = output_ta[k]
           \/ \E tps : tps = output_ta'[k].inputs /\ Reasoned(tps)'
  PROVE  ReasonInv'
<1>1. ASSUME NEW tps, NEW k \in DOMAIN output_ta, tps = output_ta[k].inputs
      PROVE  Reasoned(tps)'
  <2>1. PICK ta : ta = output_ta[k] /\ ta \in HonestTAs  BY DEF TAsSound
  <2>2. tps \in Seq(TriggerPrimitive) /\ tps # <<>>  BY <1>1, <2>1, HonestIsMade
  <2>3. Reasoned(tps)  BY <1>1, <2>1, <2>2 DEF ReasonInv
  <2> QED  BY <2>2, <2>3, ReasonStays
<1>2. ASSUME NEW k \in DOMAIN output_ta'
      PROVE  \E tps : tps = output_ta'[k].inputs /\ Reasoned(tps)'
  <2>1. PICK tps : tps = output_ta'[k].inputs  OBVIOUS
  <2>2. CASE k \in DOMAIN output_ta /\ output_ta'[k] = output_ta[k]
    BY <1>1, <2>1, <2>2
  <2> QED  BY <2>1, <2>2
<1> QED  BY <1>2 DEF ReasonInv

LEMMA NothingNew ==
  ASSUME Inv, maker \in Makers, ~ flushed, NEW tp \in NextTPsFor, take(tp),
         TAsSound, ReasonInv, UNCHANGED output_ta
  PROVE  ReasonInv'
BY ReasonsStay

LEMMA OneNew ==
  ASSUME Inv, maker \in Makers, ~ flushed, NEW tp \in NextTPsFor, take(tp),
         TAsSound, ReasonInv, NEW ta, output_ta' = Append(output_ta, ta),
         NEW tps, tps = ta.inputs, Reasoned(tps)'
  PROVE  ReasonInv'
<1>1. PICK S : output_ta \in Seq(S)  BY DEF TAsSound
<1>2. PICK m \in Nat : m = Len(output_ta) /\ DOMAIN output_ta = 1 .. m  BY <1>1
<1>3. PICK T : T = S \cup {ta}  OBVIOUS
<1>4. output_ta \in Seq(T) /\ ta \in T  BY <1>1, <1>3
<1>5. /\ DOMAIN output_ta' = 1 .. (m + 1) /\ output_ta'[m + 1] = ta
      /\ \A k \in 1 .. m : output_ta'[k] = output_ta[k]
  BY <1>2, <1>4
<1>6. 1 .. (m + 1) = (1 .. m) \cup {m + 1}  OBVIOUS
<1>7. \A k \in DOMAIN output_ta' :
        \/ k \in DOMAIN output_ta /\ output_ta'[k] = output_ta[k]
        \/ \E l : l = output_ta'[k].inputs /\ Reasoned(l)'
  BY <1>2, <1>5, <1>6
<1> QED  BY <1>7, ReasonsStay

\* The step that ends the stream.
LEMMA ReasonsStayFlushed ==
  ASSUME StreamInv, TAsSound, ReasonInv, end_of_stream,
         NEW tps, tps = m_current_ta, Reasoned(tps)'
  PROVE  ReasonInv'
<1>1. /\ maker = "Supernova" /\ flushed' = TRUE /\ ~ flushed
      /\ UNCHANGED <<maker, m_config, received>>
      /\ output_ta' = Append(output_ta, MakeTriggerActivity)
  BY DEF end_of_stream, flush
<1>2. ASSUME NEW l, Reasoned(l) PROVE Reasoned(l)'
  <2>1. SUFFICES ASSUME Countable(l) PROVE Justified(l)'
    BY <1>1 DEF Reasoned, Countable
  <2>2. Justified(l) /\ (0 \in TimesOf(received) \/ Followed(l))  BY <1>1, <1>2, <2>1 DEF Reasoned, Countable
  <2> QED  BY <1>1, <2>2, SupernovaJustified, SupernovaJustifiedNext
<1>3. PICK ta : ta = MakeTriggerActivity /\ ta.inputs = tps
  <2>1. MakeTriggerActivity.inputs = tps  BY DEF MakeTriggerActivity, ta_of
  <2> QED  BY <2>1
<1>4. PICK m \in Nat : m = Len(output_ta) /\ DOMAIN output_ta = 1 .. m  BY DEF TAsSound
<1>5. /\ DOMAIN output_ta' = 1 .. (m + 1) /\ output_ta'[m + 1] = ta
      /\ \A k \in 1 .. m : output_ta'[k] = output_ta[k]
  <2>1. PICK T : T = HonestTAs \cup {ta}  OBVIOUS
  <2>2. output_ta \in Seq(T) /\ ta \in T  BY <2>1 DEF TAsSound
  <2> QED  BY <1>1, <1>3, <1>4, <2>2
<1>6. 1 .. (m + 1) = (1 .. m) \cup {m + 1}  OBVIOUS
<1>7. ASSUME NEW k \in DOMAIN output_ta'
      PROVE  \E l : l = output_ta'[k].inputs /\ Reasoned(l)'
  <2>1. PICK l : l = output_ta'[k].inputs  OBVIOUS
  <2>2. CASE k = m + 1  BY <1>3, <1>5, <2>1, <2>2
  <2>3. CASE k \in 1 .. m
    <3>1. Reasoned(l)  BY <1>4, <1>5, <2>1, <2>3 DEF ReasonInv
    <3> QED  BY <1>2, <2>1, <3>1
  <2> QED  BY <1>5, <1>6, <2>2, <2>3
<1> QED  BY <1>7 DEF ReasonInv

-----------------------------------------------------------------------------
(* The reasons, maker by maker *)

\* The last element of a list that was added to.
LEMMA LastOfAppend ==
  ASSUME NEW list \in Seq(TriggerPrimitive), NEW tp \in TriggerPrimitive
  PROVE  Last(Append(list, tp)) = tp /\ Append(list, tp) \in Seq(TriggerPrimitive)
         /\ Append(list, tp) # <<>> /\ Len(Append(list, tp)) = Len(list) + 1
         /\ \A i \in 1 .. Len(list) : Append(list, tp)[i] = list[i]
<1>1. PICK m \in Nat : m = Len(list)  OBVIOUS
<1>2. PICK more : more = Append(list, tp)  OBVIOUS
<1>5. /\ more \in Seq(TriggerPrimitive) /\ Len(more) = m + 1 /\ more[m + 1] = tp
      /\ \A i \in 1 .. m : more[i] = list[i]
  BY <1>1, <1>2
<1>3. Last(more) = tp  BY <1>5 DEF Last
<1>4. more # <<>>
  <2>1. Len(<<>>) = 0 /\ m + 1 # 0  OBVIOUS
  <2> QED  BY <1>5, <2>1
<1> QED  BY <1>1, <1>2, <1>3, <1>4, <1>5

LEMMA OneIsAppend ==
  ASSUME NEW tp
  PROVE  <<tp>> = Append(<<>>, tp) /\ <<>> \in Seq(TriggerPrimitive) /\ Len(<<>>) = 0
OBVIOUS

\* A window that was started, added to or moved ends with the TP.
EndsWith(list, tp) == \E front \in Seq(TriggerPrimitive) : list = Append(front, tp)

LEMMA WindowEndsWith ==
  ASSUME NEW w, w.inputs \in Seq(TriggerPrimitive), NEW tp \in TriggerPrimitive, NEW length,
         NEW u, u = reset(w, tp) \/ u = add(w, tp) \/ u = move(w, tp, length)
  PROVE  EndsWith(u.inputs, tp)
<1>1. CASE u = reset(w, tp)  BY <1>1, OneIsAppend DEF reset, EndsWith
<1>2. CASE u = add(w, tp)  BY <1>2 DEF add, EndsWith
<1>3. CASE u = move(w, tp, length) /\ u # reset(w, tp)
  <2>1. PICK n \in 0 .. Len(w.inputs) : n = n_to_erase(w.inputs, tp.time_start, length)
    BY NToErase
  <2>2. u = add(erase_front(w, n), tp)  BY <1>3, <2>1 DEF move
  <2>3. u.inputs = Append(SubSeq(w.inputs, n + 1, Len(w.inputs)), tp)
    BY <2>2 DEF add, erase_front
  <2>4. SubSeq(w.inputs, n + 1, Len(w.inputs)) \in Seq(TriggerPrimitive)  BY EndOfList
  <2> QED  BY <2>3, <2>4 DEF EndsWith
<1> QED  BY <1>1, <1>2, <1>3

\* The channels of a list, and those a window counts.
LEMMA ChannelsType ==
  ASSUME NEW list \in Seq(TriggerPrimitive)
  PROVE  /\ ChannelsOf(list) \subseteq Channels /\ ChannelsOf(list) \subseteq Nat
         /\ IsFiniteSet(ChannelsOf(list))
         /\ Cardinality(ChannelsOf(list)) \in Nat /\ Cardinality(ChannelsOf(list)) <= Len(list)
<1>1. PICK n \in Nat : n = Len(list) /\ DOMAIN list = 1 .. n  OBVIOUS
<1>2. \A i \in 1 .. n : list[i] \in TriggerPrimitive  BY <1>1
<1>3. \A i \in 1 .. n : list[i].channel \in Channels /\ list[i].channel \in Nat
  BY <1>2, TPChannel
<1>4. PICK f : f = [i \in 1 .. n |-> list[i].channel]  OBVIOUS
<1>5. ChannelsOf(list) = { f[i] : i \in 1 .. n }  BY <1>1, <1>4 DEF ChannelsOf
<1>6. f \in Surjection(1 .. n, ChannelsOf(list))
  BY <1>4, <1>5 DEF Surjection
<1>7. IsFiniteSet(1 .. n) /\ Cardinality(1 .. n) = n
  <2>1. 1 \in Int /\ n \in Int /\ (IF 1 > n THEN 0 ELSE n - 1 + 1) = n  OBVIOUS
  <2> QED  BY <2>1, FS_Interval
<1>8. IsFiniteSet(ChannelsOf(list)) /\ Cardinality(ChannelsOf(list)) <= n
  BY <1>6, <1>7, FS_Surjection
<1>9. Cardinality(ChannelsOf(list)) \in Nat  BY <1>8, FS_CardinalityType
<1> QED  BY <1>1, <1>3, <1>5, <1>8, <1>9 DEF ChannelsOf

LEMMA CountsOnlyHits ==
  ASSUME NEW w, Sound(w)
  PROVE  DOMAIN w.channel_states \subseteq ChannelsOf(w.inputs)
<1>1. PICK list \in Seq(TriggerPrimitive) : list = w.inputs  BY KeptParts DEF Sound
<1>2. PICK states \in CountMaps(Channels) : states = w.channel_states
                                           /\ Counted(states, TPHits(list))
  BY <1>1, KeptParts DEF Sound
<1>3. DOMAIN states \subseteq Channels /\ Channels \subseteq Nat  BY CountMapType, TPChannel
<1>4. ASSUME NEW c \in DOMAIN states PROVE c \in ChannelsOf(list)
  <2>1. TPHits(list)[c] > 0 /\ c \in Nat  BY <1>2, <1>3 DEF Counted
  <2> QED  BY <2>1, OnChannelCounted
<1> QED  BY <1>1, <1>2, <1>4

\* What the window says for a TA, its TPs say.
LEMMA OverWhenRecounted ==
  ASSUME NEW w, Sound(w), Cardinality(ChannelsOf(w.inputs)) < CountModulus, over_any(w),
         Configured, maker = "HorizontalMuon", maker \in Makers
  PROVE  over_any(Recounted(w.inputs))
<1>1. PICK list \in Seq(TriggerPrimitive) : list = w.inputs  BY KeptParts DEF Sound
<1>2. PICK u : u = Recounted(list)  OBVIOUS
<1>3. u.inputs = list /\ u.adc_integral = TotalAdc(list) % AdcModulus
      /\ DOMAIN u.channel_states = ChannelsOf(list)
  BY <1>2 DEF Recounted, EmptyWindow
<1>4. w.adc_integral = u.adc_integral
  BY <1>1, <1>3 DEF Sound, Charged, ChargeAgrees
<1>5. over_adc(w) => over_adc(u)  BY <1>4 DEF over_adc
<1>6. over_adjacency(w) => over_adjacency(u)  BY <1>1, <1>3 DEF over_adjacency, adjacency
<1>7. over_n_channels(w) => over_n_channels(u)
  <2>1. PICK k \in Nat : k = Cardinality(ChannelsOf(list)) /\ k < CountModulus
    BY <1>1, ChannelsType
  <2>2. DOMAIN w.channel_states \subseteq ChannelsOf(list)  BY <1>1, CountsOnlyHits
  <2>3. PICK j \in Nat : j = Cardinality(DOMAIN w.channel_states) /\ j <= k
    BY <1>1, <2>1, <2>2, ChannelsType, FS_Subset, FS_CardinalityType
  <2>4. j < CountModulus /\ CountModulus \in Nat \ {0}
    BY <2>1, <2>3, ChannelStatesAssumption
  <2>5. n_channels_hit(w) = j /\ n_channels_hit(u) = k
    BY <1>3, <2>1, <2>3, <2>4, SmallMod DEF n_channels_hit, n_channels
  <2>6. PICK th \in Nat : th = m_config["n_channels_threshold"]
    <3>1. "n_channels_threshold" \in Members[maker] /\ "n_channels_threshold" \notin Switches
      BY DEF Members, Switches
    <3> QED  BY <3>1, MemberIsNat
  <2> QED  BY <2>3, <2>5, <2>6 DEF over_n_channels
<1> QED  BY <1>1, <1>2, <1>5, <1>6, <1>7 DEF over_any

\* The window of HorizontalMuon ends with the last TP received, unless the
\* prescale has held a trigger back: then there is still a reason.
WhyHM ==
  maker = "HorizontalMuon" /\ ~ is_empty(m_current_window) =>
    Last(m_current_window.inputs).id = Len(received) \/ over_any(m_current_window)

\* A TA of HorizontalMuon is over one of the thresholds, or a long TP ended it.
LEMMA HorizontalMuonReasons ==
  ASSUME StepInv, MemberInv, ReasonInv, WhyHM, maker = "HorizontalMuon", maker \in Makers,
         ~ flushed, NEW tp \in NextTPsFor, receive_hm(tp)
  PROVE  ReasonInv' /\ WhyHM'
<1>1. /\ take(tp) /\ Inv /\ HeldInv /\ TAsSound /\ maker \in Sliding
      /\ UNCHANGED <<maker, m_config, flushed>> /\ received' = Append(received, tp)
  BY DEF receive_hm, take, StepInv, MemberInv, Sliding
<1>2. PICK w : w = m_current_window /\ Sound(w) /\ w.inputs \in Seq(TriggerPrimitive)
               /\ FromStream(w.inputs, received)
  BY <1>1, SlidingHolds DEF MemberInv, WindowsSound
<1>3. tp \in TriggerPrimitive /\ tp.id = Len(received')  BY <1>1, NextTPNumbered, StreamAppend
<1>4. ASSUME m_current_window' \in {reset(w, tp), add(w, tp), move(w, tp, Length)}
      PROVE  WhyHM'
  <2>0. PICK length, u : length = Length /\ u = m_current_window'  OBVIOUS
  <2>3. EndsWith(u.inputs, tp)
    <3>1. u = reset(w, tp) \/ u = add(w, tp) \/ u = move(w, tp, length)  BY <1>4, <2>0
    <3>2. w.inputs \in Seq(TriggerPrimitive) /\ tp \in TriggerPrimitive  BY <1>2, <1>3
    <3> QED  BY <3>1, <3>2, WindowEndsWith
  <2>1. PICK list \in Seq(TriggerPrimitive) : u.inputs = Append(list, tp)
    BY <2>3 DEF EndsWith
  <2>2. Last(m_current_window'.inputs) = tp  BY <1>3, <2>0, <2>1, LastOfAppend
  <2> QED  BY <1>3, <2>2 DEF WhyHM
<1>5. CASE first_tp(tp) \/ fill_window(tp) \/ slide_window(tp)
  BY <1>1, <1>2, <1>4, <1>5, NothingNew DEF first_tp, fill_window, slide_window, Length
<1>6. CASE prescale_out(tp)
  <2>1. over_any(m_current_window)' <=> over_any(m_current_window)
    BY <1>1, <1>6
       DEF prescale_out, over_any, over_adc, over_n_channels, over_adjacency, adjacency
  <2>2. WhyHM'  BY <1>6, <2>1 DEF WhyHM, prescale_out
  <2> QED  BY <1>1, <1>6, <2>2, NothingNew DEF prescale_out
<1>7. CASE emit_ta(tp) \/ emit_ta_on_tot(tp)
  <2>1. /\ ~ is_empty(w) /\ m_current_window' = reset(w, tp)
        /\ output_ta' = Append(output_ta, construct_ta_hm(w))
    BY <1>2, <1>7 DEF emit_ta, emit_ta_on_tot, window_closed
  <2>2. PICK ta, tps : ta = construct_ta_hm(w) /\ tps = w.inputs /\ tps = ta.inputs
    <3>1. construct_ta_hm(w).inputs = w.inputs  BY DEF construct_ta_hm, ta_of
    <3> QED  BY <3>1
  <2>3. tps \in Seq(TriggerPrimitive) /\ tps # <<>>  BY <1>2, <2>1, <2>2 DEF is_empty
  <2>4. Followed(tps)'
    <3>1. ASSUME NEW i \in DOMAIN tps PROVE tps[i].id + 1 \in DOMAIN received'
      <4>1. tps[i].id \in DOMAIN received  BY <1>2, <2>2, <3>1 DEF FromStream, Range
      <4>2. PICK m \in Nat : m = Len(received) /\ DOMAIN received = 1 .. m
        BY <1>1 DEF Inv
      <4>3. Len(received') = m + 1 /\ DOMAIN received' = 1 .. (m + 1)
        BY <1>1, <4>2, StreamAppend DEF number
      <4> QED  BY <4>1, <4>2, <4>3
    <3> QED  BY <3>1 DEF Followed
  <2>5. PICK u : u = Recounted(tps)  OBVIOUS
  <2>6. Justified(tps)' <=> over_any(u)' \/ long_tp(received[Last(tps).id + 1])'
    BY <1>1, <2>5 DEF Justified, Recounted
  <2>9. ASSUME Cardinality(ChannelsOf(tps)) < CountModulus
        PROVE  Justified(tps)'
    <3>1. CASE over_any(w)
      <4>1. over_any(u)
        BY <1>1, <1>2, <2>2, <2>5, <2>9, <3>1, OverWhenRecounted DEF Inv
      <4>2. over_any(u)'
        BY <1>1, <4>1 DEF over_any, over_adc, over_n_channels, over_adjacency, adjacency
      <4> QED  BY <2>6, <4>2
    <3>2. CASE ~ over_any(w)
      <4>1. long_tp(tp) /\ Last(tps).id = Len(received)
        BY <1>2, <1>7, <2>1, <2>2, <3>2 DEF emit_ta, emit_ta_on_tot, WhyHM
      <4>2. received'[Last(tps).id + 1] = tp  BY <1>1, <4>1, StreamAppend DEF number
      <4>3. PICK f : f = received'[Last(tps).id + 1]  OBVIOUS
      <4>4. long_tp(f)'  BY <1>1, <4>1, <4>2, <4>3 DEF long_tp
      <4> QED  BY <2>6, <4>3, <4>4 DEF long_tp
    <3> QED  BY <3>1, <3>2
  <2>7. Reasoned(tps)'  BY <1>1, <2>4, <2>9 DEF Reasoned, Countable
  <2>8. ReasonInv'  BY <1>1, <2>1, <2>2, <2>7, OneNew
  <2> QED  BY <1>4, <2>1, <2>8
<1> QED  BY <1>5, <1>6, <1>7 DEF receive_hm

\* Prescale gives out single TPs,
LEMMA PrescaleReasons ==
  ASSUME StepInv, MemberInv, ReasonInv, maker = "Prescale", maker \in Makers,
         ~ flushed, NEW tp \in NextTPsFor, receive_prescale(tp)
  PROVE  ReasonInv'
<1>1. take(tp) /\ Inv /\ TAsSound /\ UNCHANGED <<maker, m_config>>
  BY DEF receive_prescale, take, StepInv, MemberInv
<1>2. CASE UNCHANGED output_ta  BY <1>1, <1>2, NothingNew
<1>3. CASE output_ta' = Append(output_ta, ta_of_tps(<<tp>>))
  <2>1. PICK ta, tps : ta = ta_of_tps(<<tp>>) /\ tps = <<tp>> /\ tps = ta.inputs
    <3>1. ta_of_tps(<<tp>>).inputs = <<tp>>  BY DEF ta_of_tps, ta_of
    <3> QED  BY <3>1
  <2>2. Len(tps) = 1  BY <2>1
  <2>3. Justified(tps)'  BY <1>1, <2>2 DEF Justified
  <2>4. Reasoned(tps)'  BY <1>1, <2>3 DEF Reasoned
  <2> QED  BY <1>1, <1>3, <2>1, <2>4, OneNew
<1> QED  BY <1>2, <1>3 DEF receive_prescale

\* The last TPs of the stream are numbered one after another.
LEMMA EndIsConsecutive ==
  ASSUME NEW stream \in Seq(TriggerPrimitive), \A i \in DOMAIN stream : stream[i].id = i,
         NEW list \in Seq(TriggerPrimitive), NEW n, IsEnd(list, stream, n)
  PROVE  Consecutive(list) /\ n \in Nat /\ \A i \in 1 .. Len(list) : list[i].id = n + i
<1>1. PICK k \in Nat, m \in Nat : k = Len(list) /\ m = Len(stream)
                                  /\ DOMAIN list = 1 .. k /\ DOMAIN stream = 1 .. m
  OBVIOUS
<1>2. n \in 0 .. m /\ k = m - n /\ \A i \in 1 .. k : list[i] = stream[n + i]
  BY <1>1 DEF IsEnd
<1>3. \A i \in 1 .. k : n + i \in 1 .. m  BY <1>2
<1>4. \A i \in 1 .. k : list[i].id = n + i  BY <1>1, <1>2, <1>3
<1>5. ASSUME NEW i \in 1 .. k PROVE list[i].id = list[1].id + i - 1
  <2>1. 1 \in 1 .. k  OBVIOUS
  <2>2. list[1].id = n + 1 /\ list[i].id = n + i  BY <1>4, <2>1
  <2> QED  BY <1>2, <2>2
<1> QED  BY <1>1, <1>2, <1>4, <1>5 DEF Consecutive

\* BundleN holds the last TPs of the stream, fewer than make a bundle.
WhyBundle ==
  maker = "BundleN" =>
    /\ \E n : IsEnd(m_current_ta, received, n)
    /\ m_current_ta = <<>> \/ Len(m_current_ta) < m_config["bundle_size"]

\* BundleN bundles of consecutive ones, of the size configured,
LEMMA BundleNReasons ==
  ASSUME StepInv, MemberInv, ReasonInv, WhyBundle, maker = "BundleN", maker \in Makers,
         ~ flushed, NEW tp \in NextTPsFor, receive_bundle(tp), StepInv'
  PROVE  ReasonInv' /\ WhyBundle'
<1>1. /\ take(tp) /\ Inv /\ TAsSound /\ UNCHANGED <<maker, m_config>>
      /\ received' = Append(received, tp) /\ maker \in Bundling
      /\ \A i \in DOMAIN received' : received'[i].id = i
  BY DEF receive_bundle, take, StepInv, MemberInv, Bundling, StreamInv
<1>2. PICK cur \in Seq(TriggerPrimitive) : cur = m_current_ta
  BY DEF MemberInv, BundleSound
<1>3. tp \in TriggerPrimitive /\ received \in Seq(TriggerPrimitive)
      /\ received' \in Seq(TriggerPrimitive)
  BY <1>1, NextTPNumbered, StreamAppend
<1>4. PICK n : IsEnd(cur, received, n)  BY <1>2 DEF WhyBundle
<1>5. PICK more \in Seq(TriggerPrimitive) :
        more = Append(cur, tp) /\ more # <<>> /\ Len(more) = Len(cur) + 1
  BY <1>3, LastOfAppend
<1>6. IsEnd(more, received', n)  BY <1>1, <1>3, <1>4, <1>5, EndAppend
<1>7. PICK size \in Nat : size = m_config["bundle_size"]
  <2>1. "bundle_size" \in Members[maker] /\ "bundle_size" \notin Switches
    BY DEF Members, Switches
  <2> QED  BY <1>1, <2>1, MemberIsNat DEF Inv
<1>8. CASE grow_bundle(tp)
  <2>1. m_current_ta' = more /\ UNCHANGED output_ta /\ ~ (Len(more) >= size)
    BY <1>2, <1>5, <1>7, <1>8 DEF grow_bundle, bundle_full
  <2>2. Len(more) < size  BY <1>7, <2>1
  <2>3. WhyBundle'  BY <1>1, <1>6, <1>7, <2>1, <2>2 DEF WhyBundle
  <2> QED  BY <1>1, <2>1, <2>3, NothingNew
<1>9. CASE emit_bundle(tp)
  <2>1. /\ m_current_ta' = <<>> /\ Len(more) >= size
        /\ output_ta' = Append(output_ta, ta_of_tps(more))
    BY <1>2, <1>5, <1>7, <1>9 DEF emit_bundle, bundle_full
  <2>2. WhyBundle'
    <3>1. IsEnd(<<>>, received', Len(received'))
      <4>1. Len(<<>>) = 0 /\ Len(received') \in Nat  BY <1>3
      <4> QED  BY <4>1 DEF IsEnd
    <3> QED  BY <2>1, <3>1 DEF WhyBundle
  <2>3. PICK ta, tps : ta = ta_of_tps(more) /\ tps = more /\ tps = ta.inputs
    <3>1. ta_of_tps(more).inputs = more  BY DEF ta_of_tps, ta_of
    <3> QED  BY <3>1
  <2>4. Consecutive(tps)  BY <1>1, <1>3, <1>6, <2>3, EndIsConsecutive
  <2>5. Len(tps) = IF size = 0 THEN 1 ELSE size
    <3>1. PICK k \in Nat : k = Len(cur) /\ Len(more) = k + 1  BY <1>5
    <3>2. k = 0 \/ k < size  BY <1>2, <1>7, <3>1 DEF WhyBundle
    <3> QED  BY <1>7, <2>1, <2>3, <3>1, <3>2
  <2>6. Justified(tps)'  BY <1>1, <1>7, <2>4, <2>5 DEF Justified
  <2>7. Reasoned(tps)'  BY <1>1, <2>6 DEF Reasoned
  <2>8. ReasonInv'  BY <1>1, <2>1, <2>3, <2>7, OneNew
  <2> QED  BY <2>2, <2>8
<1> QED  BY <1>8, <1>9 DEF receive_bundle

\* Each TP of a list is close in channel to some before it, on either side.
Clustered(tps, d) ==
  (\A ch \in ChannelsOf(tps) : ch >= d) =>
    \A i \in 2 .. Len(tps) : \E h, l \in 1 .. (i - 1) :
      tps[i].channel <= tps[h].channel + d /\ tps[i].channel >= tps[l].channel - d

\* The bounds are no wider than the TPs of the cluster make them.
Bounded(tps, bounds, d) ==
  /\ \E h \in 1 .. Len(tps) : bounds.upper <= tps[h].channel + d
  /\ (\A ch \in ChannelsOf(tps) : ch >= d) =>
       \E l \in 1 .. Len(tps) : bounds.lower >= tps[l].channel - d

WhyDistance ==
  maker = "ChannelDistance" /\ m_current_ta # <<>> =>
    /\ Clustered(m_current_ta, m_config["max_channel_distance"])
    /\ Bounded(m_current_ta, m_bounds, m_config["max_channel_distance"])

\* The bounds a TP sets, where nothing wraps and where it does.
LEMMA BoundsOfTP ==
  ASSUME NEW tp \in TriggerPrimitive, NEW d \in Nat, d = m_config["max_channel_distance"]
  PROVE  /\ bounds_of(tp).upper \in Nat /\ bounds_of(tp).upper <= tp.channel + d
         /\ bounds_of(tp).lower \in Int
         /\ tp.channel >= d => bounds_of(tp).lower = tp.channel - d
<1>1. PICK c \in Nat : c = tp.channel  BY TPChannel
<1>2. PICK M \in Nat \ {0} : M = ChannelModulus  BY AdjacencyAssumption
<1>3. (c + d) % M \in Nat /\ (c + d) % M <= c + d  
  <2>1. PICK x \in Nat : x = c + d  OBVIOUS
  <2>2. x % M \in 0 .. M - 1 /\ x % M <= x  OBVIOUS
  <2> QED  BY <2>1, <2>2
<1> QED  BY <1>1, <1>2, <1>3 DEF bounds_of, UIntMinus, UIntPlus

\* A cluster of one TP, and of one TP more within its bounds.
LEMMA DistanceStarts ==
  ASSUME NEW tp \in TriggerPrimitive, NEW d \in Nat, d = m_config["max_channel_distance"]
  PROVE  Clustered(<<tp>>, d) /\ Bounded(<<tp>>, bounds_of(tp), d)
<1>1. Len(<<tp>>) = 1 /\ <<tp>>[1] = tp /\ 1 \in 1 .. 1 /\ 2 .. 1 = {}  OBVIOUS
<1>2. PICK c \in Nat : c = tp.channel  BY TPChannel
<1>3. ChannelsOf(<<tp>>) = {tp.channel}  BY OfOne
<1>4. PICK b : b = bounds_of(tp)  OBVIOUS
<1>5. b.upper \in Nat /\ b.upper <= c + d /\ b.lower \in Int /\ (c >= d => b.lower = c - d)
  BY <1>2, <1>4, BoundsOfTP
<1>6. Bounded(<<tp>>, b, d)  BY <1>1, <1>2, <1>3, <1>5 DEF Bounded
<1>7. Clustered(<<tp>>, d)  BY <1>1 DEF Clustered
<1> QED  BY <1>4, <1>6, <1>7

LEMMA DistanceGrows ==
  ASSUME NEW list \in Seq(TriggerPrimitive), NEW tp \in TriggerPrimitive, NEW d \in Nat,
         d = m_config["max_channel_distance"], NEW bounds \in [lower : Nat, upper : Nat],
         Clustered(list, d), Bounded(list, bounds, d),
         tp.channel <= bounds.upper, tp.channel >= bounds.lower
  PROVE  Clustered(Append(list, tp), d) /\ Bounded(Append(list, tp), widen(bounds, tp), d)
<1>1. PICK m \in Nat : m = Len(list)  OBVIOUS
<1>2. PICK more : /\ more = Append(list, tp) /\ Len(more) = m + 1 /\ more[m + 1] = tp
                  /\ \A i \in 1 .. m : more[i] = list[i]
  <2>1. PICK more : more = Append(list, tp)  OBVIOUS
  <2>2. Len(more) = m + 1 /\ more[m + 1] = tp /\ \A i \in 1 .. m : more[i] = list[i]
    BY <1>1, <2>1
  <2> QED  BY <2>1, <2>2
<1>3. PICK c \in Nat : c = tp.channel  BY TPChannel
<1>4. ChannelsOf(more) = ChannelsOf(list) \cup {c}  BY <1>2, <1>3, OfAppend
<1>5. PICK b : b = bounds_of(tp)  OBVIOUS
<1>6. b.upper \in Nat /\ b.upper <= c + d /\ b.lower \in Int /\ (c >= d => b.lower = c - d)
  BY <1>3, <1>5, BoundsOfTP
<1>7. \A i \in 1 .. m : list[i].channel \in Nat
  <2>1. \A i \in 1 .. m : list[i] \in TriggerPrimitive  BY <1>1
  <2> QED  BY <2>1, TPChannel
<1>8. PICK lo \in Nat, up \in Nat : lo = bounds.lower /\ up = bounds.upper  OBVIOUS
<1>9. PICK h \in 1 .. m : up <= list[h].channel + d  BY <1>1, <1>8 DEF Bounded
<1>10. PICK u : u = widen(bounds, tp) 
  OBVIOUS
<1>11. u.upper \in {up, b.upper} /\ u.lower \in {lo, b.lower}
  BY <1>5, <1>8, <1>10 DEF widen
<1>12. h \in 1 .. (m + 1) /\ m + 1 \in 1 .. (m + 1) /\ 1 .. m \subseteq 1 .. (m + 1)  OBVIOUS
<1>13. \E x \in 1 .. (m + 1) : u.upper <= more[x].channel + d
  <2>1. CASE u.upper = up  BY <1>2, <1>9, <1>12, <2>1
  <2>2. CASE u.upper = b.upper  BY <1>2, <1>3, <1>6, <1>12, <2>2
  <2> QED  BY <1>11, <2>1, <2>2
<1>14. ASSUME \A ch \in ChannelsOf(more) : ch >= d
       PROVE  /\ \E x \in 1 .. (m + 1) : u.lower >= more[x].channel - d
              /\ \A i \in 2 .. (m + 1) : \E g, l \in 1 .. (i - 1) :
                   more[i].channel <= more[g].channel + d /\ more[i].channel >= more[l].channel - d
  <2>1. c >= d /\ \A ch \in ChannelsOf(list) : ch >= d  BY <1>4, <1>14
  <2>2. PICK l \in 1 .. m : lo >= list[l].channel - d  BY <1>1, <1>8, <2>1 DEF Bounded
  <2>3. \E x \in 1 .. (m + 1) : u.lower >= more[x].channel - d
    <3>1. CASE u.lower = lo  BY <1>2, <1>12, <2>2, <3>1
    <3>2. CASE u.lower = b.lower
      <4>1. u.lower >= more[m + 1].channel - d  BY <1>2, <1>3, <1>6, <2>1, <3>2
      <4> QED  BY <1>12, <4>1
    <3> QED  BY <1>11, <3>1, <3>2
  <2>4. ASSUME NEW i \in 2 .. (m + 1)
        PROVE  \E g, k \in 1 .. (i - 1) :
                 more[i].channel <= more[g].channel + d /\ more[i].channel >= more[k].channel - d
    <3>1. CASE i = m + 1
      <4>1. i - 1 = m /\ more[i].channel = c  BY <1>2, <1>3, <3>1
      <4>2. c <= more[h].channel + d
        <5>1. PICK x \in Nat : x = list[h].channel /\ x = more[h].channel  BY <1>2, <1>7
        <5>2. c <= up /\ up <= x + d  BY <1>3, <1>8, <1>9, <5>1
        <5>3. c <= x + d  BY <5>2
        <5> QED  BY <5>1, <5>3
      <4>3. c >= more[l].channel - d
        <5>1. PICK x \in Nat : x = list[l].channel /\ x = more[l].channel  BY <1>2, <1>7
        <5>2. c >= lo /\ lo >= x - d  BY <1>3, <1>8, <2>2, <5>1
        <5>3. c >= x - d  BY <5>2
        <5> QED  BY <5>1, <5>3
      <4> QED  BY <4>1, <4>2, <4>3
    <3>2. CASE i # m + 1
      <4>1. i \in 2 .. m /\ i \in 1 .. m /\ 1 .. (i - 1) \subseteq 1 .. m  BY <3>2
      <4>2. PICK g, k \in 1 .. (i - 1) :
              list[i].channel <= list[g].channel + d /\ list[i].channel >= list[k].channel - d
        BY <1>1, <2>1, <4>1 DEF Clustered
      <4>3. more[i] = list[i] /\ more[g] = list[g] /\ more[k] = list[k]  BY <1>2, <4>1
      <4> QED  BY <4>2, <4>3
    <3> QED  BY <3>1, <3>2
  <2> QED  BY <2>3, <2>4
<1>15. Clustered(more, d)  BY <1>2, <1>14 DEF Clustered
<1>16. Bounded(more, u, d)  BY <1>2, <1>13, <1>14 DEF Bounded
<1> QED  BY <1>2, <1>10, <1>15, <1>16

\* ChannelDistance clusters of at least min_tps TPs,
LEMMA ChannelDistanceReasons ==
  ASSUME StepInv, MemberInv, ReasonInv, WhyDistance, maker = "ChannelDistance",
         maker \in Makers, ~ flushed, NEW tp \in NextTPsFor, receive_distance(tp)
  PROVE  ReasonInv' /\ WhyDistance'
<1>1. /\ take(tp) /\ Inv /\ TAsSound /\ UNCHANGED <<maker, m_config>>
      /\ tp \in TriggerPrimitive
  BY NextTPNumbered DEF receive_distance, take, StepInv, MemberInv
<1>2. PICK cur \in Seq(TriggerPrimitive) : cur = m_current_ta
  BY DEF MemberInv, BundleSound
<1>3. PICK d \in Nat : d = m_config["max_channel_distance"]
  <2>1. "max_channel_distance" \in Members[maker] /\ "max_channel_distance" \notin Switches
    BY DEF Members, Switches
  <2> QED  BY <1>1, <2>1, MemberIsNat DEF Inv
<1>4. ASSUME set_new_ta(tp) PROVE WhyDistance'
  <2>1. m_current_ta' = <<tp>> /\ m_bounds' = bounds_of(tp)  BY <1>4 DEF set_new_ta
  <2>2. Clustered(<<tp>>, d) /\ Bounded(<<tp>>, bounds_of(tp), d)
    BY <1>1, <1>3, DistanceStarts
  <2> QED  BY <1>1, <1>3, <2>1, <2>2 DEF WhyDistance
<1>5. CASE start_cluster(tp) \/ drop_cluster(tp)
  BY <1>1, <1>4, <1>5, NothingNew DEF start_cluster, drop_cluster
<1>6. CASE skip_tp(tp)
  <2>1. UNCHANGED <<maker, m_config, m_current_ta, m_bounds, output_ta>>
    BY <1>1, <1>6 DEF skip_tp
  <2>2. WhyDistance'  BY <2>1 DEF WhyDistance
  <2> QED  BY <1>1, <2>1, <2>2, NothingNew
<1>7. CASE grow_cluster(tp)
  <2>1. /\ m_current_ta' = Append(cur, tp) /\ UNCHANGED output_ta /\ cur # <<>>
        /\ m_bounds' = widen(m_bounds, tp)
        /\ ~ (tp.channel > m_bounds.upper) /\ ~ (tp.channel < m_bounds.lower)
    BY <1>2, <1>7 DEF grow_cluster, out_of_bounds
  <2>2. PICK bounds \in [lower : Nat, upper : Nat] : bounds = m_bounds
    <3>1. 0 .. ChannelModulus - 1 \subseteq Nat  BY AdjacencyAssumption
    <3> QED  BY <3>1 DEF MemberInv, BoundsSound, Bounds
  <2>3. tp.channel <= bounds.upper /\ tp.channel >= bounds.lower
    <3>1. tp.channel \in Nat  BY <1>1, TPChannel
    <3> QED  BY <2>1, <2>2, <3>1
  <2>4. Clustered(cur, d) /\ Bounded(cur, bounds, d)
    BY <1>2, <1>3, <2>1, <2>2 DEF WhyDistance
  <2>5. Clustered(Append(cur, tp), d) /\ Bounded(Append(cur, tp), widen(bounds, tp), d)
    BY <1>1, <1>3, <2>3, <2>4, DistanceGrows
  <2>6. WhyDistance'  BY <1>1, <1>3, <2>1, <2>2, <2>5 DEF WhyDistance
  <2> QED  BY <1>1, <2>1, <2>6, NothingNew
<1>8. CASE emit_cluster(tp)
  <2>1. /\ cur # <<>> /\ Len(cur) >= m_config["min_tps"] /\ set_new_ta(tp)
        /\ output_ta' = Append(output_ta, ta_of_tps(cur))
    BY <1>2, <1>8 DEF emit_cluster
  <2>2. PICK ta, tps : ta = ta_of_tps(cur) /\ tps = cur /\ tps = ta.inputs
    <3>1. ta_of_tps(cur).inputs = cur  BY DEF ta_of_tps, ta_of
    <3> QED  BY <3>1
  <2>3. Clustered(tps, m_config["max_channel_distance"])
    BY <1>2, <2>1, <2>2 DEF WhyDistance
  <2>4. Justified(tps)'  BY <1>1, <2>1, <2>2, <2>3 DEF Justified, Clustered
  <2>5. Reasoned(tps)'  BY <1>1, <2>4 DEF Reasoned
  <2>6. ReasonInv'  BY <1>1, <2>1, <2>2, <2>5, OneNew
  <2> QED  BY <1>4, <2>1, <2>6
<1> QED  BY <1>5, <1>6, <1>7, <1>8 DEF receive_distance

\* While it goes on, the activity of Supernova is the end of the stream, and
\* each of its TPs was close to those before it.
SupernovaLinks(tps, stream) ==
  \A n \in 1 .. Len(tps) : n < Len(tps) => Tied(tps, stream[tps[n].id + 1], n)

WhySupernova ==
  maker = "Supernova" /\ received # <<>> /\ ~ flushed =>
    \/ 0 \in TimesOf(received)
    \/ /\ \E n : IsEnd(m_current_ta, received, n)
       /\ SupernovaLinks(m_current_ta, received)

\* What a TP is close to is what came before it, and no more.
LEMMA TiedBefore ==
  ASSUME NEW list \in Seq(TriggerPrimitive), NEW e \in TriggerPrimitive, NEW tp,
         NEW n \in 1 .. Len(list)
  PROVE  Tied(Append(list, e), tp, n) <=> Tied(list, tp, n)
<1>1. PICK m \in Nat : m = Len(list)  OBVIOUS
<1>2. PICK more \in Seq(TriggerPrimitive) : more = Append(list, e)  BY LastOfAppend
<1>3. Len(more) = m + 1 /\ \A i \in 1 .. m : more[i] = list[i]
  BY <1>1, <1>2, LastOfAppend
<1>4. SubSeq(more, 1, n) = SubSeq(list, 1, n)
  <2>1. \A i \in 1 .. n : more[i] = list[i]  BY <1>1, <1>3
  <2> QED  BY <1>1, <1>2, <1>3, <2>1
<1> QED  BY <1>2, <1>4 DEF Tied

LEMMA TiedToAll ==
  ASSUME NEW list \in Seq(TriggerPrimitive), NEW tp, Spans(m_extent, list)
  PROVE  Tied(list, tp, Len(list)) <=> consistent(tp)
<1>1. SubSeq(list, 1, Len(list)) = list  OBVIOUS
<1>2. m_extent = ExtentOf(list)  BY SpansIsExtent
<1> QED  BY <1>1, <1>2 DEF Tied, consistent

\* The TPs behind those of the end of a stream.
LEMMA BehindTheEnd ==
  ASSUME NEW list \in Seq(TriggerPrimitive), NEW stream \in Seq(TriggerPrimitive),
         NEW n, IsEnd(list, stream, n), \A i \in DOMAIN stream : stream[i].id = i,
         list # <<>>
  PROVE  /\ Len(list) \in 1 .. Len(list)
         /\ list[Len(list)].id = Len(stream) /\ Last(list) = Last(stream)
         /\ \A i \in 1 .. Len(list) : i < Len(list) => list[i].id + 1 \in DOMAIN stream
<1>1. PICK k \in Nat, m \in Nat : k = Len(list) /\ m = Len(stream) /\ DOMAIN stream = 1 .. m
  OBVIOUS
<1>2. n \in 0 .. m /\ k = m - n /\ \A i \in 1 .. k : list[i] = stream[n + i]
  BY <1>1 DEF IsEnd
<1>3. k \in 1 .. k
  <2>1. k # 0  BY <1>1, EmptySeq
  <2> QED  BY <2>1
<1>4. \A i \in 1 .. k : list[i].id = n + i  BY <1>1, EndIsConsecutive
<1>5. list[k].id = m /\ list[k] = stream[m]
  <2>1. n + k = m  BY <1>2
  <2> QED  BY <1>2, <1>3, <1>4, <2>1
<1>6. Last(list) = Last(stream)  BY <1>1, <1>5 DEF Last
<1>7. ASSUME NEW i \in 1 .. k, i < k PROVE list[i].id + 1 \in 1 .. m
  BY <1>2, <1>4, <1>7
<1> QED  BY <1>1, <1>3, <1>5, <1>6, <1>7

\* and Supernova activities that end where the next TP is not close to them,
LEMMA SupernovaReasons ==
  ASSUME StepInv, MemberInv, ReasonInv, WhySupernova, maker = "Supernova",
         maker \in Makers, ~ flushed, NEW tp \in NextTPsFor, receive_supernova(tp)
  PROVE  ReasonInv' /\ WhySupernova'
<1>1. /\ take(tp) /\ Inv /\ TAsSound /\ UNCHANGED <<maker, m_config, flushed>>
      /\ tp \in TriggerPrimitive /\ received' = Append(received, tp)
      /\ received \in Seq(TriggerPrimitive) /\ StreamInv /\ HeldInv
      /\ \A i \in DOMAIN received : received[i].id = i
  BY NextTPNumbered DEF receive_supernova, take, StepInv, MemberInv, StreamInv
<1>2. PICK cur \in Seq(TriggerPrimitive) : cur = m_current_ta
  BY DEF MemberInv, BundleSound
<1>3. /\ received' \in Seq(TriggerPrimitive) /\ received' # <<>>
      /\ DOMAIN received' = DOMAIN received \cup {number} /\ Len(received') = number
      /\ received'[number] = tp /\ number = Len(received) + 1
      /\ \A i \in DOMAIN received : received'[i] = received[i]
  BY <1>1, StreamAppend DEF number
<1>4. TimesOf(received') = TimesOf(received) \cup {tp.time_start}  BY <1>1, TimesAppend
<1>5. ASSUME received # <<>>, 0 \notin TimesOf(received)
      PROVE  /\ cur # <<>> /\ Spans(m_extent, cur)
             /\ m_extent.time_start # 0
             /\ SupernovaLinks(cur, received)
             /\ SupernovaLinks(cur, received') /\ received'[cur[Len(cur)].id + 1] = tp
             /\ Consecutive(cur) /\ Followed(cur)' /\ Len(cur) \in 1 .. Len(cur)
  <2>1. cur # <<>> /\ m_extent.time_start \in TimesOf(received)
    BY <1>1, <1>2, <1>5 DEF HeldInv
  <2>2. Spans(m_extent, cur)  BY <1>2, <2>1 DEF MemberInv, BundleSound
  <2>3. PICK n : IsEnd(cur, received, n)  BY <1>2, <1>5 DEF WhySupernova
  <2>4. SupernovaLinks(cur, received)  BY <1>2, <1>5 DEF WhySupernova
  <2>5. /\ Len(cur) \in 1 .. Len(cur) /\ cur[Len(cur)].id = Len(received)
        /\ \A i \in 1 .. Len(cur) : i < Len(cur) => cur[i].id + 1 \in DOMAIN received
    BY <1>1, <2>1, <2>3, BehindTheEnd
  <2>6. received'[cur[Len(cur)].id + 1] = tp  BY <1>3, <2>5
  <2>7. SupernovaLinks(cur, received')  BY <1>3, <2>4, <2>5 DEF SupernovaLinks
  <2>8. Consecutive(cur)  BY <1>1, <2>3, EndIsConsecutive
  <2>9. ASSUME NEW i \in 1 .. Len(cur) PROVE cur[i].id + 1 \in DOMAIN received'
    <3>1. CASE i < Len(cur)  BY <1>3, <2>5, <3>1
    <3>2. CASE ~ (i < Len(cur))
      <4>1. i = Len(cur)  BY <3>2
      <4> QED  BY <1>3, <2>5, <4>1
    <3> QED  BY <3>1, <3>2
  <2>10. Followed(cur)'
    <3>1. DOMAIN cur = 1 .. Len(cur)  OBVIOUS
    <3> QED  BY <2>9, <3>1 DEF Followed
  <2> QED  BY <1>5, <2>1, <2>2, <2>4, <2>5, <2>6, <2>7, <2>8, <2>10
<1>6. CASE begin_supernova(tp)
  <2>1. m_current_ta' = <<tp>> /\ UNCHANGED output_ta /\ m_extent.time_start = 0
    BY <1>6 DEF begin_supernova
  <2>2. 0 \in TimesOf(received) \/ received = <<>>  BY <1>5, <2>1
  <2>3. CASE 0 \in TimesOf(received)
    <3>1. WhySupernova'  BY <1>4, <2>3 DEF WhySupernova, TimesOf
    <3> QED  BY <1>1, <2>1, <3>1, NothingNew
  <2>4. CASE received = <<>>
    <3>1. IsEnd(<<tp>>, received', Len(received))  BY <1>1, EndReset
    <3>2. SupernovaLinks(<<tp>>, received')
      <4>1. Len(<<tp>>) = 1 /\ \A n \in 1 .. 1 : ~ (n < 1)  OBVIOUS
      <4> QED  BY <4>1 DEF SupernovaLinks
    <3>3. WhySupernova'  BY <2>1, <3>1, <3>2 DEF WhySupernova
    <3> QED  BY <1>1, <2>1, <3>3, NothingNew
  <2> QED  BY <2>2, <2>3, <2>4
<1>7. CASE emit_supernova(tp)
  <2>1. /\ m_current_ta' = <<tp>> /\ output_ta' = Append(output_ta, MakeTriggerActivity)
        /\ m_extent.time_start # 0 /\ ~ consistent(tp)
    BY <1>7 DEF emit_supernova
  <2>2. received # <<>>  BY <1>1, <2>1 DEF StreamInv, NoExtent
  <2>3. WhySupernova'
    <3>1. IsEnd(<<tp>>, received', Len(received))  BY <1>1, EndReset
    <3>2. SupernovaLinks(<<tp>>, received')
      <4>1. Len(<<tp>>) = 1 /\ \A n \in 1 .. 1 : ~ (n < 1)  OBVIOUS
      <4> QED  BY <4>1 DEF SupernovaLinks
    <3> QED  BY <2>1, <3>1, <3>2 DEF WhySupernova
  <2>4. PICK ta, tps : ta = MakeTriggerActivity /\ tps = cur /\ tps = ta.inputs
    <3>1. MakeTriggerActivity.inputs = cur  BY <1>2 DEF MakeTriggerActivity, ta_of
    <3> QED  BY <3>1
  <2>5. Reasoned(tps)'
    <3>1. CASE 0 \in TimesOf(received)
      <4>1. 0 \in TimesOf(received')  BY <1>4, <3>1
      <4>2. Justified(tps)'  BY <1>1, <4>1, SupernovaJustifiedNext
      <4> QED  BY <1>1, <4>1, <4>2 DEF Reasoned, TimesOf
    <3>2. CASE 0 \notin TimesOf(received)
      <4>1. ASSUME NEW n \in 1 .. Len(tps)
            PROVE  n < Len(tps) <=> Tied(tps, received'[tps[n].id + 1], n)
        <5>1. CASE n < Len(tps)
          <6>1. SupernovaLinks(tps, received')  BY <1>5, <2>2, <2>4, <3>2
          <6> QED  BY <5>1, <6>1 DEF SupernovaLinks
        <5>2. CASE ~ (n < Len(tps))
          <6>1. n = Len(tps)  BY <2>4, <5>2
          <6>2. received'[tps[n].id + 1] = tp /\ Spans(m_extent, tps)
            BY <1>5, <2>2, <2>4, <3>2, <6>1
          <6>3. ~ Tied(tps, tp, Len(tps))  BY <2>1, <2>4, <6>2, TiedToAll
          <6> QED  BY <5>2, <6>1, <6>2, <6>3
        <5> QED  BY <5>1, <5>2
      <4>2. Consecutive(tps) /\ Followed(tps)'  BY <1>5, <2>2, <2>4, <3>2
      <4>3. Justified(tps)'  BY <1>1, <4>1, <4>2, SupernovaJustifiedNext
      <4> QED  BY <1>1, <4>2, <4>3 DEF Reasoned
    <3> QED  BY <3>1, <3>2
  <2>6. ReasonInv'  BY <1>1, <2>1, <2>4, <2>5, OneNew
  <2> QED  BY <2>3, <2>6
<1>8. CASE grow_supernova(tp)
  <2>1. /\ m_current_ta' = Append(cur, tp) /\ UNCHANGED output_ta
        /\ m_extent.time_start # 0 /\ consistent(tp)
    BY <1>2, <1>8 DEF grow_supernova
  <2>2. received # <<>>  BY <1>1, <2>1 DEF StreamInv, NoExtent
  <2>3. CASE 0 \in TimesOf(received)
    <3>1. WhySupernova'  BY <1>4, <2>3 DEF WhySupernova, TimesOf
    <3> QED  BY <1>1, <2>1, <3>1, NothingNew
  <2>4. CASE 0 \notin TimesOf(received)
    <3>1. PICK n : IsEnd(cur, received, n)  BY <1>1, <1>2, <2>2, <2>4 DEF WhySupernova
    <3>2. IsEnd(Append(cur, tp), received', n)  BY <1>1, <3>1, EndAppend
    <3>3. PICK m \in Nat : m = Len(cur) /\ m \in 1 .. m  BY <1>5, <2>2, <2>4
    <3>4. PICK more : /\ more = Append(cur, tp) /\ Len(more) = m + 1
                      /\ \A i \in 1 .. m : more[i] = cur[i]
      <4>1. PICK more : more = Append(cur, tp)  OBVIOUS
      <4>2. Len(more) = m + 1 /\ \A i \in 1 .. m : more[i] = cur[i]
        BY <1>1, <3>3, <4>1, LastOfAppend
      <4> QED  BY <4>1, <4>2
    <3>5. ASSUME NEW k \in 1 .. (m + 1), k < m + 1
          PROVE  Tied(more, received'[more[k].id + 1], k)
      <4>1. k \in 1 .. m /\ more[k] = cur[k]  BY <3>4, <3>5
      <4>2. PICK e : e = received'[cur[k].id + 1]  OBVIOUS
      <4>3. Tied(cur, e, k)
        <5>1. CASE k < m
          <6>1. SupernovaLinks(cur, received')  BY <1>5, <2>2, <2>4
          <6> QED  BY <3>3, <4>1, <4>2, <5>1, <6>1 DEF SupernovaLinks
        <5>2. CASE ~ (k < m)
          <6>1. k = m /\ e = tp  BY <1>5, <2>2, <2>4, <3>3, <4>1, <4>2, <5>2
          <6>2. Spans(m_extent, cur)  BY <1>5, <2>2, <2>4
          <6> QED  BY <2>1, <3>3, <6>1, <6>2, TiedToAll
        <5> QED  BY <5>1, <5>2
      <4>4. Tied(more, e, k)  BY <1>1, <3>3, <3>4, <4>1, <4>3, TiedBefore
      <4> QED  BY <4>1, <4>2, <4>4
    <3>6. SupernovaLinks(more, received')  BY <3>4, <3>5 DEF SupernovaLinks
    <3>7. WhySupernova'  BY <2>1, <3>2, <3>4, <3>6 DEF WhySupernova
    <3> QED  BY <1>1, <2>1, <3>7, NothingNew
  <2> QED  BY <2>3, <2>4
<1> QED  BY <1>6, <1>7, <1>8 DEF receive_supernova

\* or where the stream ends.
LEMMA FlushReasons ==
  ASSUME StepInv, MemberInv, ReasonInv, WhySupernova, end_of_stream
  PROVE  ReasonInv' /\ WhySupernova'
<1>1. /\ maker = "Supernova" /\ flushed' = TRUE /\ ~ flushed /\ received # <<>>
      /\ UNCHANGED <<maker, m_config, received>> /\ TAsSound /\ StreamInv
      /\ \A i \in DOMAIN received : received[i].id = i
      /\ received \in Seq(TriggerPrimitive)
  BY DEF end_of_stream, flush, MemberInv, StepInv, StreamInv, Inv
<1>2. PICK tps \in Seq(TriggerPrimitive) : tps = m_current_ta
  BY DEF MemberInv, BundleSound
<1>3. CASE 0 \in TimesOf(received)
  <2>1. Justified(tps)'  BY <1>1, <1>3, SupernovaJustifiedNext
  <2>2. Reasoned(tps)'  BY <1>1, <2>1 DEF Reasoned
  <2> QED  BY <1>1, <1>2, <2>2, ReasonsStayFlushed DEF WhySupernova
<1>4. CASE 0 \notin TimesOf(received)
  <2>1. PICK n : IsEnd(tps, received, n)  BY <1>1, <1>2, <1>4 DEF WhySupernova
  <2>2. SupernovaLinks(tps, received)  BY <1>1, <1>2, <1>4 DEF WhySupernova
  <2>3. tps # <<>>  BY <1>1, <1>2 DEF StepInv, HeldInv
  <2>4. Last(tps) = Last(received)  BY <1>1, <2>1, <2>3, BehindTheEnd
  <2>5. Consecutive(tps)  BY <1>1, <2>1, EndIsConsecutive
  <2>6. ASSUME NEW k \in 1 .. Len(tps)
        PROVE  \/ flushed' /\ Last(tps) = Last(received') /\ k = Len(tps)
               \/ k < Len(tps) <=> Tied(tps, received'[tps[k].id + 1], k)
    <3>1. k < Len(tps) \/ k = Len(tps)  OBVIOUS
    <3> QED  BY <1>1, <2>2, <2>4, <3>1 DEF SupernovaLinks
  <2>7. Justified(tps)'  BY <1>1, <2>5, <2>6, SupernovaJustifiedNext
  <2>8. Reasoned(tps)'  BY <1>1, <2>7 DEF Reasoned
  <2> QED  BY <1>1, <1>2, <2>8, ReasonsStayFlushed DEF WhySupernova
<1> QED  BY <1>3, <1>4

-----------------------------------------------------------------------------
(* The track of MichelElectron *)

\* The hits at which MichelElectron can tell a gradient: each behind two others,
\* and away from the second of them in channel and in time.
UsableHit(t, i) ==
  /\ i > 2 /\ t[i].channel - t[i - 2].channel # 0 /\ t[i].time_start - t[i - 2].time_start # 0
  /\ Magnitude(t[i].time_start - t[i - 2].time_start) <= KinkTicks
  /\ Magnitude(t[i].channel - t[i - 2].channel) <= KinkWires

UsableSoFar(u, t, i) ==
  /\ u = <<>> \/ Len(u) + 2 <= i
  /\ \A k \in DOMAIN u : u[k] \in 1 .. i /\ UsableHit(t, u[k])

LEMMA UsableHits ==
  ASSUME NEW t \in Seq(TriggerPrimitive)
  PROVE  usable_hits(t) \in Seq(Nat) /\ UsableSoFar(usable_hits(t), t, Len(t))
<1> DEFINE N == Len(t)
           V == Seq(Nat)
           Step(i, u) == IF UsableHit(t, i) THEN Append(u, i) ELSE u
           Runs(g) == g = [i \in 0 .. N |-> IF i = 0 THEN <<>> ELSE Step(i, g[i - 1])]
<1>1. N \in Nat  OBVIOUS
<1> HIDE DEF N
<1>2. ASSUME NEW i \in 1 .. N, NEW u \in V PROVE Step(i, u) \in V
  OBVIOUS
<1>3. <<>> \in V  OBVIOUS
<1> HIDE DEF V, Step
<1>4. PICK step : step = [i \in 1 .. N |-> [u \in V |-> Step(i, u)]]  OBVIOUS
<1>5. step \in [1 .. N -> [V -> V]]  BY <1>2, <1>4
<1>6. PICK g \in [0 .. N -> V] : g[0] = <<>> /\ \A i \in 1 .. N : g[i] = step[i][g[i - 1]]
  <2>1. LoopRuns(V, <<>>, N, step) # {}  BY <1>1, <1>3, <1>5, LoopHasARun
  <2> QED  BY <2>1 DEF LoopRuns
<1>7. Runs(g)
  <2>1. ASSUME NEW i \in 1 .. N PROVE g[i] = Step(i, g[i - 1])
    <3>1. i - 1 \in 0 .. N /\ g[i - 1] \in V  BY <1>1
    <3> QED  BY <1>4, <1>6, <3>1
  <2>2. \A i \in 0 .. N : i = 0 \/ i \in 1 .. N  BY <1>1
  <2> QED  BY <1>6, <2>1, <2>2
<1>8. PICK f : Runs(f) /\ usable_hits(t) = f[N]
  <2> DEFINE f == CHOOSE f : Runs(f)
  <2>1. usable_hits(t) = f[N]
    BY DEF usable_hits, N, Step, UsableHit
  <2> HIDE DEF Runs
  <2>2. Runs(f)  BY <1>7
  <2> QED  BY <2>1, <2>2
<1> DEFINE T == { i \in 0 .. N : f[i] \in V /\ UsableSoFar(f[i], t, i) }
<1>9. 0 \in T
  <2>1. 0 \in 0 .. N /\ DOMAIN <<>> = {}  BY <1>1
  <2>2. f[0] = <<>>  BY <1>8, <2>1
  <2> QED  BY <1>3, <2>1, <2>2 DEF UsableSoFar
<1>10. ASSUME NEW i \in 1 .. N, i - 1 \in T PROVE i \in T
  <2>1. i \in 0 .. N /\ i # 0 /\ f[i] = Step(i, f[i - 1])  BY <1>1, <1>8
  <2>2. PICK u \in V : u = f[i - 1] /\ UsableSoFar(u, t, i - 1)  BY <1>10
  <2>3. Step(i, u) \in V  BY <1>2
  <2>4. ASSUME UsableHit(t, i) PROVE UsableSoFar(Append(u, i), t, i)
    <3>1. u \in Seq(Nat)  BY DEF V
    <3>2. PICK m \in Nat : m = Len(u) /\ DOMAIN u = 1 .. m  BY <3>1
    <3>3. PICK more : more = Append(u, i)  OBVIOUS
    <3>4. /\ Len(more) = m + 1 /\ DOMAIN more = 1 .. (m + 1) /\ more[m + 1] = i
          /\ \A k \in 1 .. m : more[k] = u[k]
      BY <3>1, <3>2, <3>3
    <3>5. i > 2  BY <2>4 DEF UsableHit
    <3>6. Len(more) + 2 <= i
      <4>1. CASE u = <<>>  BY <3>2, <3>4, <3>5, <4>1
      <4>2. CASE Len(u) + 2 <= i - 1  BY <3>2, <3>4, <4>2
      <4> QED  BY <2>2, <4>1, <4>2 DEF UsableSoFar
    <3>7. ASSUME NEW k \in DOMAIN more PROVE more[k] \in 1 .. i /\ UsableHit(t, more[k])
      <4>1. CASE k = m + 1  BY <2>4, <3>4, <4>1
      <4>2. CASE k \in 1 .. m
        <5>1. u[k] \in 1 .. (i - 1) /\ UsableHit(t, u[k])
          BY <2>2, <3>2, <4>2 DEF UsableSoFar
        <5>2. \A j \in 1 .. (i - 1) : j \in 1 .. i  OBVIOUS
        <5> QED  BY <3>4, <4>2, <5>1, <5>2
      <4>3. k = m + 1 \/ k \in 1 .. m  BY <3>2, <3>4
      <4> QED  BY <4>1, <4>2, <4>3
    <3> QED  BY <3>3, <3>6, <3>7 DEF UsableSoFar
  <2>5. UsableSoFar(u, t, i)
    <3>1. \A j \in 1 .. (i - 1) : j \in 1 .. i  OBVIOUS
    <3>2. u = <<>> \/ Len(u) + 2 <= i
      <4>1. PICK m \in Nat : m = Len(u)  BY DEF V
      <4> QED  BY <2>2, <4>1 DEF UsableSoFar
    <3> QED  BY <2>2, <3>1, <3>2 DEF UsableSoFar
  <2>6. UsableSoFar(Step(i, u), t, i)  BY <2>4, <2>5 DEF Step
  <2> QED  BY <2>1, <2>2, <2>3, <2>6
<1> HIDE DEF T
<1>11. \A i \in 0 .. N : i \in T  BY <1>1, <1>9, <1>10, InductionUpTo
<1>12. N \in T  BY <1>1, <1>11
<1> QED  BY <1>8, <1>12 DEF T, V, N

\* Two different values are more than one.
LEMMA TwoOf ==
  ASSUME NEW S, IsFiniteSet(S), NEW a \in S, NEW b \in S, a # b
  PROVE  Cardinality(S) \in Nat /\ Cardinality(S) > 1
<1>1. {a, b} \subseteq S  OBVIOUS
<1>2. Cardinality({a, b}) = 2
  <2>1. IsFiniteSet({a}) /\ Cardinality({a}) = 1  BY FS_Singleton
  <2>2. {a, b} = {a} \cup {b} /\ b \notin {a}  OBVIOUS
  <2> QED  BY <2>1, <2>2, FS_AddElement
<1>3. Cardinality({a, b}) <= Cardinality(S)  BY <1>1, FS_Subset
<1> QED  BY <1>2, <1>3, FS_CardinalityType

\* A kink is seen in a track of more than a few hits, on more than one channel
\* and at more than one time.
LEMMA KinkNeedsHits ==
  ASSUME NEW t \in Seq(TriggerPrimitive), check_kinks(t)
  PROVE  /\ Len(t) >= KinkMinimum + 4
         /\ \E a, b \in Range(t) : a.channel # b.channel
         /\ \E a, b \in Range(t) : a.time_start # b.time_start
<1>1. PICK u \in Seq(Nat) : u = usable_hits(t) /\ UsableSoFar(u, t, Len(t))
  BY UsableHits
<1>2. PICK g : g = gradients(t)  OBVIOUS
<1>3. DOMAIN g = DOMAIN u
  <2>1. DOMAIN gradients(t) = DOMAIN usable_hits(t)  BY Zenon DEF gradients
  <2> QED  BY <1>1, <1>2, <2>1
<1>4. PICK m \in Nat : m = Len(u) /\ DOMAIN u = 1 .. m  OBVIOUS
<1>5. Len(g) = m
  <2>1. DOMAIN g = 1 .. m  BY <1>3, <1>4
  <2> QED  BY <2>1
<1>6. m > KinkMinimum /\ m - 1 > KinkMinimum
  <2>1. Len(g) > KinkMinimum  BY <1>2 DEF check_kinks
  <2>2. PICK means : means = [k \in 1 .. (Len(g) - 1) |-> g[k] + g[k + 1]]  OBVIOUS
  <2>3. Len(means) > KinkMinimum  BY <1>2, <2>2 DEF check_kinks
  <2>4. m >= 1  BY <1>5, <2>1, MichelAssumption
  <2>5. Len(means) = m - 1  BY <1>5, <2>2, <2>4
  <2> QED  BY <1>5, <2>1, <2>3, <2>5
<1>7. m >= 1 /\ m >= KinkMinimum + 2  BY <1>6, MichelAssumption
<1>8. u # <<>>  BY <1>4, <1>7
<1>9. Len(t) >= KinkMinimum + 4
  <2>1. m + 2 <= Len(t)  BY <1>1, <1>4, <1>8 DEF UsableSoFar
  <2>2. PICK k : k = KinkMinimum  OBVIOUS
  <2>3. PICK l : l = Len(t)  OBVIOUS
  <2>4. k \in Nat  BY <2>2, MichelAssumption
  <2>5. l \in Nat  BY <2>3
  <2>6. m >= k + 2 /\ m + 2 <= l  BY <1>7, <2>1, <2>2, <2>3
  <2>7. l >= k + 4  BY <2>4, <2>5, <2>6
  <2> QED  BY <2>2, <2>3, <2>7
<1>10. PICK i \in 1 .. Len(t) : i = u[1] /\ UsableHit(t, i)
  <2>1. 1 \in DOMAIN u  BY <1>4, <1>7
  <2> QED  BY <1>1, <2>1 DEF UsableSoFar
<1>11. i > 2 /\ i - 2 \in 1 .. Len(t)  BY <1>10 DEF UsableHit
<1>12. PICK a \in TriggerPrimitive, b \in TriggerPrimitive :
         a = t[i] /\ b = t[i - 2] /\ a \in Range(t) /\ b \in Range(t)
  <2>1. i \in DOMAIN t /\ i - 2 \in DOMAIN t  BY <1>11
  <2> QED  BY <2>1 DEF Range
<1>13. a.channel - b.channel # 0 /\ a.time_start - b.time_start # 0
  BY <1>10, <1>12 DEF UsableHit
<1>14. a.channel \in Nat /\ b.channel \in Nat /\ a.time_start \in Nat /\ b.time_start \in Nat
  BY TPType, TPChannel
<1>15. a.channel # b.channel /\ a.time_start # b.time_start  BY <1>13, <1>14
<1> QED  BY <1>9, <1>12, <1>15

\* The longest track of a window is made of its TPs, and of no more than it has.
LEMMA LongestIsOfTheWindow ==
  ASSUME NEW w, w.inputs \in Seq(TriggerPrimitive)
  PROVE  /\ longest_activity(w) \in Seq(TriggerPrimitive)
         /\ Len(longest_activity(w)) <= Len(w.inputs)
         /\ Range(longest_activity(w)) \subseteq Range(w.inputs)
<1>1. PICK list \in Seq(TriggerPrimitive) :
        /\ list = by_channel(w.inputs) /\ Len(list) = Len(w.inputs)
        /\ Range(list) \subseteq Range(w.inputs)
  BY ByChannel
<1>2. PICK N \in Nat : N = Len(list) /\ DOMAIN list = 1 .. N  OBVIOUS
<1> DEFINE next(i) == next_in(list, i)
           gap(i) == wire_gap(list[i].channel, next(i).channel)
           track(i, v) == IF v.track = <<>> THEN <<list[i]>> ELSE v.track
           go_on(i, v) == [v EXCEPT !.track = Append(track(i, v), next(i))]
           stop(i, v) == [keep_longer(v, v.adj, track(i, v))
                            EXCEPT !.adj = 1, !.tol_count = 0, !.track = <<>>]
           Step(i, v) ==
             IF gap(i) = 0 THEN go_on(i, v)
             ELSE IF gap(i) = 1 THEN [go_on(i, v) EXCEPT !.adj = @ + 1]
             ELSE IF bridges(v, gap(i), m_config["adj_tolerance"])
             THEN [go_on(i, v) EXCEPT !.adj = @ + 1, !.tol_count = @ + gap(i)]
             ELSE stop(i, v)
           Nothing == [adj |-> 1, max |-> 0, tol_count |-> 0, track |-> <<>>, final |-> <<>>]
           Runs(g) == g = [i \in 0 .. N |-> IF i = 0 THEN Nothing ELSE Step(i, g[i - 1])]
           R == { l \in Seq(TriggerPrimitive) : Range(l) \subseteq Range(w.inputs) }
           V == [adj : Int, max : Int, tol_count : Int, track : R, final : R]
           Small(v, i) == Len(v.track) <= i + 1 /\ Len(v.final) <= i
<1>3. ASSUME NEW i \in 1 .. N
      PROVE  /\ list[i] \in TriggerPrimitive /\ list[i] \in Range(w.inputs)
             /\ next(i) \in TriggerPrimitive /\ next(i) \in Range(w.inputs)
  <2>1. ASSUME NEW j \in 1 .. N
        PROVE  list[j] \in TriggerPrimitive /\ list[j] \in Range(w.inputs)
    <3>1. j \in DOMAIN list  BY <1>2
    <3>2. list[j] \in Range(list)  BY <3>1 DEF Range
    <3> QED  BY <1>1, <3>1, <3>2
  <2>2. (i % N) + 1 \in 1 .. N  OBVIOUS
  <2>3. next(i) = list[(i % N) + 1]  BY <1>2 DEF next_in
  <2> QED  BY <2>1, <2>2, <2>3
<1>4. ASSUME NEW i \in 1 .. N PROVE gap(i) \in Int
  <2>1. list[i].channel \in Nat /\ next(i).channel \in Nat  BY <1>3, TPChannel
  <2>2. PICK a \in Nat, b \in Nat : a = list[i].channel /\ b = next(i).channel
    BY <2>1
  <2>3. wire_gap(a, b) \in Int  BY AdjacencyAssumption DEF wire_gap
  <2> QED  BY <2>2, <2>3
<1> HIDE DEF next, gap
<1>5. <<>> \in R /\ Len(<<>>) = 0  BY RangeOfNone
<1>6. ASSUME NEW l \in R, NEW i \in 1 .. N
      PROVE  Append(l, next(i)) \in R /\ Len(Append(l, next(i))) = Len(l) + 1
  <2>1. next(i) \in TriggerPrimitive /\ next(i) \in Range(w.inputs)  BY <1>3
  <2>2. Range(Append(l, next(i))) = Range(l) \cup {next(i)}  BY <2>1, RangeOfAppend
  <2> QED  BY <2>1, <2>2
<1>7. ASSUME NEW i \in 1 .. N PROVE <<list[i]>> \in R /\ Len(<<list[i]>>) = 1
  <2>1. list[i] \in TriggerPrimitive /\ list[i] \in Range(w.inputs)  BY <1>3
  <2>2. Range(<<list[i]>>) = {list[i]}  BY <2>1, RangeOfOne
  <2> QED  BY <2>1, <2>2
<1>8. \A l \in R : Len(l) \in Nat  OBVIOUS
<1> HIDE DEF R
<1>9. ASSUME NEW i \in 1 .. N, NEW v \in V
      PROVE  /\ track(i, v) \in R
             /\ Small(v, i - 1) => Len(track(i, v)) <= i
  <2>1. v.track \in R  OBVIOUS
  <2>2. CASE v.track = <<>>  BY <1>7, <2>2
  <2>3. CASE v.track # <<>>  BY <1>8, <2>1, <2>3
  <2> QED  BY <2>2, <2>3
<1>10. ASSUME NEW i \in 1 .. N, NEW v \in V
       PROVE  Step(i, v) \in V /\ (Small(v, i - 1) => Small(Step(i, v), i))
  <2>1. PICK l \in R : l = track(i, v) /\ (Small(v, i - 1) => Len(l) <= i)  BY <1>9
  <2>2. PICK m \in R : m = Append(l, next(i)) /\ Len(m) = Len(l) + 1  BY <1>6
  <2>3. PICK n \in Int : n = gap(i)  BY <1>4
  <2>4. /\ v.adj \in Int /\ v.max \in Int /\ v.tol_count \in Int
        /\ v.track \in R /\ v.final \in R
    OBVIOUS
  <2>5. go_on(i, v) = [v EXCEPT !.track = m]  BY <2>1, <2>2
  <2>6. Len(l) \in Nat /\ Len(m) \in Nat /\ Len(v.track) \in Nat /\ Len(v.final) \in Nat
    BY <1>8, <2>4
  <2>7. PICK a \in V : a = [v EXCEPT !.track = m] /\ (Small(v, i - 1) => Small(a, i))
    <3>1. PICK a : a = [v EXCEPT !.track = m]  OBVIOUS
    <3>2. a \in V /\ a.track = m /\ a.final = v.final  BY <2>4, <3>1
    <3>3. ASSUME Small(v, i - 1) PROVE Small(a, i)
      <4>1. Len(m) <= i + 1 /\ Len(v.final) <= i
        <5>1. PICK b \in Nat, c \in Nat, d \in Nat :
                b = Len(l) /\ c = Len(m) /\ d = Len(v.final)
          BY <2>6
        <5>2. b <= i /\ c = b + 1 /\ d <= i - 1  BY <2>1, <2>2, <3>3, <5>1
        <5>3. c <= i + 1 /\ d <= i  BY <5>2
        <5> QED  BY <5>1, <5>3
      <4> QED  BY <3>2, <4>1
    <3> QED  BY <3>1, <3>2, <3>3
  <2>8. /\ [a EXCEPT !.adj = @ + 1] \in V
        /\ [a EXCEPT !.adj = @ + 1, !.tol_count = @ + n] \in V
        /\ Small(a, i) => /\ Small([a EXCEPT !.adj = @ + 1], i)
                          /\ Small([a EXCEPT !.adj = @ + 1, !.tol_count = @ + n], i)
    <3>0. a.adj \in Int /\ a.tol_count \in Int  OBVIOUS
    <3>1. a.adj + 1 \in Int /\ a.tol_count + n \in Int  BY <2>3, <3>0
    <3>2. PICK b : b = [a EXCEPT !.adj = @ + 1]  OBVIOUS
    <3>3. b \in V /\ b.track = a.track /\ b.final = a.final /\ b.tol_count = a.tol_count
      BY <3>1, <3>2
    <3>4. [a EXCEPT !.adj = @ + 1, !.tol_count = @ + n] = [b EXCEPT !.tol_count = @ + n]
      BY <3>2
    <3>5. PICK c : c = [b EXCEPT !.tol_count = @ + n]  OBVIOUS
    <3>6. c \in V /\ c.track = a.track /\ c.final = a.final  BY <3>1, <3>3, <3>5
    <3> QED  BY <3>2, <3>3, <3>4, <3>5, <3>6
  <2>9. stop(i, v) \in V /\ (Small(v, i - 1) => Small(stop(i, v), i))
    <3>1. stop(i, v) = [keep_longer(v, v.adj, l) EXCEPT !.adj = 1, !.tol_count = 0, !.track = <<>>]
      BY <2>1
    <3>2. PICK u : u = keep_longer(v, v.adj, l)  OBVIOUS
    <3>3. u = [v EXCEPT !.final = l, !.max = v.adj] \/ u = v  BY <3>2 DEF keep_longer
    <3>4. u \in V /\ u.final \in {l, v.final}
      <4>1. CASE u = [v EXCEPT !.final = l, !.max = v.adj]  BY <2>4, <4>1
      <4> QED  BY <3>3, <4>1
    <3>5. stop(i, v) = [u EXCEPT !.adj = 1, !.tol_count = 0, !.track = <<>>]  BY <3>1, <3>2
    <3>6. stop(i, v) \in V /\ stop(i, v).track = <<>> /\ stop(i, v).final = u.final
      <4>1. PICK a1 \in Int, m1 \in Int, n1 \in Int, t1 \in R, f1 \in R :
              u = [adj |-> a1, max |-> m1, tol_count |-> n1, track |-> t1, final |-> f1]
        BY <3>4
      <4>2. PICK s : s = [u EXCEPT !.adj = 1, !.tol_count = 0, !.track = <<>>]  OBVIOUS
      <4>3. s = [adj |-> 1, max |-> m1, tol_count |-> 0, track |-> <<>>, final |-> f1]
        BY <4>1, <4>2
      <4>4. 0 \in Int /\ 1 \in Int  OBVIOUS
      <4>5. s \in V  BY <1>5, <4>3, <4>4
      <4>6. s.track = <<>> /\ s.final = u.final  BY <4>1, <4>3
      <4> HIDE DEF stop, V
      <4> QED  BY <3>5, <4>2, <4>5, <4>6
    <3>7. ASSUME Small(v, i - 1) PROVE Len(u.final) <= i
      <4>1. Len(l) <= i /\ Len(v.final) <= i  BY <2>1, <2>6, <3>7
      <4>2. u.final = l \/ u.final = v.final  BY <3>4
      <4> QED  BY <4>1, <4>2
    <3>8. 0 <= i + 1  OBVIOUS
    <3> QED  BY <1>5, <3>6, <3>7, <3>8
  <2> HIDE DEF stop, go_on, V, Small
  <2> QED  BY <2>3, <2>5, <2>7, <2>8, <2>9
<1>11. Nothing \in V /\ Nothing.track = <<>> /\ Nothing.final = <<>>
  BY <1>5
<1> HIDE DEF V, Nothing, Step
<1>12. PICK step : step = [i \in 1 .. N |-> [v \in V |-> Step(i, v)]]  OBVIOUS
<1>13. step \in [1 .. N -> [V -> V]]  BY <1>10, <1>12
<1>14. PICK g \in [0 .. N -> V] : g[0] = Nothing /\ \A i \in 1 .. N : g[i] = step[i][g[i - 1]]
  <2>1. LoopRuns(V, Nothing, N, step) # {}  BY <1>11, <1>13, LoopHasARun
  <2> QED  BY <2>1 DEF LoopRuns
<1>15. Runs(g)
  <2>1. ASSUME NEW i \in 1 .. N PROVE g[i] = Step(i, g[i - 1])
    <3>1. i - 1 \in 0 .. N /\ g[i - 1] \in V  OBVIOUS
    <3> QED  BY <1>12, <1>14, <3>1
  <2>2. \A i \in 0 .. N : i = 0 \/ i \in 1 .. N  OBVIOUS
  <2> QED  BY <1>14, <2>1, <2>2
<1>16. PICK f : Runs(f) /\ longest_activity(w) = f[N].final
  <2> DEFINE f == CHOOSE f : Runs(f)
  <2>1. longest_activity(w) = f[N].final
    BY <1>1, <1>2 DEF longest_activity, Step, Nothing, next, gap
  <2> HIDE DEF Runs
  <2>2. Runs(f)  BY <1>15
  <2> QED  BY <2>1, <2>2
<1> DEFINE T == { i \in 0 .. N : f[i] \in V /\ Small(f[i], i) }
<1>17. 0 \in T
  <2>1. 0 \in 0 .. N /\ f[0] = Nothing  BY <1>16
  <2>2. Small(Nothing, 0)  BY <1>5, <1>11
  <2> QED  BY <1>11, <2>1, <2>2
<1>18. ASSUME NEW i \in 1 .. N, i - 1 \in T PROVE i \in T
  <2>1. i \in 0 .. N /\ i # 0 /\ f[i] = Step(i, f[i - 1])  BY <1>16
  <2>2. PICK v \in V : v = f[i - 1] /\ Small(v, i - 1)  BY <1>18
  <2> HIDE DEF Small
  <2> QED  BY <1>10, <2>1, <2>2
<1> HIDE DEF T
<1>19. \A i \in 0 .. N : i \in T  BY <1>17, <1>18, InductionUpTo
<1>20. N \in 0 .. N  OBVIOUS
<1>21. PICK v \in V : v = f[N] /\ Small(v, N)  BY <1>19, <1>20 DEF T
<1>22. v.final \in R  BY <1>21 DEF V
<1> QED  BY <1>1, <1>2, <1>16, <1>21, <1>22 DEF R

\* A TA of MichelElectron has a kink in a track longer than the threshold.
LEMMA MichelElectronReasons ==
  ASSUME StepInv, MemberInv, ReasonInv, maker = "MichelElectron", maker \in Makers,
         ~ flushed, NEW tp \in NextTPsFor, receive_me(tp)
  PROVE  ReasonInv'
<1>1. /\ take(tp) /\ Inv /\ TAsSound /\ UNCHANGED <<maker, m_config>>
      /\ maker \in Sliding
  BY DEF receive_me, take, StepInv, MemberInv, Sliding
<1>2. CASE emit_michel(tp)
  <2>1. PICK w : w = m_current_window /\ w.inputs \in Seq(TriggerPrimitive)
    BY <1>1, SlidingHolds DEF StepInv
  <2>2. PICK ta, tps : ta = construct_ta_me(w) /\ tps = ta.inputs /\ tps = w.inputs
    <3>1. construct_ta_me(w).inputs = w.inputs  BY DEF construct_ta_me, ta_of
    <3> QED  BY <3>1
  <2>3. output_ta' = Append(output_ta, ta)  BY <1>2, <2>1, <2>2 DEF emit_michel
  <2>4. PICK t \in Seq(TriggerPrimitive) :
          /\ t = longest_activity(w) /\ Len(t) <= Len(tps) /\ Range(t) \subseteq Range(tps)
    BY <2>1, <2>2, LongestIsOfTheWindow
  <2>5. check_kinks(t) /\ Len(t) > m_config["adjacency_threshold"]
    BY <1>2, <2>1, <2>4 DEF emit_michel, long_track
  <2>6. /\ Len(t) >= KinkMinimum + 4
        /\ \E a, b \in Range(t) : a.channel # b.channel
        /\ \E a, b \in Range(t) : a.time_start # b.time_start
    BY <2>5, KinkNeedsHits
  <2>7. PICK m \in Nat, n \in Nat, th \in Nat :
          m = Len(t) /\ n = Len(tps) /\ th = m_config["adjacency_threshold"]
    <3>1. "adjacency_threshold" \in Members[maker] /\ "adjacency_threshold" \notin Switches
      BY DEF Members, Switches
    <3>2. m_config["adjacency_threshold"] \in Nat  BY <1>1, <3>1, MemberIsNat DEF Inv
    <3>3. Len(tps) \in Nat  BY <2>1, <2>2
    <3> QED  BY <3>2, <3>3
  <2>8. n >= KinkMinimum + 4 /\ n > th
    <3>1. m <= n /\ m > th /\ m >= KinkMinimum + 4  BY <2>4, <2>5, <2>6, <2>7
    <3> QED  BY <3>1, MichelAssumption
  <2>9. Cardinality(ChannelsOf(tps)) > 1
    <3>1. PICK a \in Range(tps), b \in Range(tps) : a.channel # b.channel  BY <2>4, <2>6
    <3>2. a.channel \in ChannelsOf(tps) /\ b.channel \in ChannelsOf(tps)
      BY DEF ChannelsOf, Range
    <3>3. IsFiniteSet(ChannelsOf(tps))  BY <2>1, <2>2, ChannelsType
    <3> QED  BY <3>1, <3>2, <3>3, TwoOf
  <2>10. Cardinality(TimesOf(tps)) > 1
    <3>1. PICK a \in Range(tps), b \in Range(tps) : a.time_start # b.time_start  BY <2>4, <2>6
    <3>2. a.time_start \in TimesOf(tps) /\ b.time_start \in TimesOf(tps)
      BY DEF TimesOf, Range
    <3>3. IsFiniteSet(TimesOf(tps))
      <4>1. PICK T : T = DOMAIN tps  OBVIOUS
      <4>2. IsFiniteSet(T)
        <5>1. T = 1 .. n  BY <2>1, <2>2, <2>7, <4>1
        <5> QED  BY <5>1, FS_Interval
      <4>3. PICK s : s = [i \in T |-> tps[i].time_start]  OBVIOUS
      <4>4. TimesOf(tps) = { s[i] : i \in T }  BY <4>1, <4>3 DEF TimesOf
      <4>5. s \in Surjection(T, TimesOf(tps))  BY <4>3, <4>4 DEF Surjection
      <4> QED  BY <4>2, <4>5, FS_Surjection
    <3> QED  BY <3>1, <3>2, <3>3, TwoOf
  <2>11. Justified(tps)'
    BY <1>1, <2>7, <2>8, <2>9, <2>10 DEF Justified
  <2>12. Reasoned(tps)'  BY <1>1, <2>11 DEF Reasoned
  <2> QED  BY <1>1, <2>2, <2>3, <2>12, OneNew
<1>3. CASE UNCHANGED output_ta  BY <1>1, <1>3, NothingNew
<1> QED
  BY <1>2, <1>3 DEF receive_me, me_first_tp, me_fill_window, ignore_tp, me_slide_window

-----------------------------------------------------------------------------
(* The planes of PlaneCoincidence *)

\* In the sorted list the channels do not fall.
LEMMA ByChannelSorted ==
  ASSUME NEW tps \in Seq(TriggerPrimitive), NEW j \in 1 .. Len(tps), NEW k \in 1 .. Len(tps),
         j < k
  PROVE  by_channel(tps)[j].channel <= by_channel(tps)[k].channel
<1> DEFINE place(n) == CHOOSE i \in DOMAIN tps : Cardinality(before(tps, i)) = n - 1
           s == [n \in DOMAIN tps |-> tps[place(n)]]
<1>1. PICK N \in Nat : N = Len(tps) /\ DOMAIN tps = 1 .. N  OBVIOUS
<1>2. ASSUME NEW n \in 1 .. N
      PROVE  place(n) \in 1 .. N /\ Cardinality(before(tps, place(n))) = n - 1
  <2>1. \E i \in DOMAIN tps : Cardinality(before(tps, i)) = n - 1
    BY <1>1, PlacesByChannel
  <2> QED  BY <1>1, <2>1
<1>3. by_channel(tps) = SubSeq(s, 1, Len(tps))  BY DEF by_channel
<1> HIDE DEF place
<1>4. \A n \in 1 .. N : s[n] = tps[place(n)]  BY <1>1
<1>5. s \in Seq(TriggerPrimitive) /\ Len(s) = N
  <2>1. \A n \in 1 .. N : s[n] \in TriggerPrimitive  BY <1>1, <1>2
  <2>2. s = [n \in 1 .. N |-> s[n]]  BY <1>1
  <2> HIDE DEF s
  <2>3. s \in [1 .. N -> TriggerPrimitive]  BY <2>1, <2>2
  <2> QED  BY <2>2, <2>3, SeqDef
<1> HIDE DEF s
<1>6. PICK list : list = by_channel(tps)  OBVIOUS
<1>7. \A n \in 1 .. N : list[n] = tps[place(n)]
  <2>1. list = SubSeq(s, 1, N)  BY <1>1, <1>3, <1>6
  <2> QED  BY <1>4, <1>5, <2>1
<1>8. PICK x \in 1 .. N, y \in 1 .. N : x = place(j) /\ y = place(k)  BY <1>1, <1>2
<1>9. Cardinality(before(tps, x)) = j - 1 /\ Cardinality(before(tps, y)) = k - 1
  BY <1>1, <1>2, <1>8
<1>10. PICK a \in Nat, b \in Nat : a = tps[x].channel /\ b = tps[y].channel
  BY <1>1, TPChannel
<1>11. ASSUME b < a PROVE FALSE
  <2>1. IsFiniteSet(before(tps, x))
    <3>1. before(tps, x) \subseteq 1 .. N  BY <1>1 DEF before
    <3>2. 1 \in Int /\ N \in Int  OBVIOUS
    <3>3. IsFiniteSet(1 .. N)  BY <3>2, FS_Interval
    <3> QED  BY <3>1, <3>3, FS_Subset
  <2>2. before(tps, y) \subseteq before(tps, x)
    <3>1. ASSUME NEW i \in before(tps, y) PROVE i \in before(tps, x)
      <4>1. /\ i \in DOMAIN tps
            /\ tps[i].channel < tps[y].channel \/ tps[i].channel = tps[y].channel
        BY DEF before
      <4>2. PICK c \in Nat : c = tps[i].channel
        <5>1. tps[i] \in TriggerPrimitive  BY <4>1
        <5> QED  BY <5>1, TPChannel
      <4>3. c < b \/ c = b  BY <1>10, <4>1, <4>2
      <4>4. c < a
        <5> HIDE <4>1
        <5>1. b < a  BY <1>11
        <5> QED  BY <4>3, <5>1
      <4>5. tps[i].channel < tps[x].channel  BY <1>10, <4>2, <4>4
      <4> QED  BY <4>1, <4>5 DEF before
    <3> QED  BY <3>1
  <2>3. Cardinality(before(tps, y)) <= Cardinality(before(tps, x))  BY <2>1, <2>2, FS_Subset
  <2> QED  BY <1>9, <2>3
<1>12. a <= b
  <2>1. a <= b \/ b < a  OBVIOUS
  <2> QED  BY <1>11, <2>1
<1> QED  BY <1>1, <1>6, <1>7, <1>8, <1>10, <1>12

\* The values a list has in its first n places.
Met(c, n) == { c[j] : j \in 1 .. n }

LEMMA MetCounted ==
  ASSUME NEW N \in Nat, NEW c \in [1 .. N -> Nat], NEW n \in 0 .. N
  PROVE  IsFiniteSet(Met(c, n)) /\ Cardinality(Met(c, n)) \in Nat
<1>1. PICK f : f = [j \in 1 .. n |-> c[j]]  OBVIOUS
<1>2. f \in Surjection(1 .. n, Met(c, n))  BY <1>1 DEF Surjection, Met
<1>3. 1 \in Int /\ n \in Int  OBVIOUS
<1>4. IsFiniteSet(1 .. n)  BY <1>3, FS_Interval
<1>5. IsFiniteSet(Met(c, n))  BY <1>2, <1>4, FS_Surjection
<1> QED  BY <1>5, FS_CardinalityType

\* In a sorted list a value that is not that of the place before is a new one.
LEMMA MetMore ==
  ASSUME NEW N \in Nat, NEW c \in [1 .. N -> Nat],
         \A j, k \in 1 .. N : j < k => c[j] <= c[k],
         NEW n \in 0 .. (N - 1)
  PROVE  /\ Cardinality(Met(c, n)) \in Nat /\ Cardinality(Met(c, n + 1)) \in Nat
         /\ Cardinality(Met(c, n)) <= Cardinality(Met(c, n + 1))
         /\ Cardinality(Met(c, n + 1)) >= 1
         /\ n >= 1 /\ c[n + 1] # c[n] =>
              Cardinality(Met(c, n + 1)) = Cardinality(Met(c, n)) + 1
<1>1. n \in 0 .. N /\ n + 1 \in 0 .. N /\ n + 1 \in 1 .. N  OBVIOUS
<1>2. PICK S, e : S = Met(c, n) /\ e = c[n + 1]  OBVIOUS
<1>3. IsFiniteSet(S) /\ Cardinality(S) \in Nat  BY <1>1, <1>2, MetCounted
<1>4. Met(c, n + 1) = S \cup {e}
  <2>1. 1 .. (n + 1) = (1 .. n) \cup {n + 1}  OBVIOUS
  <2> QED  BY <1>2, <2>1 DEF Met
<1>5. Cardinality(S \cup {e}) = IF e \in S THEN Cardinality(S) ELSE Cardinality(S) + 1
  BY <1>3, FS_AddElement
<1>6. Cardinality(S \cup {e}) >= 1
  <2>1. CASE e \in S
    <3>1. S # {}  BY <2>1
    <3>2. Cardinality(S) # 0  BY <1>3, <3>1, FS_EmptySet
    <3> QED  BY <1>3, <1>5, <3>2
  <2> QED  BY <1>3, <1>5, <2>1
<1>7. ASSUME n >= 1, c[n + 1] # c[n] PROVE e \notin S
  <2>1. n \in 1 .. N /\ n < n + 1  BY <1>7
  <2>2. c[n] < c[n + 1]
    <3>1. c[n] <= c[n + 1] /\ c[n] \in Nat /\ c[n + 1] \in Nat  BY <1>1, <2>1
    <3> QED  BY <1>7, <3>1
  <2>3. ASSUME NEW j \in 1 .. n PROVE c[j] # e
    <3>1. j \in 1 .. N /\ c[j] \in Nat /\ c[n] \in Nat /\ c[n + 1] \in Nat  BY <1>1, <2>1
    <3>2. c[j] <= c[n]
      <4>1. j = n \/ j < n  OBVIOUS
      <4> QED  BY <2>1, <3>1, <4>1
    <3> QED  BY <1>2, <2>2, <3>1, <3>2
  <2> QED  BY <1>2, <2>3 DEF Met
<1>8. PICK p \in Nat, q \in Nat :
        /\ p = Cardinality(S) /\ q = Cardinality(Met(c, n + 1))
        /\ q = p \/ q = p + 1
        /\ e \notin S => q = p + 1
        /\ q >= 1
  <2>1. Cardinality(S) + 1 \in Nat  BY <1>3
  <2> QED  BY <1>3, <1>4, <1>5, <1>6, <2>1
<1>9. p <= q  BY <1>8
<1> QED  BY <1>2, <1>7, <1>8, <1>9

\* A step of the track: not over the end of the list, and to another channel.
LEMMA GapIsAStep ==
  ASSUME NEW a \in Nat, NEW b \in Nat, wire_gap(a, b) \in 1 .. 5
  PROVE  a # b
<1>1. CASE b = 0
  <2>1. wire_gap(a, b) = ChannelModulus - 1  BY <1>1 DEF wire_gap
  <2> QED  BY <2>1, AdjacencyAssumption
<1>2. CASE b # 0 /\ a = b
  <2>1. wire_gap(a, b) = 0 % ChannelModulus  BY <1>2 DEF wire_gap
  <2>2. 0 % ChannelModulus = 0  BY AdjacencyAssumption, SmallMod
  <2> QED  BY <2>1, <2>2
<1> QED  BY <1>1, <1>2

\* The tracks seen so far are no longer than there are channels.
TracksFit(v, c, N, n) ==
  /\ v.max <= Cardinality(Met(c, n))
  /\ n < N => v.adj <= Cardinality(Met(c, n + 1))

LEMMA OneMoreHit ==
  ASSUME NEW N \in Nat, NEW c \in [1 .. N -> Nat],
         \A j, k \in 1 .. N : j < k => c[j] <= c[k],
         NEW n \in 1 .. N, NEW v \in [adj : Int, max : Int, tol_count : Int],
         TracksFit(v, c, N, n - 1), NEW gap \in Int, NEW tolerance,
         n < N /\ gap \in 1 .. 5 => c[n + 1] # c[n]
  PROVE  /\ iterate_pc(v, gap, tolerance) \in [adj : Int, max : Int, tol_count : Int]
         /\ TracksFit(iterate_pc(v, gap, tolerance), c, N, n)
<1>1. PICK V : V = [adj : Int, max : Int, tol_count : Int]  OBVIOUS
<1>2. v.adj \in Int /\ v.max \in Int /\ v.tol_count \in Int  OBVIOUS
<1>3. PICK k \in Nat : /\ k = Cardinality(Met(c, n)) /\ k >= 1
                       /\ Cardinality(Met(c, n - 1)) <= k
                       /\ Cardinality(Met(c, n - 1)) \in Nat
  <2>1. n - 1 \in 0 .. (N - 1) /\ (n - 1) + 1 = n  OBVIOUS
  <2>2. PICK b : b = n - 1  OBVIOUS
  <2>3. b \in 0 .. (N - 1) /\ b + 1 = n  BY <2>1, <2>2
  <2>4. /\ Cardinality(Met(c, b)) \in Nat /\ Cardinality(Met(c, b + 1)) \in Nat
        /\ Cardinality(Met(c, b)) <= Cardinality(Met(c, b + 1))
        /\ Cardinality(Met(c, b + 1)) >= 1
    BY <2>3, MetMore
  <2> QED  BY <2>2, <2>3, <2>4
<1>4. v.adj <= k /\ v.max <= k
  <2>1. n - 1 < N /\ (n - 1) + 1 = n  OBVIOUS
  <2> QED  BY <1>2, <1>3, <2>1 DEF TracksFit
<1>5. ASSUME n < N
      PROVE  /\ 1 <= Cardinality(Met(c, n + 1)) /\ v.adj <= Cardinality(Met(c, n + 1))
             /\ gap \in 1 .. 5 => v.adj + 1 <= Cardinality(Met(c, n + 1))
  <2>1. n \in 0 .. (N - 1) /\ n >= 1  BY <1>5
  <2>2. PICK m \in Nat, a \in Int : m = Cardinality(Met(c, n + 1)) /\ a = v.adj
    BY <1>2, <2>1, MetMore
  <2>3. k <= m /\ (gap \in 1 .. 5 => m = k + 1)  BY <1>3, <1>5, <2>1, <2>2, MetMore
  <2>4. a <= k  BY <1>4, <2>2
  <2>5. k <= m /\ k >= 1  BY <1>3, <2>3
  <2>6. 1 <= m /\ a <= m  BY <2>4, <2>5
  <2>7. gap \in 1 .. 5 => a + 1 <= m  BY <2>3, <2>4
  <2> QED  BY <2>2, <2>6, <2>7
<1>6. PICK u : u = iterate_pc(v, gap, tolerance)  OBVIOUS
<1>7. CASE u = v
  <2>1. ASSUME n < N PROVE v.adj <= Cardinality(Met(c, n + 1))
    BY <1>5, <2>1
  <2> QED  BY <1>3, <1>4, <1>6, <1>7, <2>1 DEF TracksFit
<1>8. CASE /\ u \in V /\ u.adj = v.adj + 1 /\ u.max = v.max /\ gap \in 1 .. 5
  <2>1. ASSUME n < N PROVE v.adj + 1 <= Cardinality(Met(c, n + 1))
    BY <1>5, <1>8, <2>1
  <2> QED  BY <1>1, <1>3, <1>4, <1>6, <1>8, <2>1 DEF TracksFit
<1>9. CASE u = restart(v)
  <2>1. u.adj = 1 /\ u.max \in {v.adj, v.max} /\ u \in V
    BY <1>1, <1>2, <1>9 DEF restart
  <2>2. ASSUME n < N PROVE 1 <= Cardinality(Met(c, n + 1))
    BY <1>5, <2>2
  <2> QED  BY <1>1, <1>3, <1>4, <1>6, <2>1, <2>2 DEF TracksFit
<1>10. \/ u = v
       \/ u \in V /\ u.adj = v.adj + 1 /\ u.max = v.max /\ gap \in 1 .. 5
       \/ u = restart(v)
  <2>1. CASE gap \in 4 .. 5  BY <1>6, <2>1 DEF iterate_pc
  <2>2. CASE gap \notin 4 .. 5
    <3>1. u = iterate(v, gap, tolerance)  BY <1>6, <2>2 DEF iterate_pc
    <3>2. CASE gap = 0  BY <3>1, <3>2 DEF iterate, bridges
    <3>3. CASE gap = 1
      <4>1. u = [v EXCEPT !.adj = @ + 1]  BY <3>1, <3>3 DEF iterate, bridges
      <4>2. v.adj + 1 \in Int  BY <1>2
      <4> QED  BY <1>1, <3>3, <4>1, <4>2
    <3>4. CASE gap \notin {0, 1} /\ bridges(v, gap, tolerance)
      <4>1. u = [v EXCEPT !.adj = @ + 1, !.tol_count = @ + gap]  BY <3>1, <3>4 DEF iterate
      <4>2. v.adj + 1 \in Int /\ v.tol_count + gap \in Int /\ gap \in 1 .. 5
        BY <1>2, <3>4 DEF bridges
      <4>3. PICK x : x = [v EXCEPT !.adj = @ + 1]  OBVIOUS
      <4>4. x \in V /\ x.adj = v.adj + 1 /\ x.max = v.max /\ x.tol_count = v.tol_count
        BY <1>1, <4>2, <4>3
      <4>5. u = [x EXCEPT !.tol_count = @ + gap]  BY <4>1, <4>3
      <4> QED  BY <1>1, <4>2, <4>4, <4>5
    <3>5. CASE gap \notin {0, 1} /\ ~ bridges(v, gap, tolerance)
      BY <3>1, <3>5 DEF iterate
    <3> QED  BY <3>2, <3>3, <3>4, <3>5
  <2> QED  BY <2>1, <2>2
<1> QED  BY <1>7, <1>8, <1>9, <1>10

\* The longest track of a window has no more hits than it has channels.
LEMMA TrackFitsChannels ==
  ASSUME NEW w, w.inputs \in Seq(TriggerPrimitive)
  PROVE  /\ check_adjacency_pc(w) \in Int
         /\ check_adjacency_pc(w) <= Cardinality(ChannelsOf(w.inputs))
<1>1. PICK list \in Seq(TriggerPrimitive) :
        /\ list = by_channel(w.inputs) /\ Len(list) = Len(w.inputs)
        /\ Range(list) \subseteq Range(w.inputs)
        /\ \A j, k \in 1 .. Len(list) : j < k => list[j].channel <= list[k].channel
  <2>1. PICK list \in Seq(TriggerPrimitive) :
          /\ list = by_channel(w.inputs) /\ Len(list) = Len(w.inputs)
          /\ Range(list) \subseteq Range(w.inputs)
    BY ByChannel
  <2>2. ASSUME NEW j \in 1 .. Len(list), NEW k \in 1 .. Len(list), j < k
        PROVE  list[j].channel <= list[k].channel
    BY <2>1, <2>2, ByChannelSorted
  <2> QED  BY <2>1, <2>2
<1>2. PICK N \in Nat : N = Len(list) /\ DOMAIN list = 1 .. N  OBVIOUS
<1>3. PICK c \in [1 .. N -> Nat] : c = ChannelList(list) /\ \A j \in 1 .. N : c[j] = list[j].channel
  <2>1. \A j \in 1 .. N : list[j].channel \in Nat
    <3>1. \A j \in 1 .. N : list[j] \in TriggerPrimitive  BY <1>2
    <3> QED  BY <3>1, TPChannel
  <2>2. PICK c : c = [i \in 1 .. N |-> list[i].channel]  OBVIOUS
  <2>3. c \in [1 .. N -> Nat]  BY <2>1, <2>2
  <2>4. c = ChannelList(list)  BY <1>2, <2>2 DEF ChannelList
  <2> QED  BY <2>2, <2>3, <2>4
<1>4. Len(c) = N  BY <1>3
<1>5. \A j, k \in 1 .. N : j < k => c[j] <= c[k]  BY <1>1, <1>2, <1>3
<1> DEFINE gap(i) == wire_gap(c[i], next_in(c, i))
           Step(i, v) == iterate_pc(v, gap(i), m_config["adj_tolerance"])
           Runs(g) == g = [i \in 0 .. N |-> IF i = 0 THEN Start ELSE Step(i, g[i - 1])]
           V == [adj : Int, max : Int, tol_count : Int]
<1>6. ASSUME NEW i \in 1 .. N
      PROVE  /\ gap(i) \in Int
             /\ i < N /\ gap(i) \in 1 .. 5 => c[i + 1] # c[i]
  <2>1. (i % N) + 1 \in 1 .. N  OBVIOUS
  <2>2. PICK a \in Nat, b \in Nat : a = c[i] /\ b = next_in(c, i)
    BY <1>4, <2>1 DEF next_in
  <2>3. gap(i) \in Int
    <3>1. wire_gap(a, b) \in Int  BY AdjacencyAssumption DEF wire_gap
    <3> QED  BY <2>2, <3>1
  <2>4. ASSUME i < N, gap(i) \in 1 .. 5 PROVE c[i + 1] # c[i]
    <3>1. i \in Nat /\ i % N = i  BY <2>4, SmallMod
    <3>2. b = c[i + 1]  BY <1>4, <2>2, <3>1 DEF next_in
    <3>3. a # b  BY <2>2, <2>4, GapIsAStep
    <3> QED  BY <2>2, <3>2, <3>3
  <2> QED  BY <2>3, <2>4
<1> HIDE DEF gap
<1>7. ASSUME NEW i \in 1 .. N, NEW v \in V PROVE Step(i, v) \in V
  <2>1. PICK x \in Int : x = gap(i)  BY <1>6
  <2>2. v.adj \in Int /\ v.max \in Int /\ v.tol_count \in Int  OBVIOUS
  <2>3. PICK u : u = Step(i, v)  OBVIOUS
  <2>4. restart(v) \in V  BY <2>2 DEF restart
  <2>5. [v EXCEPT !.adj = @ + 1] \in V
    <3>1. v.adj + 1 \in Int  BY <2>2
    <3> QED  BY <3>1
  <2>6. [v EXCEPT !.adj = @ + 1, !.tol_count = @ + x] \in V
    <3>1. v.adj + 1 \in Int /\ v.tol_count + x \in Int  BY <2>2
    <3>2. PICK y : y = [v EXCEPT !.adj = @ + 1]  OBVIOUS
    <3>3. y \in V /\ y.tol_count = v.tol_count  BY <2>5, <3>2
    <3>4. [v EXCEPT !.adj = @ + 1, !.tol_count = @ + x] = [y EXCEPT !.tol_count = @ + x]
      BY <3>2
    <3> QED  BY <3>1, <3>3, <3>4
  <2> HIDE DEF V
  <2> QED  BY <2>1, <2>4, <2>5, <2>6 DEF iterate_pc, iterate, bridges
<1>8. Start \in V  BY DEF Start
<1> HIDE DEF V, Step
<1>9. PICK step : step = [i \in 1 .. N |-> [v \in V |-> Step(i, v)]]  OBVIOUS
<1>10. step \in [1 .. N -> [V -> V]]  BY <1>7, <1>9
<1>11. PICK g \in [0 .. N -> V] : g[0] = Start /\ \A i \in 1 .. N : g[i] = step[i][g[i - 1]]
  <2>1. LoopRuns(V, Start, N, step) # {}  BY <1>8, <1>10, LoopHasARun
  <2> QED  BY <2>1 DEF LoopRuns
<1>12. Runs(g)
  <2>1. ASSUME NEW i \in 1 .. N PROVE g[i] = Step(i, g[i - 1])
    <3>1. i - 1 \in 0 .. N /\ g[i - 1] \in V  OBVIOUS
    <3> QED  BY <1>9, <1>11, <3>1
  <2>2. \A i \in 0 .. N : i = 0 \/ i \in 1 .. N  OBVIOUS
  <2> QED  BY <1>11, <2>1, <2>2
<1>13. PICK f : Runs(f) /\ check_adjacency_pc(w) = f[N].max
  <2> DEFINE f == CHOOSE f : Runs(f)
  <2>1. check_adjacency_pc(w) = f[N].max
    BY <1>1, <1>3, <1>4 DEF check_adjacency_pc, Step, gap
  <2> HIDE DEF Runs
  <2>2. Runs(f)  BY <1>12
  <2> QED  BY <2>1, <2>2
<1> DEFINE T == { i \in 0 .. N : f[i] \in V /\ TracksFit(f[i], c, N, i) }
<1>14. 0 \in T
  <2>1. 0 \in 0 .. N /\ f[0] = Start  BY <1>13
  <2>2. TracksFit(Start, c, N, 0)
    <3>1. Cardinality(Met(c, 0)) \in Nat
      <4>1. 0 \in 0 .. N  OBVIOUS
      <4> QED  BY <4>1, MetCounted
    <3>2. ASSUME 0 < N PROVE 1 <= Cardinality(Met(c, 0 + 1))
      <4>1. 0 \in 0 .. (N - 1)  BY <3>2
      <4> QED  BY <1>5, <4>1, MetMore
    <3> QED  BY <3>1, <3>2 DEF TracksFit, Start
  <2> QED  BY <1>8, <2>1, <2>2
<1>15. ASSUME NEW i \in 1 .. N, i - 1 \in T PROVE i \in T
  <2>1. i \in 0 .. N /\ i # 0 /\ f[i] = Step(i, f[i - 1])  BY <1>13
  <2>2. PICK v \in V : v = f[i - 1] /\ TracksFit(v, c, N, i - 1)  BY <1>15
  <2>3. v \in [adj : Int, max : Int, tol_count : Int]  BY DEF V
  <2>4. TracksFit(Step(i, v), c, N, i)
    BY <1>5, <1>6, <2>2, <2>3, OneMoreHit DEF Step
  <2> QED  BY <1>7, <2>1, <2>2, <2>4
<1> HIDE DEF T
<1>16. \A i \in 0 .. N : i \in T  BY <1>14, <1>15, InductionUpTo
<1>17. N \in 0 .. N  OBVIOUS
<1>18. PICK v \in V : v = f[N] /\ TracksFit(v, c, N, N)  BY <1>16, <1>17 DEF T
<1>19. v.max \in Int /\ v.max <= Cardinality(Met(c, N))  BY <1>18 DEF TracksFit, V
<1>20. Cardinality(Met(c, N)) <= Cardinality(ChannelsOf(w.inputs))
       /\ Cardinality(Met(c, N)) \in Nat /\ Cardinality(ChannelsOf(w.inputs)) \in Nat
  <2>1. Met(c, N) \subseteq ChannelsOf(w.inputs)
    <3>1. ASSUME NEW j \in 1 .. N PROVE c[j] \in ChannelsOf(w.inputs)
      <4>1. list[j] \in Range(list)  BY <1>2 DEF Range
      <4>2. PICK i \in DOMAIN w.inputs : w.inputs[i] = list[j]  BY <1>1, <4>1 DEF Range
      <4> QED  BY <1>3, <4>2 DEF ChannelsOf
    <3> QED  BY <3>1 DEF Met
  <2>2. IsFiniteSet(ChannelsOf(w.inputs)) /\ Cardinality(ChannelsOf(w.inputs)) \in Nat
    BY ChannelsType
  <2> QED  BY <1>17, <2>1, <2>2, FS_Subset, MetCounted
<1>21. PICK a \in Int, b \in Nat, d \in Nat :
         a = v.max /\ b = Cardinality(Met(c, N)) /\ d = Cardinality(ChannelsOf(w.inputs))
  BY <1>19, <1>20
<1>22. a <= b /\ b <= d  BY <1>19, <1>20, <1>21
<1>23. a <= d  BY <1>22
<1> QED  BY <1>13, <1>18, <1>21, <1>23

\* The windows of PlaneCoincidence hold TPs of their own plane, and a TP of an
\* induction plane at most twice: added when it came and moved in once more.
OfPlane(w, p) == \A e \in Range(w.inputs) : PlaneOf[e.channel] = p

WhyPC ==
  maker = "PlaneCoincidence" =>
    /\ \A p \in Planes : OfPlane(m_plane_windows[p], p)
    /\ TotalAdc(m_plane_windows["U"].inputs) + TotalAdc(m_plane_windows["Y"].inputs)
         <= 2 * TotalAdc(OfInduction(received))

\* What a call makes of the window of a plane, that takes the TP at most n times.
PlaneGrows(u, w, p, tp, n) ==
  /\ u.inputs \in Seq(TriggerPrimitive)
  /\ OfPlane(w, p) => OfPlane(u, p)
  /\ TotalAdc(u.inputs) <= TotalAdc(w.inputs) + n * tp.adc_integral

\* Each of the ways a window is changed adds the TP at most once.
LEMMA PlaneTakes ==
  ASSUME NEW w, w.inputs \in Seq(TriggerPrimitive), NEW tp \in TriggerPrimitive,
         NEW p, PlaneOf[tp.channel] = p, NEW length,
         NEW u, u \in {reset(w, tp), add(w, tp), move(w, tp, length)}
  PROVE  PlaneGrows(u, w, p, tp, 1)
<1>1. PICK S, list : S = TriggerPrimitive /\ list = w.inputs /\ list \in Seq(S)  OBVIOUS
<1>2. \A e \in S : e.adc_integral \in Nat  BY <1>1, TPType
<1>3. PICK a \in Nat, t \in Nat : a = tp.adc_integral /\ t = TotalAdc(list)
  BY <1>1, <1>2, ChargeType
<1>4. tp \in S /\ <<tp>> \in Seq(S) /\ Append(list, tp) \in Seq(S)  BY <1>1
<1>5. CASE u.inputs = <<tp>>
  <2>1. TotalAdc(u.inputs) = a  BY <1>2, <1>3, <1>4, <1>5, TotalAdcOne
  <2>2. Range(u.inputs) = {tp}  BY <1>5, RangeOfOne
  <2>3. a <= t + 1 * a  BY <1>3
  <2> QED  BY <1>1, <1>3, <1>4, <1>5, <2>1, <2>2, <2>3 DEF PlaneGrows, OfPlane
<1>6. CASE u.inputs = Append(list, tp)
  <2>1. TotalAdc(u.inputs) = t + a  BY <1>2, <1>3, <1>4, <1>6, TotalAdcAppend
  <2>2. Range(u.inputs) = Range(list) \cup {tp}  BY <1>4, <1>6, RangeOfAppend
  <2>3. t + a <= t + 1 * a  BY <1>3
  <2> QED  BY <1>1, <1>3, <1>4, <1>6, <2>1, <2>2, <2>3 DEF PlaneGrows, OfPlane
<1>7. PICK n : n = n_to_erase(list, tp.time_start, length)  OBVIOUS
<1>8. CASE u = move(w, tp, length) /\ n < Len(list)
  <2>1. n \in Nat
    <3>1. Len(list) \in Nat  BY <1>1
    <3>2. n \in 0 .. Len(list)  BY <1>7, <3>1, NToErase
    <3> QED  BY <3>2
  <2>2. PICK kept : kept = SubSeq(list, n + 1, Len(list))  OBVIOUS
  <2>3. u.inputs = Append(kept, tp)
    BY <1>1, <1>7, <1>8, <2>2 DEF move, add, erase_front
  <2>4. kept \in Seq(S)  BY <1>1, <1>8, <2>1, <2>2
  <2>5. n \in 0 .. Len(list)  BY <1>8, <2>1
  <2>6. TotalAdc(list) = TotalAdc(SubSeq(list, 1, n)) + TotalAdc(kept)
    BY <1>1, <1>2, <2>2, <2>5, TotalAdcSplit
  <2>7. PICK front : front = SubSeq(list, 1, n)  OBVIOUS
  <2>8. front \in Seq(S)  BY <1>1, <2>5, <2>7
  <2>9. PICK x \in Nat, y \in Nat : x = TotalAdc(front) /\ y = TotalAdc(kept)
    BY <1>1, <2>4, <2>8, ChargeType
  <2>10. TotalAdc(u.inputs) = y + a
    BY <1>2, <1>3, <1>4, <2>3, <2>4, <2>9, TotalAdcAppend
  <2>11. t = x + y  BY <1>3, <2>6, <2>7, <2>9
  <2>12. y + a <= t + 1 * a  BY <2>11
  <2>13. Range(u.inputs) \subseteq Range(list) \cup {tp}
    BY <1>1, <1>8, MoveTakes
  <2>14. u.inputs \in Seq(S)  BY <1>4, <2>3, <2>4
  <2> QED  BY <1>1, <1>3, <2>10, <2>12, <2>13, <2>14 DEF PlaneGrows, OfPlane
<1>9. \/ u.inputs = <<tp>> \/ u.inputs = Append(list, tp)
      \/ u = move(w, tp, length) /\ n < Len(list)
  BY <1>1, <1>7 DEF reset, add, move
<1> QED  BY <1>5, <1>6, <1>8, <1>9

LEMMA PlaneStays ==
  ASSUME NEW w, w.inputs \in Seq(TriggerPrimitive), NEW tp \in TriggerPrimitive, NEW p
  PROVE  /\ PlaneGrows(w, w, p, tp, 0) /\ PlaneGrows(w, w, p, tp, 1)
         /\ PlaneGrows(EmptyWindow, w, p, tp, 0)
<1>1. PICK a \in Nat, t \in Nat : a = tp.adc_integral /\ t = TotalAdc(w.inputs)
  BY TPType, ChargeType
<1>2. t <= t + 0 * a /\ t <= t + 1 * a /\ 0 <= t + 0 * a  BY <1>1
<1>3. EmptyWindow.inputs = <<>>  BY DEF EmptyWindow
<1>4. <<>> \in Seq(TriggerPrimitive)  OBVIOUS
<1> QED  BY <1>1, <1>2, <1>3, <1>4, TotalAdcEmpty, RangeOfNone DEF PlaneGrows, OfPlane

LEMMA PlaneGrowsOn ==
  ASSUME NEW w, w.inputs \in Seq(TriggerPrimitive), NEW tp \in TriggerPrimitive, NEW p,
         NEW u, NEW v, NEW m \in Nat, NEW n \in Nat,
         PlaneGrows(u, w, p, tp, m), PlaneGrows(v, u, p, tp, n)
  PROVE  PlaneGrows(v, w, p, tp, m + n)
<1>1. PICK a \in Nat, t \in Nat : a = tp.adc_integral /\ t = TotalAdc(w.inputs)
  BY TPType, ChargeType
<1>2. PICK x \in Nat, y \in Nat : x = TotalAdc(u.inputs) /\ y = TotalAdc(v.inputs)
  BY ChargeType DEF PlaneGrows
<1>3. x <= t + m * a /\ y <= x + n * a  BY <1>1, <1>2 DEF PlaneGrows
<1>4. y <= (t + m * a) + n * a
  <2>1. PICK q \in Nat, r \in Nat : q = m * a /\ r = n * a  OBVIOUS
  <2> QED  BY <1>3, <2>1
<1>5. m * a + n * a = (m + n) * a  OBVIOUS
<1>6. y <= t + (m + n) * a
  <2>1. PICK q \in Nat, r \in Nat : q = m * a /\ r = n * a  OBVIOUS
  <2> QED  BY <1>4, <1>5, <2>1
<1> QED  BY <1>1, <1>2, <1>6 DEF PlaneGrows

\* A sum that may have wrapped is no larger than it was.
LEMMA ModAtMost ==
  ASSUME NEW x \in Nat, NEW y \in Nat \ {0}
  PROVE  x % y \in Nat /\ x % y <= x
<1>1. x % y \in 0 .. y - 1  OBVIOUS
<1>2. CASE x < y  BY <1>2, SmallMod
<1>3. CASE ~ (x < y)  BY <1>1, <1>3
<1> QED  BY <1>2, <1>3

\* What the charge of the windows together says, that of their TPs says.
LEMMA OverTogether ==
  ASSUME NEW u, NEW y, NEW z, Charged(u), Charged(y), Charged(z), NEW th \in Nat,
         (u.adc_integral + y.adc_integral + z.adc_integral) % AdcModulus > th
  PROVE  TotalAdc(u.inputs) + TotalAdc(y.inputs) + TotalAdc(z.inputs) > th
<1>1. PICK M \in Nat \ {0} : M = AdcModulus  BY TPWindowAssumption
<1>2. PICK a \in Nat, b \in Nat, c \in Nat :
        a = TotalAdc(u.inputs) /\ b = TotalAdc(y.inputs) /\ c = TotalAdc(z.inputs)
  BY ChargeType DEF Charged, IsWindow
<1>3. u.adc_integral = a % M /\ y.adc_integral = b % M /\ z.adc_integral = c % M
  BY <1>1, <1>2 DEF Charged, ChargeAgrees
<1>4. PICK p \in Nat, q \in Nat, r \in Nat :
        p = a % M /\ q = b % M /\ r = c % M /\ p <= a /\ q <= b /\ r <= c
  BY <1>2, ModAtMost
<1>5. PICK s \in Nat : s = p + q + r  OBVIOUS
<1>6. s % M > th  BY <1>1, <1>3, <1>4, <1>5
<1>7. s % M \in Nat /\ s % M <= s  BY ModAtMost
<1>8. PICK v \in Nat : v = s % M  BY <1>7
<1>9. v > th /\ v <= s  BY <1>6, <1>7, <1>8
<1>10. a + b + c > th  BY <1>4, <1>5, <1>9
<1> QED  BY <1>2, <1>10

\* A TA of PlaneCoincidence is of collection TPs, and all that the three windows
\* held is over the threshold.
LEMMA PlaneCoincidenceReasons ==
  ASSUME StepInv, Inv', MemberInv, ReasonInv, WhyPC, maker = "PlaneCoincidence",
         maker \in Makers, ~ flushed, NEW tp \in NextTPsFor, receive_pc(tp)
  PROVE  ReasonInv' /\ WhyPC'
<1>1. /\ take(tp) /\ Inv /\ TAsSound /\ tp \in TriggerPrimitive
      /\ received \in Seq(TriggerPrimitive)
      /\ UNCHANGED <<maker, m_config, flushed>> /\ received' = Append(received, tp)
  BY NextTPNumbered DEF receive_pc, take, StepInv, MemberInv
<1>2. PICK old, new, ws, plane, length :
        /\ old = m_plane_windows /\ new = m_plane_windows'
        /\ ws = windows_with(tp) /\ plane = PlaneOf[tp.channel] /\ length = Length
  OBVIOUS
<1>3. PICK a \in Nat, i \in Nat, b \in Nat :
        /\ a = tp.adc_integral /\ i = TotalAdc(OfInduction(received))
        /\ b = (IF plane \in {"U", "Y"} THEN a ELSE 0)
        /\ TotalAdc(OfInduction(received)') = i + b
  <2>1. tp.adc_integral \in Nat  BY <1>1, TPType
  <2>2. InductionAdc[tp] = IF plane \in {"U", "Y"} THEN tp.adc_integral ELSE 0
    BY <1>1, <1>2, InductionAdcType
  <2>3. OfInduction(received)' = OfInduction(received')  BY DEF OfInduction
  <2>4. /\ TotalAdc(OfInduction(received)) \in Nat
        /\ TotalAdc(OfInduction(received')) = TotalAdc(OfInduction(received)) + InductionAdc[tp]
    BY <1>1, OfInductionAppend
  <2> QED  BY <2>1, <2>2, <2>3, <2>4
<1>4. /\ DOMAIN old = Planes /\ old = [p \in Planes |-> old[p]]
      /\ \A p \in Planes : Charged(old[p]) /\ old[p].inputs \in Seq(TriggerPrimitive)
  BY <1>2, KeptParts DEF MemberInv, WindowsSound, Sound
<1>5. \A p \in Planes : OfPlane(old[p], p)  BY <1>2 DEF WhyPC
<1>6. ws = IF plane \in Planes /\ fits_window(tp, old[plane])
           THEN [old EXCEPT ![plane] = add(old[plane], tp)] ELSE old
  BY <1>2 DEF windows_with
<1>7. \A p \in Planes : PlaneGrows(ws[p], old[p], p, tp, IF p = plane THEN 1 ELSE 0)
  <2>1. SUFFICES ASSUME NEW p \in Planes
                 PROVE  PlaneGrows(ws[p], old[p], p, tp, IF p = plane THEN 1 ELSE 0)
    OBVIOUS
  <2>2. CASE p # plane  BY <1>1, <1>4, <1>6, <2>2, PlaneStays
  <2>3. CASE p = plane
    <3>1. ws[p] = old[p] \/ ws[p] = add(old[p], tp)  BY <1>4, <1>6, <2>3
    <3>2. PICK u, w : u = ws[p] /\ w = old[p]  OBVIOUS
    <3>3. w.inputs \in Seq(TriggerPrimitive)  BY <1>4, <3>2
    <3>4. PlaneOf[tp.channel] = p /\ (u = w \/ u = add(w, tp))  BY <1>2, <2>3, <3>1, <3>2
    <3>5. PlaneGrows(u, w, p, tp, 1)  BY <1>1, <3>3, <3>4, PlaneStays, PlaneTakes
    <3> QED  BY <2>3, <3>2, <3>5
  <2> QED  BY <2>2, <2>3
<1>8. DOMAIN ws = Planes  BY <1>4, <1>6
<1>9. \A p \in Planes : PlaneGrows(new[p], old[p], p, tp, IF p = plane THEN 2 ELSE 0)
  <2>1. SUFFICES ASSUME NEW p \in Planes
                 PROVE  PlaneGrows(new[p], old[p], p, tp, IF p = plane THEN 2 ELSE 0)
    OBVIOUS
  <2>2. PICK w, u, v : w = old[p] /\ u = ws[p] /\ v = new[p]  OBVIOUS
  <2>3. w.inputs \in Seq(TriggerPrimitive)  BY <1>4, <2>2
  <2>4. CASE p # plane
    <3>1. v = w \/ v = u \/ v = EmptyWindow
      BY <1>2, <1>4, <1>8, <2>2, <2>4
         DEF receive_pc, first_in_plane, wait_for_collection, emit_collection, slide_plane, clear
    <3>2. PlaneGrows(u, w, p, tp, 0)  BY <1>7, <2>2, <2>4
    <3> QED  BY <1>1, <2>2, <2>3, <2>4, <3>1, <3>2, PlaneStays
  <2>5. CASE p = plane
    <3>1. v = reset(w, tp) \/ v = u \/ v = move(u, tp, length)
      BY <1>2, <1>4, <1>8, <2>2, <2>5
         DEF receive_pc, first_in_plane, wait_for_collection, emit_collection, slide_plane, Length
    <3>2. PlaneGrows(u, w, p, tp, 1)  BY <1>7, <2>2, <2>5
    <3>3. u.inputs \in Seq(TriggerPrimitive)  BY <3>2 DEF PlaneGrows
    <3>4. PlaneOf[tp.channel] = p  BY <1>2, <2>5
    <3>5. 1 \in Nat /\ 1 + 1 = 2  OBVIOUS
    <3>6. CASE v = reset(w, tp)
      <4>1. PlaneGrows(v, w, p, tp, 1)  BY <1>1, <2>3, <3>4, <3>6, PlaneTakes
      <4>2. PlaneGrows(w, w, p, tp, 1)  BY <1>1, <2>3, PlaneStays
      <4>3. PlaneGrows(v, w, p, tp, 1 + 1)  BY <1>1, <2>3, <3>5, <4>1, <4>2, PlaneGrowsOn
      <4> QED  BY <2>2, <2>5, <3>5, <4>3
    <3>7. CASE v = u \/ v = move(u, tp, length)
      <4>1. PlaneGrows(v, u, p, tp, 1)  BY <1>1, <3>3, <3>4, <3>7, PlaneStays, PlaneTakes
      <4>2. PlaneGrows(v, w, p, tp, 1 + 1)  BY <1>1, <2>3, <3>2, <3>5, <4>1, PlaneGrowsOn
      <4> QED  BY <2>2, <2>5, <3>5, <4>2
    <3> QED  BY <3>1, <3>6, <3>7
  <2> QED  BY <2>4, <2>5
<1>10. "U" \in Planes /\ "Y" \in Planes /\ "Z" \in Planes  BY DEF Planes
<1>11. PICK s \in Nat, t \in Nat : /\ s = TotalAdc(old["U"].inputs) /\ t = TotalAdc(old["Y"].inputs)
                                   /\ s + t <= 2 * i
  <2>1. TotalAdc(old["U"].inputs) \in Nat /\ TotalAdc(old["Y"].inputs) \in Nat
    BY <1>4, <1>10, ChargeType
  <2> QED  BY <1>2, <1>3, <2>1 DEF WhyPC
<1>12. WhyPC'
  <2>1. \A p \in Planes : OfPlane(new[p], p)  BY <1>5, <1>9 DEF PlaneGrows
  <2>2. PICK x \in Nat, y \in Nat : x = TotalAdc(new["U"].inputs) /\ y = TotalAdc(new["Y"].inputs)
    <3>1. new["U"].inputs \in Seq(TriggerPrimitive) /\ new["Y"].inputs \in Seq(TriggerPrimitive)
      BY <1>9, <1>10 DEF PlaneGrows
    <3> QED  BY <3>1, ChargeType
  <2>3. /\ x <= s + (IF "U" = plane THEN 2 ELSE 0) * a
        /\ y <= t + (IF "Y" = plane THEN 2 ELSE 0) * a
    BY <1>3, <1>9, <1>10, <1>11, <2>2 DEF PlaneGrows
  <2>4. x + y <= 2 * (i + b)
    <3>1. CASE plane = "U"  BY <1>3, <1>11, <2>3, <3>1
    <3>2. CASE plane = "Y"  BY <1>3, <1>11, <2>3, <3>2
    <3>3. CASE plane \notin {"U", "Y"}  BY <1>3, <1>11, <2>3, <3>3
    <3> QED  BY <3>1, <3>2, <3>3
  <2> QED  BY <1>2, <1>3, <2>1, <2>2, <2>4 DEF WhyPC, OfPlane
<1>13. ReasonInv'
  <2>1. CASE UNCHANGED output_ta  BY <1>1, <2>1, NothingNew
  <2>2. CASE emit_collection(tp)
    <3>1. PICK z : z = old["Z"]  OBVIOUS
    <3>2. collectionComplete(tp, ws) /\ coincides(ws)
          /\ output_ta' = Append(output_ta, construct_ta_pc(ws["Z"]))
      BY <1>2, <2>2 DEF emit_collection
    <3>3. ws["Z"] = z  BY <1>1, <1>2, <3>1, <3>2, CollectionCompleteBefore
    <3>4. PICK ta, tps : ta = construct_ta_pc(z) /\ tps = z.inputs /\ tps = ta.inputs
      <4>1. construct_ta_pc(z).inputs = z.inputs  BY DEF construct_ta_pc, ta_of
      <4> QED  BY <4>1
    <3>5. tps \in Seq(TriggerPrimitive)  BY <1>4, <1>10, <3>1, <3>4
    <3>6. \A ch \in ChannelsOf(tps) : PlaneOf[ch] = "Z"
      <4>1. OfPlane(z, "Z")  BY <1>5, <1>10, <3>1
      <4>2. ASSUME NEW n \in DOMAIN tps PROVE PlaneOf[tps[n].channel] = "Z"
        <5>1. tps[n] \in Range(z.inputs)  BY <3>4 DEF Range
        <5> QED  BY <4>1, <5>1 DEF OfPlane
      <4> QED  BY <4>2 DEF ChannelsOf
    <3>7. PICK th \in Nat, ad \in Nat :
            th = m_config["adc_threshold"] /\ ad = m_config["adjacency_threshold"]
      <4>1. /\ "adc_threshold" \in Members[maker] /\ "adc_threshold" \notin Switches
            /\ "adjacency_threshold" \in Members[maker] /\ "adjacency_threshold" \notin Switches
        BY DEF Members, Switches
      <4> QED  BY <1>1, <4>1, MemberIsNat DEF Inv
    <3>8. Cardinality(ChannelsOf(tps)) >= ad
      <4>1. PICK k : k = check_adjacency_pc(z) /\ k >= ad
        BY <3>2, <3>3, <3>7 DEF coincides
      <4>2. k \in Int /\ k <= Cardinality(ChannelsOf(tps))
        BY <3>4, <3>5, <4>1, TrackFitsChannels
      <4>3. Cardinality(ChannelsOf(tps)) \in Nat  BY <3>5, ChannelsType
      <4>4. PICK n \in Nat, l \in Int : n = Cardinality(ChannelsOf(tps)) /\ l = k
        BY <4>2, <4>3
      <4> QED  BY <4>1, <4>2, <4>4
    <3>9. TotalAdc(tps) + 2 * (i + b) > th
      <4>1. PICK u, y : u = ws["U"] /\ y = ws["Y"]  OBVIOUS
      <4>2. /\ PlaneGrows(u, old["U"], "U", tp, IF "U" = plane THEN 1 ELSE 0)
            /\ PlaneGrows(y, old["Y"], "Y", tp, IF "Y" = plane THEN 1 ELSE 0)
        BY <1>7, <1>10, <4>1
      <4>3. Charged(u) /\ Charged(y) /\ Charged(z)
        <5>1. \A p \in Planes : Charged(add(old[p], tp))  BY <1>1, <1>4, AddCharges
        <5> QED  BY <1>4, <1>6, <1>10, <3>1, <4>1, <5>1
      <4>4. (u.adc_integral + y.adc_integral + z.adc_integral) % AdcModulus > th
        BY <3>2, <3>3, <3>7, <4>1 DEF coincides
      <4>5. PICK p \in Nat, q \in Nat, r \in Nat :
              p = TotalAdc(u.inputs) /\ q = TotalAdc(y.inputs) /\ r = TotalAdc(tps)
        BY <3>5, <4>2, ChargeType DEF PlaneGrows
      <4>6. p + q + r > th  BY <3>4, <4>3, <4>4, <4>5, OverTogether
      <4>7. /\ p <= s + (IF "U" = plane THEN 1 ELSE 0) * a
            /\ q <= t + (IF "Y" = plane THEN 1 ELSE 0) * a
        BY <1>3, <1>11, <4>2, <4>5 DEF PlaneGrows
      <4>8. p + q <= 2 * (i + b)
        <5>1. CASE plane = "U"  BY <1>3, <1>11, <4>7, <5>1
        <5>2. CASE plane = "Y"  BY <1>3, <1>11, <4>7, <5>2
        <5>3. CASE plane \notin {"U", "Y"}  BY <1>3, <1>11, <4>7, <5>3
        <5> QED  BY <5>1, <5>2, <5>3
      <4>9. r + 2 * (i + b) > th  BY <4>6, <4>8
      <4> QED  BY <4>5, <4>9
    <3>10. PICK now : now = OfInduction(received)' /\ TotalAdc(now) = i + b
      BY <1>3 DEF OfInduction
    <3>11. Justified(tps)'
      <4>1. TotalAdc(tps) + 2 * TotalAdc(now) > th  BY <3>9, <3>10
      <4> QED  BY <1>1, <3>6, <3>7, <3>8, <3>10, <4>1 DEF Justified
    <3>12. Reasoned(tps)'  BY <1>1, <3>11 DEF Reasoned
    <3> QED  BY <1>1, <3>2, <3>3, <3>4, <3>12, OneNew
  <2> QED  BY <2>1, <2>2 DEF receive_pc, first_in_plane, wait_for_collection, slide_plane
<1> QED  BY <1>12, <1>13

-----------------------------------------------------------------------------
(* The tracks of ChannelAdjacency *)

\* A track so far: TPs on rising channels, that leave out no more wires than
\* were counted, and no more than the tolerance and one last gap allow.
Rising(tps) == \A j, k \in DOMAIN tps : j < k => tps[j].channel < tps[k].channel

RunOfHits(tps, tol) ==
  /\ Rising(tps)
  /\ tol \in Nat /\ tol < m_config["adj_tolerance"] + 4
  /\ IsFiniteSet(MissingWires(ChannelsOf(tps)))
  /\ Cardinality(MissingWires(ChannelsOf(tps))) <= tol

\* What ChannelAdjacency is configured with are numbers.
LEMMA ToleranceIsNat ==
  ASSUME Configured, maker = "ChannelAdjacency", maker \in Makers
  PROVE  /\ m_config["adj_tolerance"] \in Nat /\ m_config["adjacency_threshold"] \in Nat
         /\ m_config["window_length"] \in Nat
<1>1. \A k \in {"adj_tolerance", "adjacency_threshold", "window_length"} :
        k \in Members[maker] /\ k \notin Switches
  BY DEF Members, Switches
<1> QED  BY <1>1, MemberIsNat

LEMMA RunOfOne ==
  ASSUME Configured, maker = "ChannelAdjacency", maker \in Makers,
         NEW tp \in TriggerPrimitive
  PROVE  RunOfHits(<<tp>>, 0)
<1>1. PICK list : list = <<tp>> /\ DOMAIN list = {1} /\ list[1] = tp
  <2>1. DOMAIN <<tp>> = {1} /\ <<tp>>[1] = tp  OBVIOUS
  <2> QED  BY <2>1
<1>2. Rising(list)
  <2>1. ~ (1 < 1)  OBVIOUS
  <2> QED  BY <1>1, <2>1 DEF Rising
<1>3. ChannelsOf(list) = {tp.channel}  BY <1>1 DEF ChannelsOf
<1>4. MissingWires({tp.channel}) = {}
  <2>1. PICK a \in Nat : a = tp.channel  BY TPChannel
  <2>2. ASSUME NEW x \in MissingWires({tp.channel}) PROVE FALSE
    <3>1. x \in 0 .. ChannelModulus /\ tp.channel < x /\ tp.channel > x
      BY <2>2 DEF MissingWires
    <3>2. PICK y \in Nat : y = x
      <4>1. ChannelModulus \in Nat  BY AdjacencyAssumption
      <4> QED  BY <3>1, <4>1
    <3>3. a < y /\ a > y  BY <2>1, <3>1, <3>2
    <3> QED  BY <3>3
  <2> QED  BY <2>2
<1>5. 0 < m_config["adj_tolerance"] + 4  BY ToleranceIsNat
<1>6. IsFiniteSet({}) /\ Cardinality({}) = 0  BY FS_EmptySet
<1> QED  BY <1>1, <1>2, <1>3, <1>4, <1>5, <1>6 DEF RunOfHits

GapBehind(tps, tp) == tp.channel - Last(tps).channel

\* The wires a further hit leaves out are those between it and the last one.
LEMMA RunGoesOn ==
  ASSUME Configured, maker = "ChannelAdjacency", maker \in Makers,
         NEW tps \in Seq(TriggerPrimitive), tps # <<>>, NEW tol, RunOfHits(tps, tol),
         NEW tp \in TriggerPrimitive, NEW gap, gap = GapBehind(tps, tp),
         reaches(gap, tol)
  PROVE  RunOfHits(Append(tps, tp), tol + gap - 1)
<1>1. PICK n \in Nat : n = Len(tps) /\ DOMAIN tps = 1 .. n /\ n >= 1
  <2>1. PICK n \in Nat : n = Len(tps) /\ DOMAIN tps = 1 .. n  OBVIOUS
  <2>2. n \in 1 .. n  BY <2>1, LastIsOne
  <2> QED  BY <2>1, <2>2
<1>2. \A j \in 1 .. n : tps[j] \in TriggerPrimitive  BY <1>1
<1>3. \A j \in 1 .. n : tps[j].channel \in Nat  BY <1>2, TPChannel
<1>4. PICK b \in Nat, d \in Nat : b = tps[n].channel /\ d = tp.channel
  <2>1. n \in 1 .. n /\ tp.channel \in Nat  BY <1>1, TPChannel
  <2> QED  BY <1>3, <2>1
<1>5. gap = d - b
  <2>1. Last(tps) = tps[n]  BY <1>1 DEF Last
  <2> QED  BY <1>4, <2>1 DEF GapBehind
<1>6. PICK t \in Nat : t = m_config["adj_tolerance"]  BY ToleranceIsNat
<1>7. PICK l \in Nat : l = tol /\ l < t + 4  BY <1>6 DEF RunOfHits
<1>8. PICK g \in Int : /\ g = gap /\ g = d - b /\ g >= 1
                        /\ l + g - 1 \in Nat /\ l + g - 1 < t + 4
  <2>1. PICK g \in Int : g = gap /\ g = d - b  BY <1>5
  <2>2. g = 1 \/ (g \in 2 .. 5 /\ l < t)  BY <1>6, <1>7, <2>1 DEF reaches
  <2>3. l < t + 4  BY <1>7
  <2>4. CASE g = 1
    <3>1. l + g - 1 = l  BY <2>4
    <3> QED  BY <2>1, <2>3, <2>4, <3>1
  <2>5. CASE g \in 2 .. 5 /\ l < t
    <3>1. g >= 1 /\ l + g - 1 \in Nat /\ l + g - 1 < t + 4  BY <2>5
    <3> QED  BY <2>1, <3>1
  <2> QED  BY <2>2, <2>4, <2>5
<1>8a. b < d
  <2>1. g = d - b /\ g >= 1  BY <1>8
  <2> QED  BY <2>1
<1>9. PICK old, new, more : /\ old = ChannelsOf(tps) /\ more = Append(tps, tp)
                            /\ new = ChannelsOf(more)
  OBVIOUS
<1>10. /\ DOMAIN more = 1 .. (n + 1) /\ more[n + 1] = tp
       /\ \A j \in 1 .. n : more[j] = tps[j]
  BY <1>1, <1>9
<1>11. 1 .. (n + 1) = (1 .. n) \cup {n + 1}  OBVIOUS
<1>12. new = old \cup {d}
  BY <1>1, <1>4, <1>9, <1>10, <1>11 DEF ChannelsOf
<1>13. \A c \in old : c \in Nat /\ c <= b
  <2>1. SUFFICES ASSUME NEW j \in 1 .. n PROVE tps[j].channel \in Nat /\ tps[j].channel <= b
    BY <1>1, <1>9 DEF ChannelsOf
  <2>2. j = n \/ j < n  BY <1>1
  <2>3. n \in 1 .. n  BY <1>1
  <2>4. tps[j].channel \in Nat  BY <1>3
  <2>5. CASE j = n  BY <1>4, <2>5
  <2>6. CASE j < n
    <3>1. tps[j].channel < b  BY <1>1, <1>4, <2>3, <2>6 DEF RunOfHits, Rising
    <3>2. PICK a \in Nat : a = tps[j].channel  BY <2>4
    <3> QED  BY <3>1, <3>2
  <2> QED  BY <2>2, <2>5, <2>6
<1>14. b \in old
  <2>1. n \in 1 .. n  BY <1>1
  <2> QED  BY <1>1, <1>4, <1>9, <2>1 DEF ChannelsOf
<1>15. Rising(more)
  <2>1. SUFFICES ASSUME NEW j \in 1 .. (n + 1), NEW k \in 1 .. (n + 1), j < k
                 PROVE  more[j].channel < more[k].channel
    BY <1>10 DEF Rising
  <2>2. j \in 1 .. n  BY <2>1
  <2>3. more[j] = tps[j]  BY <1>10, <2>2
  <2>4. CASE k \in 1 .. n
    <3>1. more[k] = tps[k]  BY <1>10, <2>4
    <3> QED  BY <1>1, <2>1, <2>2, <2>3, <2>4, <3>1 DEF RunOfHits, Rising
  <2>5. CASE k = n + 1
    <3>1. tps[j].channel \in old  BY <1>1, <1>9, <2>2 DEF ChannelsOf
    <3>2. PICK a \in Nat : a = tps[j].channel /\ a <= b  BY <1>13, <3>1
    <3>3. a <= b  BY <3>2
    <3>4. a < d  BY <1>8a, <3>3
    <3> QED  BY <1>4, <1>10, <2>3, <2>5, <3>2, <3>4
  <2> QED  BY <1>11, <2>4, <2>5
<1>16. MissingWires(new) \subseteq MissingWires(old) \cup (b + 1 .. d - 1)
  <2>1. SUFFICES ASSUME NEW x \in MissingWires(new), x \notin MissingWires(old)
                 PROVE  x \in b + 1 .. d - 1
    OBVIOUS
  <2>2. x \in 0 .. ChannelModulus /\ x \notin old /\ x # d
    BY <1>12, <2>1 DEF MissingWires
  <2>3. x \in Nat /\ x # b
    <3>1. ChannelModulus \in Nat  BY AdjacencyAssumption
    <3> QED  BY <1>14, <2>2, <3>1
  <2>4. PICK c \in old \cup {d}, e \in old \cup {d} : c < x /\ e > x
    BY <1>12, <2>1 DEF MissingWires
  <2>5. ~ ((\E y \in old : y < x) /\ (\E y \in old : y > x))
    BY <2>1, <2>2 DEF MissingWires
  <2>6. c \in Nat /\ e \in Nat /\ e <= d
    <3>1. \A y \in old \cup {d} : y \in Nat /\ y <= d
      <4>1. ASSUME NEW y \in old PROVE y \in Nat /\ y <= d
        <5>1. y \in Nat /\ y <= b  BY <1>13
        <5>2. PICK z \in Nat : z = y /\ z <= b  BY <5>1
        <5>3. z <= d  BY <1>8a, <5>2
        <5> QED  BY <5>2, <5>3
      <4>2. d \in Nat /\ d <= d  OBVIOUS
      <4> QED  BY <4>1, <4>2
    <3> QED  BY <2>4, <3>1
  <2>7. x < d  BY <2>3, <2>4, <2>6
  <2>8. b < x
    <3>1. c # d
      <4>1. c < x  BY <2>4
      <4> QED  BY <2>3, <2>6, <2>7, <4>1
    <3>2. c \in old  BY <2>4, <3>1
    <3>3. ~ (b > x)  BY <1>14, <2>4, <2>5, <3>2
    <3> QED  BY <2>3, <3>3
  <2> QED  BY <2>3, <2>7, <2>8
<1>17. /\ IsFiniteSet(MissingWires(new))
       /\ Cardinality(MissingWires(new)) <= l + gap - 1
  <2>1. PICK A, B : A = MissingWires(old) /\ B = b + 1 .. d - 1  OBVIOUS
  <2>2. IsFiniteSet(A) /\ Cardinality(A) <= l  BY <1>7, <1>9, <2>1 DEF RunOfHits
  <2>3. IsFiniteSet(B) /\ Cardinality(B) = gap - 1
    <3>1. b + 1 \in Int /\ d - 1 \in Int  OBVIOUS
    <3>2. IsFiniteSet(B) /\ Cardinality(B) = IF b + 1 > d - 1 THEN 0 ELSE (d - 1) - (b + 1) + 1
      BY <2>1, <3>1, FS_Interval
    <3>3. (IF b + 1 > d - 1 THEN 0 ELSE (d - 1) - (b + 1) + 1) = (d - b) - 1
      BY <1>8a
    <3> QED  BY <1>5, <3>2, <3>3
  <2>4. IsFiniteSet(A \cup B)
        /\ Cardinality(A \cup B) = Cardinality(A) + Cardinality(B) - Cardinality(A \cap B)
    BY <2>2, <2>3, FS_Union
  <2>5. IsFiniteSet(A \cap B)  BY <2>2, FS_Intersection
  <2>6. PICK p \in Nat, q \in Nat : p = Cardinality(A) /\ q = Cardinality(A \cap B)
    BY <2>2, <2>5, FS_CardinalityType
  <2>7. Cardinality(A \cup B) <= l + gap - 1
    <3>1. Cardinality(A \cup B) = p + (g - 1) - q  BY <1>8, <2>3, <2>4, <2>6
    <3>2. p <= l  BY <2>2, <2>6
    <3>3. p + (g - 1) - q <= l + g - 1  BY <3>2
    <3> QED  BY <1>8, <3>1, <3>3
  <2>8. MissingWires(new) \in SUBSET (A \cup B)  BY <1>16, <2>1
  <2>9. /\ IsFiniteSet(MissingWires(new))
        /\ Cardinality(MissingWires(new)) <= Cardinality(A \cup B)
    BY <2>4, <2>8, FS_Subset
  <2>10. PICK x \in Nat, y \in Nat : x = Cardinality(MissingWires(new)) /\ y = Cardinality(A \cup B)
    BY <2>4, <2>9, FS_CardinalityType
  <2>11. x <= y  BY <2>9, <2>10
  <2>12. PICK z \in Nat : z = l + gap - 1
    <3>1. l + g - 1 \in Nat  BY <1>8
    <3> QED  BY <1>8, <3>1
  <2>13. y <= z  BY <2>7, <2>10, <2>12
  <2>14. x <= z  BY <2>11, <2>13
  <2> QED  BY <2>9, <2>10, <2>12, <2>14
<1> QED  BY <1>6, <1>7, <1>8, <1>9, <1>15, <1>17 DEF RunOfHits

\* Each TP of such a track is on a channel of its own.
LEMMA RisingIsCounted ==
  ASSUME NEW tps \in Seq(TriggerPrimitive), Rising(tps)
  PROVE  Cardinality(ChannelsOf(tps)) = Len(tps)
<1>1. PICK n \in Nat : n = Len(tps) /\ DOMAIN tps = 1 .. n  OBVIOUS
<1>2. \A j \in 1 .. n : tps[j] \in TriggerPrimitive  BY <1>1
<1>3. \A j \in 1 .. n : tps[j].channel \in Nat  BY <1>2, TPChannel
<1>4. PICK f : f = [j \in 1 .. n |-> tps[j].channel]  OBVIOUS
<1>5. f \in Surjection(1 .. n, ChannelsOf(tps))
  BY <1>1, <1>4 DEF Surjection, ChannelsOf
<1>6. ASSUME NEW j \in 1 .. n, NEW k \in 1 .. n, f[j] = f[k] PROVE j = k
  <2>1. PICK a \in Nat, b \in Nat : a = f[j] /\ b = f[k]  BY <1>3, <1>4
  <2>2. j < k => a < b  BY <1>1, <1>4, <2>1 DEF Rising
  <2>3. k < j => b < a  BY <1>1, <1>4, <2>1 DEF Rising
  <2>4. a = b  BY <1>6, <2>1
  <2> QED  BY <2>2, <2>3, <2>4
<1>7. f \in Injection(1 .. n, ChannelsOf(tps))  BY <1>5, <1>6 DEF Surjection, Injection, IsInjective
<1>8. IsFiniteSet(1 .. n) /\ Cardinality(1 .. n) = n
  <2>1. 1 \in Int /\ n \in Int /\ (IF 1 > n THEN 0 ELSE n - 1 + 1) = n  OBVIOUS
  <2> QED  BY <2>1, FS_Interval
<1> QED  BY <1>1, <1>5, <1>7, <1>8, FS_Surjection

\* A track that is given out is one run of hits, longer than the threshold.
GoodTrack(tps) ==
  tps # <<>> => /\ Len(tps) > m_config["adjacency_threshold"]
                /\ \E tol : RunOfHits(tps, tol)

\* The search after i hits: either a track was found, or the one so far ends
\* with the hit that is next.
RunSoFar(list, i, s) ==
  /\ s.win_adj.inputs = <<>> => s.tol_count = 0
  /\ s.win_adj.inputs # <<>> =>
       /\ i < Len(list) /\ s.found.inputs = <<>>
       /\ Last(s.win_adj.inputs).channel = list[i + 1].channel
       /\ RunOfHits(s.win_adj.inputs, s.tol_count)
  /\ GoodTrack(s.found.inputs)

\* One hit more.
LEMMA OneMoreSearched ==
  ASSUME Configured, maker = "ChannelAdjacency", maker \in Makers,
         NEW w, NEW list \in Seq(TriggerPrimitive), NEW i \in 1 .. Len(list),
         NEW s \in Searches(w), RunSoFar(list, i - 1, s)
  PROVE  RunSoFar(list, i, Searched(list, i, s))
<1>1. PICK n \in Nat : n = Len(list) /\ DOMAIN list = 1 .. n  OBVIOUS
<1>2. PICK tp \in TriggerPrimitive : tp = list[i]  BY <1>1
<1>3. PICK tps \in Seq(TriggerPrimitive) : tps = s.win_adj.inputs
  BY DEF Searches, TracksIn, Windows
<1>4. PICK tol, b, track : /\ tol = s.tol_count /\ b = Begun(list, i, s)
                           /\ track = b.inputs
  OBVIOUS
<1>5. /\ track \in Seq(TriggerPrimitive) /\ track # <<>>
      /\ Last(track).channel = tp.channel /\ RunOfHits(track, tol)
  <2>1. CASE tps = <<>>
    <3>1. track = Append(<<>>, tp)
      BY <1>2, <1>3, <1>4, <2>1 DEF Begun, is_empty, add
    <3>2. track = <<tp>>  BY <3>1
    <3>3. <<tp>> \in Seq(TriggerPrimitive) /\ <<tp>> # <<>> /\ <<tp>>[1] = tp /\ Len(<<tp>>) = 1
      OBVIOUS
    <3>4. Last(track) = tp  BY <3>2, <3>3 DEF Last
    <3>5. tol = 0  BY <1>3, <1>4, <2>1 DEF RunSoFar
    <3> QED  BY <3>2, <3>3, <3>4, <3>5, RunOfOne
  <2>2. CASE tps # <<>>
    <3>1. track = tps  BY <1>3, <1>4, <2>2 DEF Begun, is_empty
    <3>2. Last(tps).channel = list[(i - 1) + 1].channel /\ RunOfHits(tps, tol)
      BY <1>3, <1>4, <2>2 DEF RunSoFar
    <3>3. (i - 1) + 1 = i  OBVIOUS
    <3> QED  BY <1>2, <2>2, <3>1, <3>2, <3>3
  <2> QED  BY <2>1, <2>2
<1>6. PICK gap : gap = SearchGap(list, i)  OBVIOUS
<1>7. GoodTrack(s.found.inputs)  BY DEF RunSoFar
<1>8. CASE s.found.inputs # <<>>
  <2>1. Searched(list, i, s) = s  BY <1>8 DEF Searched, is_empty
  <2>2. s.win_adj.inputs = <<>>  BY <1>8 DEF RunSoFar
  <2> QED  BY <1>7, <2>1, <2>2 DEF RunSoFar
<1>9. CASE s.found.inputs = <<>> /\ gap = 0
  <2>1. Searched(list, i, s) = s  BY <1>6, <1>9 DEF Searched
  <2>2. i # n  BY <1>1, <1>6, <1>9, EndOutOfReach
  <2>3. i < n /\ i + 1 \in 1 .. n /\ (i - 1) + 1 = i  BY <1>1, <2>2
  <2>4. list[i + 1].channel = tp.channel
    <3>1. list[i + 1] \in TriggerPrimitive  BY <1>1, <2>3
    <3>2. PICK c \in Nat, d \in Nat : c = tp.channel /\ d = list[i + 1].channel
      BY <3>1, TPChannel
    <3>3. d - c = 0  BY <1>1, <1>2, <1>6, <1>9, <2>2, <3>2 DEF SearchGap
    <3>4. d = c  BY <3>3
    <3> QED  BY <3>2, <3>4
  <2>5. ASSUME tps # <<>>
        PROVE  Last(tps).channel = list[i + 1].channel /\ RunOfHits(tps, tol)
    <3>1. track = tps  BY <1>3, <1>4, <2>5 DEF Begun, is_empty
    <3> QED  BY <1>5, <2>4, <3>1
  <2> QED  BY <1>1, <1>3, <1>4, <1>7, <1>9, <2>1, <2>3, <2>5 DEF RunSoFar
<1>10. CASE s.found.inputs = <<>> /\ gap # 0 /\ reaches(gap, tol)
  <2>1. i # n  BY <1>1, <1>6, <1>10, EndOutOfReach
  <2>2. i < n /\ i + 1 \in 1 .. n  BY <1>1, <2>1
  <2>3. PICK next \in TriggerPrimitive : next = list[i + 1]  BY <1>1, <2>2
  <2>4. gap = GapBehind(track, next)
    BY <1>1, <1>2, <1>5, <1>6, <2>1, <2>3 DEF GapBehind, SearchGap
  <2>5. PICK more : more = Append(track, next)  OBVIOUS
  <2>6. RunOfHits(more, tol + gap - 1)  BY <1>5, <1>10, <2>4, <2>5, RunGoesOn
  <2>7. more # <<>> /\ Last(more) = next
    <3>1. more \in Seq(TriggerPrimitive) /\ Len(more) = Len(track) + 1 /\ Len(track) \in Nat
      BY <1>5, <2>5
    <3>2. Len(more) # 0  BY <3>1
    <3>3. more # <<>>  BY <3>2
    <3> QED  BY <1>5, <2>5, <3>3, LastOfAppend
  <2>8. PICK r : r = Searched(list, i, s)  OBVIOUS
  <2>9. r = GoneOn(list, i, s)  BY <1>4, <1>6, <1>10, <2>8 DEF Searched, is_empty
  <2>10. r.win_adj = add(b, next) /\ r.tol_count = tol + gap - 1 /\ r.found = s.found
    BY <1>4, <1>6, <2>3, <2>9 DEF GoneOn, Searches
  <2>11. r.win_adj.inputs = more  BY <1>4, <2>5, <2>10 DEF add
  <2> QED  BY <1>1, <1>7, <1>10, <2>2, <2>3, <2>6, <2>7, <2>8, <2>10, <2>11 DEF RunSoFar
<1>11. CASE s.found.inputs = <<>> /\ gap # 0 /\ ~ reaches(gap, tol)
  <2>1. PICK r : r = Searched(list, i, s)  OBVIOUS
  <2>2. r = Ended(list, i, s)  BY <1>4, <1>6, <1>11, <2>1 DEF Searched, is_empty
  <2>3. EmptyWindow.inputs = <<>>  BY DEF EmptyWindow
  <2>4. r.win_adj.inputs = <<>> /\ r.tol_count = 0
        /\ r.found = IF long_enough(b) THEN b ELSE EmptyWindow
    BY <1>4, <2>2, <2>3 DEF Ended
  <2>5. GoodTrack(r.found.inputs)
    BY <1>4, <1>5, <2>3, <2>4 DEF GoodTrack, long_enough
  <2> QED  BY <2>1, <2>4, <2>5 DEF RunSoFar
<1> QED  BY <1>8, <1>9, <1>10, <1>11

\* What check_adjacency() returns is a good track, if it is one at all.
LEMMA TrackIsGood ==
  ASSUME Configured, maker = "ChannelAdjacency", maker \in Makers,
         NEW w, w.inputs \in Seq(TriggerPrimitive), NEW g \in Uninitialised
  PROVE  GoodTrack(check_adjacency_ca(w, g).inputs)
<1>1. PICK f : SearchOf(w, g, f)  BY SearchHasARun
<1>2. PICK list \in Seq(TriggerPrimitive) : list = by_channel(w.inputs) /\ Len(list) = Len(w.inputs)
  BY ByChannel
<1>3. PICK N \in Nat : N = Len(list)  OBVIOUS
<1> DEFINE T == { i \in 0 .. N : RunSoFar(list, i, f[i]) }
<1>4. 0 \in T
  <2>1. f[0] = NoTrackYet(g)  BY <1>1 DEF SearchOf
  <2>2. PICK s : s = NoTrackYet(g)  OBVIOUS
  <2>3. s.win_adj.inputs = <<>> /\ s.tol_count = 0 /\ s.found.inputs = <<>>
    BY <2>2 DEF NoTrackYet, unset_window, EmptyWindow
  <2>4. RunSoFar(list, 0, s)  BY <2>3 DEF RunSoFar, GoodTrack
  <2> QED  BY <2>1, <2>2, <2>4
<1>5. ASSUME NEW i \in 1 .. N, i - 1 \in T PROVE i \in T
  <2>1. i \in 0 .. N /\ i - 1 \in 0 .. N /\ i \in 1 .. Len(w.inputs) /\ i - 1 \in 0 .. Len(w.inputs)
    BY <1>2, <1>3
  <2>2. PICK s : s = f[i - 1] /\ s \in Searches(w)  BY <1>1, <2>1 DEF SearchOf
  <2>3. f[i] = Searched(list, i, s)  BY <1>1, <1>2, <2>1, <2>2 DEF SearchOf
  <2>4. RunSoFar(list, i - 1, s)  BY <1>5, <2>2
  <2>5. RunSoFar(list, i, f[i])  BY <1>3, <2>2, <2>3, <2>4, OneMoreSearched
  <2> QED  BY <2>1, <2>5
<1> HIDE DEF T
<1>6. \A i \in 0 .. N : i \in T  BY <1>4, <1>5, InductionUpTo
<1>7. N \in T  BY <1>6
<1>8. GoodTrack(f[N].found.inputs)  BY <1>7 DEF T, RunSoFar
<1> QED  BY <1>1, <1>2, <1>3, <1>8 DEF SearchOf

\* The tracks of a window, each of them good for a TA.
LEMMA TracksAreGood ==
  ASSUME Configured, maker = "ChannelAdjacency", maker \in Makers,
         NEW w, w.inputs \in Seq(TriggerPrimitive),
         NEW junk \in Junk(w), NEW tracks, tracks = extraction(w, junk).tracks
  PROVE  /\ tracks \in Seq(Windows)
         /\ \A k \in DOMAIN tracks :
              /\ tracks[k].inputs \in Seq(TriggerPrimitive) /\ tracks[k].inputs # <<>>
              /\ Range(tracks[k].inputs) \subseteq Range(w.inputs)
              /\ GoodTrack(tracks[k].inputs)
<1>1. TakenFrom(extraction(w, junk), w)  BY ExtractionTakes
<1>2. PICK left : left = extraction(w, junk).window  OBVIOUS
<1>3. /\ tracks \in Seq(Windows) /\ TracksApart(tracks, left)
      /\ \A k \in DOMAIN tracks :
           ~ is_empty(tracks[k]) /\ Range(tracks[k].inputs) \subseteq Range(w.inputs)
  BY <1>1, <1>2 DEF TakenFrom, TrackSearches
<1>4. ASSUME NEW k \in DOMAIN tracks
      PROVE  /\ tracks[k].inputs \in Seq(TriggerPrimitive) /\ tracks[k].inputs # <<>>
             /\ GoodTrack(tracks[k].inputs)
  <2>1. PICK track : track = tracks[k]  OBVIOUS
  <2>2. track \in Windows  BY <1>3, <2>1
  <2>3. IsTrack(track)  BY <1>3, <2>1 DEF TracksApart
  <2>4. PICK u, g : /\ u.inputs \in Seq(TriggerPrimitive) /\ g \in Uninitialised
                    /\ track = check_adjacency_ca(u, g)
    BY <2>3 DEF IsTrack
  <2>5. GoodTrack(track.inputs)  BY <2>4, TrackIsGood
  <2> QED  BY <1>3, <2>1, <2>2, <2>5 DEF Windows, is_empty
<1> QED  BY <1>3, <1>4

\* A good track of TPs of the window justifies a TA.
LEMMA GoodTrackJustified ==
  ASSUME Configured, maker = "ChannelAdjacency", maker \in Makers,
         NEW w, NEW now, ListKept(w, Length, now),
         NEW tps \in Seq(TriggerPrimitive), tps # <<>>, GoodTrack(tps),
         Range(tps) \subseteq Range(w.inputs)
  PROVE  Justified(tps)
<1>1. PICK tol : RunOfHits(tps, tol)  BY DEF GoodTrack
<1>2. Cardinality(ChannelsOf(tps)) = Len(tps)  BY <1>1, RisingIsCounted DEF RunOfHits
<1>3. Len(tps) > m_config["adjacency_threshold"]  BY DEF GoodTrack
<1>4. PICK length \in Nat : length = Length  BY ToleranceIsNat DEF Length
<1>5. ASSUME NEW t \in TimesOf(tps), NEW u \in TimesOf(tps), t > u
      PROVE  t - u < m_config["window_length"]
  <2>1. PICK i \in DOMAIN tps, j \in DOMAIN tps : t = tps[i].time_start /\ u = tps[j].time_start
    BY DEF TimesOf
  <2>2. PICK d \in Range(w.inputs), e \in Range(w.inputs) : d = tps[i] /\ e = tps[j]
    <3>1. tps[i] \in Range(tps) /\ tps[j] \in Range(tps)  BY DEF Range
    <3> QED  BY <3>1
  <2>3. PICK a \in Nat, b \in Nat : a = t /\ b = u
    <3>1. tps[i] \in TriggerPrimitive /\ tps[j] \in TriggerPrimitive  OBVIOUS
    <3> QED  BY <2>1, <3>1, TPType
  <2>4. a > b  BY <1>5, <2>3
  <2>5. d # e
    <3>1. a # b  BY <2>4
    <3> QED  BY <2>1, <2>2, <2>3, <3>1
  <2>6. Apart(d.time_start, e.time_start) < length  BY <1>4, <2>5, WindowIsNarrow
  <2>7. Apart(a, b) < length  BY <2>1, <2>2, <2>3, <2>6
  <2>8. a - b < length  BY <2>4, <2>7 DEF Apart
  <2> QED  BY <1>4, <2>3, <2>8 DEF Length
<1>6. PICK missing : missing = MissingWires(ChannelsOf(tps))  OBVIOUS
<1>7. Cardinality(missing) < m_config["adj_tolerance"] + 4
  <2>1. PICK t \in Nat : t = m_config["adj_tolerance"]  BY ToleranceIsNat
  <2>2. PICK n \in Nat : n = tol /\ n < t + 4  BY <1>1, <2>1 DEF RunOfHits
  <2>3. PICK c \in Nat : c = Cardinality(missing) /\ c <= n
    BY <1>1, <1>6, <2>2, FS_CardinalityType DEF RunOfHits
  <2>4. c < t + 4  BY <2>2, <2>3
  <2> QED  BY <2>1, <2>3, <2>4
<1> QED  BY <1>2, <1>3, <1>5, <1>6, <1>7 DEF Justified

\* One list of TAs behind another.
LEMMA Behind ==
  ASSUME NEW S, NEW outs \in Seq(S), NEW more \in Seq(S)
  PROVE  \A k \in DOMAIN (outs \o more) :
           \/ k \in DOMAIN outs /\ (outs \o more)[k] = outs[k]
           \/ /\ k \notin DOMAIN outs /\ k - Len(outs) \in DOMAIN more
              /\ (outs \o more)[k] = more[k - Len(outs)]
<1>1. PICK m \in Nat, n \in Nat : /\ m = Len(outs) /\ DOMAIN outs = 1 .. m
                                  /\ n = Len(more) /\ DOMAIN more = 1 .. n
  OBVIOUS
<1>2. PICK all : all = outs \o more  OBVIOUS
<1>3. /\ DOMAIN all = 1 .. (m + n) /\ \A k \in 1 .. m : all[k] = outs[k]
      /\ \A k \in (m + 1) .. (m + n) : all[k] = more[k - m]
  BY <1>1, <1>2
<1>4. ASSUME NEW k \in 1 .. (m + n)
      PROVE  \/ k \in 1 .. m /\ all[k] = outs[k]
             \/ k \notin 1 .. m /\ k - m \in 1 .. n /\ all[k] = more[k - m]
  <2>1. k \in 1 .. m \/ (k \in (m + 1) .. (m + n) /\ k - m \in 1 .. n /\ k \notin 1 .. m)
    OBVIOUS
  <2> QED  BY <1>3, <2>1
<1> QED  BY <1>1, <1>2, <1>3, <1>4

\* All TAs of ChannelAdjacency are justified.
LEMMA ChannelAdjacencyReasons ==
  ASSUME StepInv, MemberInv, ReasonInv, maker = "ChannelAdjacency", maker \in Makers, ~ flushed,
         NEW tp \in NextTPsFor, receive_ca(tp)
  PROVE  ReasonInv'
<1>1. /\ take(tp) /\ Inv /\ HeldInv /\ TAsSound /\ Configured /\ maker \in Sliding
      /\ UNCHANGED <<maker, m_config, flushed>>
  BY DEF receive_ca, take, StepInv, Inv, MemberInv, Sliding
<1>2. CASE ca_first_tp(tp) \/ ca_fill_window(tp) \/ ca_slide_window(tp)
  BY <1>1, <1>2, NothingNew DEF ca_first_tp, ca_fill_window, ca_slide_window
<1>3. CASE take_tracks(tp)
  <2>1. PICK w, tracks, out :
          w = m_current_window /\ WhatIsTaken(tp, w, tracks) /\ out = let_through(tracks)
    BY <1>3, TracksTaken
  <2>2. output_ta' = output_ta \o out  BY <2>1 DEF WhatIsTaken
  <2>3. PICK now : now = LastTime /\ ListKept(w, Length, now)
    BY <1>1, <2>1 DEF Inv, HeldKept, WellKept
  <2>4. w.inputs \in Seq(TriggerPrimitive)  BY <2>3 DEF ListKept, Charged, IsWindow
  <2>5. /\ tracks \in Seq(Windows)
        /\ \A k \in DOMAIN tracks :
             /\ tracks[k].inputs \in Seq(TriggerPrimitive) /\ tracks[k].inputs # <<>>
             /\ Range(tracks[k].inputs) \subseteq Range(w.inputs)
             /\ GoodTrack(tracks[k].inputs)
    BY <1>1, <2>1, <2>4, TracksAreGood DEF WhatIsTaken
  <2>6. m_ta_count \in Nat  BY DEF StepInv, CountInv
  <2>7. PICK made : made = { construct_ta_ca(tracks[k]) : k \in DOMAIN tracks }  OBVIOUS
  <2>8. out \in Seq(made)  BY <2>1, <2>5, <2>6, <2>7, LetThrough
  <2>9. ASSUME NEW ta \in made PROVE Reasoned(ta.inputs)'
    <3>1. PICK k \in DOMAIN tracks : ta = construct_ta_ca(tracks[k])  BY <2>7
    <3>2. PICK tps : tps = ta.inputs  OBVIOUS
    <3>3. tps = tracks[k].inputs  BY <3>1, <3>2, TrackInputs
    <3>4. Justified(tps)  BY <1>1, <2>3, <2>5, <3>3, GoodTrackJustified
    <3>5. Justified(tps)'  BY <1>1, <3>4 DEF Justified
    <3>6. Reasoned(tps)'  BY <1>1, <3>5 DEF Reasoned
    <3> QED  BY <3>2, <3>6
  <2>10. PICK S : output_ta \in Seq(S)  BY DEF StepInv, StreamInv, Outputs
  <2>11. PICK outs \in Seq(S \cup made), more \in Seq(S \cup made) :
           outs = output_ta /\ more = out
    <3>1. S \subseteq S \cup made /\ made \subseteq S \cup made  OBVIOUS
    <3>2. output_ta \in Seq(S \cup made) /\ out \in Seq(S \cup made)
      BY <2>8, <2>10, <3>1, SeqMonotonic
    <3> QED  BY <3>2
  <2>12. ASSUME NEW k \in DOMAIN output_ta'
         PROVE  \/ k \in DOMAIN output_ta /\ output_ta'[k] = output_ta[k]
                \/ \E tps : tps = output_ta'[k].inputs /\ Reasoned(tps)'
    <3>1. PICK all : all = outs \o more  OBVIOUS
    <3>2. output_ta' = all /\ k \in DOMAIN all  BY <2>2, <2>11, <2>12, <3>1
    <3>3. \/ k \in DOMAIN outs /\ all[k] = outs[k]
          \/ k - Len(outs) \in DOMAIN more /\ all[k] = more[k - Len(outs)]
      BY <3>1, <3>2, Behind
    <3>4. ASSUME NEW i \in DOMAIN more PROVE Reasoned(more[i].inputs)'
      <4>1. more[i] \in made  BY <2>8, <2>11
      <4> QED  BY <2>9, <4>1
    <3>5. ASSUME NEW i \in DOMAIN more, all[k] = more[i]
          PROVE  \E tps : tps = output_ta'[k].inputs /\ Reasoned(tps)'
      <4>1. PICK tps : tps = more[i].inputs  OBVIOUS
      <4>2. Reasoned(tps)'  BY <3>4, <4>1
      <4> QED  BY <3>2, <3>5, <4>1, <4>2
    <3> QED  BY <2>11, <3>2, <3>3, <3>5
  <2> QED  BY <1>1, <2>12, ReasonsStay
<1> QED  BY <1>2, <1>3 DEF receive_ca

-----------------------------------------------------------------------------
(* No TP in two TAs *)

\* The lists of a sequence of windows or of TAs have no number in common.
ListsApart(s) ==
  \A k \in DOMAIN s, l \in DOMAIN s : k # l => Ids(s[k].inputs) \cap Ids(s[l].inputs) = {}

LEMMA NoListYet == ListsApart(<<>>)
<1>1. DOMAIN <<>> = {}  OBVIOUS
<1> QED  BY <1>1 DEF ListsApart

LEMMA OneMoreList ==
  ASSUME NEW S, NEW s \in Seq(S), ListsApart(s), NEW e \in S,
         \A k \in DOMAIN s : Ids(s[k].inputs) \cap Ids(e.inputs) = {}
  PROVE  ListsApart(Append(s, e))
<1>1. PICK m \in Nat : m = Len(s) /\ DOMAIN s = 1 .. m  OBVIOUS
<1>2. PICK more : more = Append(s, e)  OBVIOUS
<1>3. /\ DOMAIN more = 1 .. (m + 1) /\ more[m + 1] = e
      /\ \A k \in 1 .. m : more[k] = s[k]
  BY <1>1, <1>2
<1>4. 1 .. (m + 1) = (1 .. m) \cup {m + 1}  OBVIOUS
<1>5. ASSUME NEW k \in 1 .. m, NEW l \in 1 .. m, k # l
      PROVE  Ids(more[k].inputs) \cap Ids(more[l].inputs) = {}
  BY <1>1, <1>3, <1>5 DEF ListsApart
<1>6. \A k \in 1 .. m : Ids(more[k].inputs) \cap Ids(more[m + 1].inputs) = {}
  BY <1>1, <1>3
<1>7. ASSUME NEW k \in 1 .. (m + 1), NEW l \in 1 .. (m + 1), k # l
      PROVE  Ids(more[k].inputs) \cap Ids(more[l].inputs) = {}
  <2>1. CASE k \in 1 .. m /\ l \in 1 .. m  BY <1>5, <1>7, <2>1
  <2>2. CASE k \in 1 .. m /\ l = m + 1  BY <1>6, <2>2
  <2>3. CASE k = m + 1 /\ l \in 1 .. m  BY <1>6, <2>3
  <2> QED  BY <1>4, <1>7, <2>1, <2>2, <2>3
<1> QED  BY <1>2, <1>3, <1>7 DEF ListsApart

LEMMA MoreLists ==
  ASSUME NEW S, NEW outs \in Seq(S), NEW more \in Seq(S), ListsApart(outs), ListsApart(more),
         AllGiven(outs) \cap AllGiven(more) = {}
  PROVE  ListsApart(outs \o more)
<1>1. PICK all : all = outs \o more  OBVIOUS
<1>2. PICK m \in Nat : m = Len(outs) /\ DOMAIN outs = 1 .. m  OBVIOUS
<1>3. PICK n \in Nat : n = Len(more) /\ DOMAIN more = 1 .. n  OBVIOUS
<1>4. DOMAIN all = 1 .. (m + n)  BY <1>1, <1>2, <1>3
<1>5. ASSUME NEW k \in 1 .. (m + n)
      PROVE  \/ k \in 1 .. m /\ all[k] = outs[k]
             \/ k \notin 1 .. m /\ k - m \in 1 .. n /\ all[k] = more[k - m]
  BY <1>1, <1>2, <1>3, <1>4, Behind
<1>6. ASSUME NEW i \in 1 .. m, NEW j \in 1 .. n
      PROVE  Ids(outs[i].inputs) \cap Ids(more[j].inputs) = {}
  BY <1>2, <1>3 DEF AllGiven
<1>7. ASSUME NEW k \in 1 .. (m + n), NEW l \in 1 .. (m + n), k # l
      PROVE  Ids(all[k].inputs) \cap Ids(all[l].inputs) = {}
  <2>1. CASE k \in 1 .. m /\ l \in 1 .. m  BY <1>2, <1>5, <1>7, <2>1 DEF ListsApart
  <2>2. CASE k \in 1 .. m /\ l \notin 1 .. m  BY <1>5, <1>6, <2>2
  <2>3. CASE k \notin 1 .. m /\ l \in 1 .. m  BY <1>5, <1>6, <2>3
  <2>4. CASE k \notin 1 .. m /\ l \notin 1 .. m
    <3>1. PICK i \in 1 .. n, j \in 1 .. n :
            i = k - m /\ j = l - m /\ all[k] = more[i] /\ all[l] = more[j]
      BY <1>5, <2>4
    <3>2. i # j  BY <1>7, <3>1
    <3> QED  BY <1>3, <3>1, <3>2 DEF ListsApart
  <2> QED  BY <2>1, <2>2, <2>3, <2>4
<1> QED  BY <1>1, <1>4, <1>7 DEF ListsApart

\* Lists without a TP in common have no number in common.
LEMMA TPsByNumber ==
  ASSUME NEW list, NEW stream, FromStream(list, stream),
         NEW r, Range(r) \subseteq Range(list), NEW s, Range(s) \subseteq Range(list),
         Range(r) \cap Range(s) = {}
  PROVE  Ids(r) \cap Ids(s) = {}
<1>1. SUFFICES ASSUME NEW x \in Ids(r), x \in Ids(s) PROVE FALSE
  OBVIOUS
<1>2. PICK d \in Range(r), e \in Range(s) : x = d.id /\ x = e.id  BY <1>1, IdsOfRange
<1>3. stream[x] = d /\ stream[x] = e  BY <1>2 DEF FromStream
<1> QED  BY <1>2, <1>3

\* So have the tracks of a window,
LEMMA TracksHaveTheirOwn ==
  ASSUME NEW w, w.inputs \in Seq(TriggerPrimitive), NEW stream, FromStream(w.inputs, stream),
         NEW junk \in Junk(w), NEW tracks, tracks = extraction(w, junk).tracks
  PROVE  /\ tracks \in Seq(Windows) /\ ListsApart(tracks)
         /\ \A k \in DOMAIN tracks : Ids(tracks[k].inputs) \subseteq Ids(w.inputs)
<1>1. TakenFrom(extraction(w, junk), w)  BY ExtractionTakes
<1>2. PICK left : left = extraction(w, junk).window  OBVIOUS
<1>3. /\ tracks \in Seq(Windows) /\ TracksApart(tracks, left)
      /\ \A k \in DOMAIN tracks : Range(tracks[k].inputs) \subseteq Range(w.inputs)
  BY <1>1, <1>2 DEF TakenFrom, TrackSearches
<1>4. ASSUME NEW k \in DOMAIN tracks PROVE Ids(tracks[k].inputs) \subseteq Ids(w.inputs)
  BY <1>3, IdsOfRange
<1>5. ASSUME NEW k \in DOMAIN tracks, NEW l \in DOMAIN tracks, k # l
      PROVE  Ids(tracks[k].inputs) \cap Ids(tracks[l].inputs) = {}
  <2>1. Range(tracks[k].inputs) \cap Range(tracks[l].inputs) = {}
    BY <1>3, <1>5 DEF TracksApart
  <2>2. Range(tracks[k].inputs) \subseteq Range(w.inputs)
        /\ Range(tracks[l].inputs) \subseteq Range(w.inputs)
    BY <1>3
  <2> QED  BY <2>1, <2>2, TPsByNumber
<1> QED  BY <1>3, <1>4, <1>5 DEF ListsApart

\* and the TAs made of those of them that are let through.
LEMMA LetThroughApart ==
  ASSUME NEW tracks \in Seq(Windows), ListsApart(tracks)
  PROVE  ListsApart(let_through(tracks))
<1>1. PICK N \in Nat : N = Len(tracks) /\ DOMAIN tracks = 1 .. N  OBVIOUS
<1>2. PICK made, f :
        /\ made = { construct_ta_ca(tracks[k]) : k \in DOMAIN tracks }
        /\ f = passed(tracks)
  OBVIOUS
<1>3. /\ \A n \in 0 .. N : f[n] \in Seq(made)
      /\ f[0] = <<>>
      /\ \A n \in 1 .. N : f[n] = IF passes_prescale(n)
                                  THEN Append(f[n - 1], construct_ta_ca(tracks[n])) ELSE f[n - 1]
  BY <1>1, <1>2, PassedSteps
<1>4. let_through(tracks) = f[N] /\ N \in 0 .. N  BY <1>1, <1>2 DEF let_through
<1> DEFINE OfTracks(s, n) ==
             \A k \in DOMAIN s : \E j \in 1 .. n : s[k].inputs = tracks[j].inputs
           T == { n \in 0 .. N : ListsApart(f[n]) /\ OfTracks(f[n], n) }
<1>5. 0 \in T
  <2>1. OfTracks(<<>>, 0)
    <3>1. DOMAIN <<>> = {}  OBVIOUS
    <3> QED  BY <3>1
  <2> QED  BY <1>3, <2>1, NoListYet
<1>6. ASSUME NEW n \in 1 .. N, n - 1 \in T PROVE n \in T
  <2>1. PICK s \in Seq(made), ta \in made : s = f[n - 1] /\ ta = construct_ta_ca(tracks[n])
    <3>1. n - 1 \in 0 .. N  OBVIOUS
    <3> QED  BY <1>1, <1>2, <1>3, <3>1
  <2>2. ListsApart(s) /\ OfTracks(s, n - 1)  BY <1>6, <2>1
  <2>3. ta.inputs = tracks[n].inputs  BY <2>1, TrackInputs
  <2>4. n \in 0 .. N /\ \A j \in 1 .. (n - 1) : j \in 1 .. n /\ j # n /\ j \in 1 .. N  OBVIOUS
  <2>5. OfTracks(s, n)  BY <2>2, <2>4
  <2>6. CASE passes_prescale(n)
    <3>1. f[n] = Append(s, ta)  BY <1>3, <2>1, <2>6
    <3>2. \A k \in DOMAIN s : Ids(s[k].inputs) \cap Ids(ta.inputs) = {}
      <4>1. ASSUME NEW k \in DOMAIN s PROVE Ids(s[k].inputs) \cap Ids(ta.inputs) = {}
        <5>1. PICK j \in 1 .. (n - 1) : s[k].inputs = tracks[j].inputs  BY <2>2
        <5>2. Ids(tracks[j].inputs) \cap Ids(tracks[n].inputs) = {}
          BY <1>1, <2>4 DEF ListsApart
        <5> QED  BY <2>3, <5>1, <5>2
      <4> QED  BY <4>1
    <3>3. ListsApart(Append(s, ta))  BY <2>2, <3>2, OneMoreList
    <3>4. OfTracks(Append(s, ta), n)
      <4>1. PICK m \in Nat : m = Len(s) /\ DOMAIN s = 1 .. m  OBVIOUS
      <4>2. PICK more : more = Append(s, ta)  OBVIOUS
      <4>3. /\ DOMAIN more = 1 .. (m + 1) /\ more[m + 1] = ta
            /\ \A k \in 1 .. m : more[k] = s[k]
        BY <4>1, <4>2
      <4>4. 1 .. (m + 1) = (1 .. m) \cup {m + 1} /\ n \in 1 .. n  OBVIOUS
      <4> QED  BY <2>3, <2>5, <4>1, <4>2, <4>3, <4>4
    <3> QED  BY <2>4, <3>1, <3>3, <3>4
  <2>7. CASE ~ passes_prescale(n)
    <3>1. f[n] = s  BY <1>3, <2>1, <2>7
    <3> QED  BY <2>2, <2>4, <2>5, <3>1
  <2> QED  BY <2>6, <2>7
<1> HIDE DEF T
<1>7. \A n \in 0 .. N : n \in T  BY <1>5, <1>6, InductionUpTo
<1> QED  BY <1>4, <1>7 DEF T

\* What ChannelAdjacency holds it has not given out.
ApartInv ==
  maker = "ChannelAdjacency" => ListsApart(output_ta) /\ Emitted \cap Held = {}

\* The tracks it takes are apart from each other and from those before,
LEMMA TakenTracksApart ==
  ASSUME StepInv, ApartInv, maker = "ChannelAdjacency",
         NEW tp \in NextTPsFor, take(tp), take_tracks(tp)
  PROVE  ListsApart(output_ta')
<1>1. Inv /\ HeldInv /\ m_ta_count \in Nat  BY DEF StepInv, CountInv
<1>2. PICK w, tracks, new :
        w = m_current_window /\ WhatIsTaken(tp, w, tracks) /\ new = let_through(tracks)
  BY TracksTaken
<1>3. maker \in Sliding  BY DEF Sliding
<1>4. /\ w.inputs \in Seq(TriggerPrimitive) /\ FromStream(w.inputs, received)
      /\ Held = Ids(w.inputs)
  BY <1>1, <1>2, <1>3, SlidingHolds
<1>5. /\ tracks \in Seq(Windows) /\ ListsApart(tracks)
      /\ \A k \in DOMAIN tracks : Ids(tracks[k].inputs) \subseteq Held
  BY <1>2, <1>4, TracksHaveTheirOwn DEF WhatIsTaken
<1>6. output_ta' = output_ta \o new  BY <1>2 DEF WhatIsTaken
<1>7. ListsApart(new)  BY <1>2, <1>5, LetThroughApart
<1>8. PICK made : made = { construct_ta_ca(tracks[k]) : k \in DOMAIN tracks }  OBVIOUS
<1>9. PICK S : output_ta \in Seq(S)  BY DEF StepInv, StreamInv, Outputs
<1>10. new \in Seq(made)  BY <1>1, <1>2, <1>5, <1>8, LetThrough
<1>11. PICK outs \in Seq(S \cup made), more \in Seq(S \cup made) : outs = output_ta /\ more = new
  <2>1. S \subseteq S \cup made /\ made \subseteq S \cup made  OBVIOUS
  <2>2. output_ta \in Seq(S \cup made) /\ new \in Seq(S \cup made)
    BY <1>9, <1>10, <2>1, SeqMonotonic
  <2> QED  BY <2>2
<1>12. AllGiven(more) \subseteq Held
  <2>1. ASSUME NEW k \in DOMAIN more PROVE Ids(more[k].inputs) \subseteq Held
    <3>1. more[k] \in made  BY <1>10, <1>11
    <3>2. PICK n \in DOMAIN tracks : more[k] = construct_ta_ca(tracks[n])  BY <1>8, <3>1
    <3>3. more[k].inputs = tracks[n].inputs  BY <3>2, TrackInputs
    <3> QED  BY <1>5, <3>3
  <2> QED  BY <2>1 DEF AllGiven
<1>13. Emitted = AllGiven(outs)  BY <1>11 DEF Emitted, AllGiven
<1>14. AllGiven(outs) \cap AllGiven(more) = {}  BY <1>12, <1>13 DEF ApartInv
<1>15. ListsApart(outs)  BY <1>11 DEF ApartInv
<1>16. ListsApart(outs \o more)  BY <1>7, <1>11, <1>14, <1>15, MoreLists
<1> QED  BY <1>6, <1>11, <1>16

\* and what stays in its window has not been given out.
LEMMA ChannelAdjacencyApart ==
  ASSUME StepInv, ApartInv, maker = "ChannelAdjacency", NEW tp \in NextTPsFor, call(tp)
  PROVE  ApartInv'
<1>1. receive_ca(tp)  BY DEF call
<1>2. /\ take(tp) /\ UNCHANGED maker /\ Inv /\ HeldInv /\ Outputs /\ m_ta_count \in Nat
  BY <1>1 DEF receive_ca, take, StepInv, StreamInv, CountInv
<1>3. Held \subseteq DOMAIN received /\ Emitted \subseteq DOMAIN received
  BY <1>2, HeldOfStream DEF StepInv, StreamInv
<1>4. number \notin DOMAIN received
  <2>1. PICK m \in Nat : m = Len(received) /\ DOMAIN received = 1 .. m  BY <1>2 DEF Inv
  <2>2. m + 1 \notin 1 .. m  OBVIOUS
  <2> QED  BY <2>1, <2>2 DEF number
<1>5. CASE take_tracks(tp)
  <2>1. TakesTracks  BY <1>2, <1>5, TracksAreGiven
  <2>2. Emitted' \cap Held' = {}  BY <1>3, <1>4, <2>1 DEF TakesTracks
  <2>3. ListsApart(output_ta)'
    <3>1. ListsApart(output_ta')  BY <1>2, <1>5, TakenTracksApart
    <3> QED  BY <3>1 DEF ListsApart
  <2> QED  BY <2>2, <2>3 DEF ApartInv
<1>6. CASE ca_first_tp(tp) \/ ca_fill_window(tp) \/ ca_slide_window(tp)
  <2>1. Emitted' = Emitted /\ \E kept \in SUBSET Held : Held' = kept \cup {number}
    BY <1>2, <1>6, NoTracksTaken
  <2>2. Emitted' \cap Held' = {}  BY <1>3, <1>4, <2>1 DEF ApartInv
  <2>3. UNCHANGED output_ta  BY <1>6 DEF ca_first_tp, ca_fill_window, ca_slide_window
  <2> QED  BY <2>2, <2>3 DEF ApartInv, ListsApart
<1> QED  BY <1>1, <1>5, <1>6 DEF receive_ca

LEMMA InitApart == Init => ApartInv
BY DEF Init, ApartInv, NoMaker

LEMMA StepApart == StepInv /\ StepInv' /\ ApartInv /\ [Next]_vars => ApartInv'
<1> SUFFICES ASSUME StepInv, StepInv', ApartInv, [Next]_vars PROVE ApartInv'
  OBVIOUS
<1>1. ASSUME received' = <<>> PROVE ApartInv'
  <2>1. output_ta' = <<>>  BY <1>1 DEF StepInv, StreamInv
  <2>2. DOMAIN output_ta' = {}  BY <2>1
  <2> QED  BY <2>2 DEF ApartInv, ListsApart, Emitted
<1>2. ASSUME NEW name \in Makers, build_maker(name) PROVE ApartInv'
  <2>1. maker = NoMaker /\ NoMaker \notin Makers /\ UNCHANGED received
    BY <1>2, TriggerActivityFactoryAssumption DEF build_maker, NoMaker, Windowed, Bundling
  <2>2. received = <<>>  BY <2>1 DEF StepInv, Inv, Configured
  <2> QED  BY <1>1, <2>1, <2>2
<1>3. ASSUME NEW config \in Configs[maker], configure(config) PROVE ApartInv'
  BY <1>1, <1>3 DEF configure
<1>4. ASSUME NEW tp \in NextTPsFor, call(tp) PROVE ApartInv'
  <2>1. CASE maker = "ChannelAdjacency"  BY <1>4, <2>1, ChannelAdjacencyApart
  <2>2. CASE maker # "ChannelAdjacency"
    <3>1. UNCHANGED maker
      BY <1>4, <2>2 DEF call, receive_hm, receive_me, receive_pc, receive_prescale,
                        receive_bundle, receive_distance, receive_supernova, take
    <3> QED  BY <2>2, <3>1 DEF ApartInv
  <2> QED  BY <2>1, <2>2
<1>5. CASE end_of_stream  BY <1>5 DEF end_of_stream, flush, ApartInv
<1>6. CASE UNCHANGED vars
  <2>1. UNCHANGED <<maker, m_current_window, m_plane_windows, m_current_ta, flushed, output_ta>>
    BY <1>6 DEF vars, windowVars, bundleVars
  <2>2. UNCHANGED <<Held, Emitted>>  BY <2>1 DEF Held, HeldList, Emitted
  <2> QED  BY <2>1, <2>2 DEF ApartInv, ListsApart
<1> QED  BY <1>2, <1>3, <1>4, <1>5, <1>6 DEF Next

\* The other makers give TPs out in the order of the stream.
SegmentsProved ==
  INSTANCE SegmentationProofs WITH
    received <- Len(received),
    held <- Held,
    segments <- IF maker = "ChannelAdjacency" THEN <<>>
                ELSE [k \in DOMAIN output_ta |-> Ids(output_ta[k].inputs)]

LEMMA OrderedListsApart ==
  ASSUME maker # "ChannelAdjacency", Outputs, SegmentsProved!Inv
  PROVE  ListsApart(output_ta)
<1>1. PICK m \in Nat : m = Len(output_ta) /\ DOMAIN output_ta = 1 .. m  BY DEF Outputs
<1>2. PICK segs : segs = [k \in DOMAIN output_ta |-> Ids(output_ta[k].inputs)]  OBVIOUS
<1>3. /\ \A j \in DOMAIN segs, k \in DOMAIN segs :
           j < k => \A x \in segs[j], y \in segs[k] : x < y
      /\ segs \in Seq(SUBSET (1 .. Len(received)))
  BY <1>2 DEF SegmentsProved!Inv, SegmentsProved!SegmentsInOrder, SegmentsProved!TypeOK
<1>4. DOMAIN segs = 1 .. m /\ \A k \in 1 .. m : segs[k] = Ids(output_ta[k].inputs)
  BY <1>1, <1>2
<1>5. ASSUME NEW j \in 1 .. m, NEW k \in 1 .. m, j < k
      PROVE  segs[j] \cap segs[k] = {}
  <2>1. SUFFICES ASSUME NEW x \in segs[j], x \in segs[k] PROVE FALSE
    OBVIOUS
  <2>2. x < x  BY <1>3, <1>4, <1>5, <2>1
  <2>3. x \in Int  BY <1>3, <1>4, <2>1
  <2> QED  BY <2>2, <2>3
<1>6. ASSUME NEW j \in 1 .. m, NEW k \in 1 .. m, j # k
      PROVE  segs[j] \cap segs[k] = {}
  <2>1. j < k \/ k < j  BY <1>6
  <2> QED  BY <1>5, <2>1
<1> QED  BY <1>1, <1>4, <1>6 DEF ListsApart

\* The discipline as it was proved of, and as the makers are shown to implement it.
LEMMA SameDiscipline ==
  /\ Segments!Init => SegmentsProved!Init
  /\ [Segments!Next]_(Segments!segmentVars) => [SegmentsProved!Next]_(SegmentsProved!segmentVars)
BY DEF Segments!Init, SegmentsProved!Init, Segments!Next, SegmentsProved!Next,
       Segments!segmentVars, SegmentsProved!segmentVars,
       Segments!Hold, Segments!GiveAndStart, Segments!JoinAndGive, Segments!GiveAll, Segments!Skip,
       SegmentsProved!Hold, SegmentsProved!GiveAndStart, SegmentsProved!JoinAndGive,
       SegmentsProved!GiveAll, SegmentsProved!Skip

LEMMA SegmentsKeepOrder == Spec => []SegmentsProved!Inv
<1>1. SegmentsProved!Spec => []SegmentsProved!Inv  BY SegmentsProved!SegmentationInvariant
<1>2. Spec => SegmentsProved!Spec
  BY InitSteps, StepKeeps, SameDiscipline, PTL DEF Spec, SegmentsProved!Spec
<1> QED  BY <1>1, <1>2, PTL

-----------------------------------------------------------------------------
(* The reasons, in every state *)

\* What the makers that look back at what they hold must know of it.
WhyInv == WhyHM /\ WhyBundle /\ WhyDistance /\ WhySupernova /\ WhyPC

\* What is known of another maker says nothing.
LEMMA WhyOfAnother ==
  ASSUME UNCHANGED maker
  PROVE  /\ maker # "HorizontalMuon" => WhyHM'
         /\ maker # "BundleN" => WhyBundle'
         /\ maker # "ChannelDistance" => WhyDistance'
         /\ maker # "Supernova" => WhySupernova'
         /\ maker # "PlaneCoincidence" => WhyPC'
BY DEF WhyHM, WhyBundle, WhyDistance, WhySupernova, WhyPC

\* Before the first TP.
NothingReceived == Untouched /\ received = <<>> /\ output_ta = <<>>

LEMMA WhyBefore == NothingReceived => WhyInv /\ ReasonInv
<1> SUFFICES ASSUME Untouched, received = <<>>, output_ta = <<>>
             PROVE  WhyInv /\ ReasonInv
  BY DEF NothingReceived
<1>1. EmptyWindow.inputs = <<>> /\ is_empty(EmptyWindow)  BY DEF EmptyWindow, is_empty
<1>2. WhyHM  BY <1>1 DEF Untouched, WhyHM
<1>3. WhyBundle
  <2>1. IsEnd(<<>>, <<>>, 0)  BY DEF IsEnd
  <2>2. m_current_ta = <<>>  BY DEF Untouched
  <2> QED  BY <2>1, <2>2 DEF WhyBundle
<1>4. WhyDistance /\ WhySupernova  BY DEF Untouched, WhyDistance, WhySupernova
<1>5. WhyPC
  <2>1. /\ \A p \in Planes : m_plane_windows[p].inputs = <<>>
        /\ m_plane_windows["U"].inputs = <<>> /\ m_plane_windows["Y"].inputs = <<>>
    BY <1>1 DEF Untouched, Planes
  <2>2. \A p \in Planes : OfPlane(m_plane_windows[p], p)
    BY <2>1, RangeOfNone DEF OfPlane
  <2>3. TotalAdc(<<>>) = 0  BY TotalAdcEmpty
  <2>4. PICK n \in Nat : n = TotalAdc(OfInduction(received))
    <3>1. received \in Seq(TriggerPrimitive)  OBVIOUS
    <3> QED  BY <3>1, OfInductionIsWeight, WeightStep, InductionAdcType
  <2>5. 0 + 0 <= 2 * n  BY <2>4
  <2> QED  BY <2>1, <2>2, <2>3, <2>4, <2>5 DEF WhyPC
<1>6. ReasonInv
  <2>1. DOMAIN output_ta = {}  OBVIOUS
  <2> QED  BY <2>1 DEF ReasonInv
<1> QED  BY <1>2, <1>3, <1>4, <1>5, <1>6 DEF WhyInv

LEMMA WhyBeforeNext == NothingReceived' => WhyInv' /\ ReasonInv'
BY WhyBefore, PTL

LEMMA InitReasons == Init => WhyInv /\ ReasonInv
<1> SUFFICES ASSUME Init PROVE WhyInv /\ ReasonInv
  OBVIOUS
<1>1. Untouched /\ received = <<>> /\ output_ta = <<>>
  BY InvInit DEF Init, Inv
<1> QED  BY <1>1, WhyBefore DEF NothingReceived

\* A step that changes nothing.
LEMMA ReasonStill ==
  ASSUME UNCHANGED <<maker, m_config, flushed, received>>, maker \in Makers, NEW tps, Reasoned(tps)
  PROVE  Reasoned(tps)'
<1>1. SUFFICES ASSUME Countable(tps)
               PROVE  /\ Justified(tps)'
                      /\ maker = "HorizontalMuon" => over_any(Recounted(tps))' \/ Followed(tps)
                      /\ maker = "Supernova" => 0 \in TimesOf(received) \/ flushed \/ Followed(tps)
  BY DEF Reasoned, Countable, Followed, TimesOf
<1>2. /\ Justified(tps)
      /\ maker = "HorizontalMuon" => over_any(Recounted(tps)) \/ Followed(tps)
      /\ maker = "Supernova" => 0 \in TimesOf(received) \/ flushed \/ Followed(tps)
  BY <1>1 DEF Reasoned, Countable
<1>3. ASSUME NEW w PROVE over_any(w)' <=> over_any(w)
  BY DEF over_any, over_adc, over_n_channels, over_adjacency, adjacency
<1>4. ASSUME NEW tp PROVE long_tp(tp)' <=> long_tp(tp)  BY DEF long_tp
<1>5. CASE maker = "HorizontalMuon"
  <2>1. PICK w, e : w = Recounted(tps) /\ e = received[Last(tps).id + 1]  OBVIOUS
  <2>2. Justified(tps) <=> over_any(w) \/ long_tp(e)
    BY <1>5, <2>1 DEF Justified, Recounted
  <2>3. Justified(tps)' <=> over_any(w)' \/ long_tp(e)'
    BY <1>5, <2>1 DEF Justified, Recounted, long_tp
  <2>4. over_any(Recounted(tps))' <=> over_any(w)'
    BY <2>1 DEF over_any, over_adc, over_n_channels, over_adjacency, adjacency
  <2> QED  BY <1>2, <1>3, <1>4, <1>5, <2>1, <2>2, <2>3, <2>4
<1>6. CASE maker = "Supernova"
  BY <1>2, <1>6, SupernovaJustified, SupernovaJustifiedNext
<1>7. CASE maker = "PlaneCoincidence"  BY <1>2, <1>7 DEF Justified, OfInduction
<1>8. CASE maker \in {"ChannelAdjacency", "MichelElectron", "Prescale", "BundleN", "ChannelDistance"}
  <2>1. Reasoned(tps)'  BY <1>8, ReasonStaysAlone
  <2> QED  BY <1>1, <1>8, <2>1 DEF Reasoned, Countable
<1> QED
  BY <1>5, <1>6, <1>7, <1>8, TriggerActivityFactoryAssumption DEF Windowed, Bundling

\* A call.
LEMMA CallReasons ==
  ASSUME StepInv, StepInv', MemberInv, ReasonInv, WhyInv, maker \in Makers, ~ flushed,
         NEW tp \in NextTPsFor, call(tp)
  PROVE  ReasonInv' /\ WhyInv'
<1>1. UNCHANGED maker
  BY DEF call, receive_hm, receive_me, receive_ca, receive_pc, receive_prescale,
         receive_bundle, receive_distance, receive_supernova, take
<1>2. Inv'  BY DEF StepInv
<1>3. WhyHM /\ WhyBundle /\ WhyDistance /\ WhySupernova /\ WhyPC  BY DEF WhyInv
<1>4. CASE maker = "HorizontalMuon" /\ receive_hm(tp)
  BY <1>1, <1>3, <1>4, HorizontalMuonReasons, WhyOfAnother DEF WhyInv
<1>5. CASE maker = "ChannelAdjacency" /\ receive_ca(tp)
  BY <1>1, <1>5, ChannelAdjacencyReasons, WhyOfAnother DEF WhyInv
<1>6. CASE maker = "MichelElectron" /\ receive_me(tp)
  BY <1>1, <1>6, MichelElectronReasons, WhyOfAnother DEF WhyInv
<1>7. CASE maker = "PlaneCoincidence" /\ receive_pc(tp)
  BY <1>1, <1>2, <1>3, <1>7, PlaneCoincidenceReasons, WhyOfAnother DEF WhyInv
<1>8. CASE maker = "Prescale" /\ receive_prescale(tp)
  BY <1>1, <1>8, PrescaleReasons, WhyOfAnother DEF WhyInv
<1>9. CASE maker = "BundleN" /\ receive_bundle(tp)
  BY <1>1, <1>3, <1>9, BundleNReasons, WhyOfAnother DEF WhyInv
<1>10. CASE maker = "ChannelDistance" /\ receive_distance(tp)
  BY <1>1, <1>3, <1>10, ChannelDistanceReasons, WhyOfAnother DEF WhyInv
<1>11. CASE maker = "Supernova" /\ receive_supernova(tp)
  BY <1>1, <1>3, <1>11, SupernovaReasons, WhyOfAnother DEF WhyInv
<1> QED  BY <1>4, <1>5, <1>6, <1>7, <1>8, <1>9, <1>10, <1>11 DEF call

LEMMA StepReasons ==
  StepInv /\ StepInv' /\ MemberInv /\ ReasonInv /\ WhyInv /\ [Next]_vars => ReasonInv' /\ WhyInv'
<1> SUFFICES ASSUME StepInv, StepInv', MemberInv, ReasonInv, WhyInv, [Next]_vars
             PROVE  ReasonInv' /\ WhyInv'
  OBVIOUS
<1>1. ASSUME received' = <<>> PROVE ReasonInv' /\ WhyInv'
  <2>1. Untouched' /\ output_ta' = <<>>  BY <1>1 DEF StepInv, Inv, StreamInv
  <2> QED  BY <1>1, <2>1, WhyBeforeNext DEF NothingReceived
<1>2. ASSUME NEW name \in Makers, build_maker(name) PROVE received' = <<>>
  <2>1. maker = NoMaker /\ NoMaker \notin Makers /\ UNCHANGED received
    BY <1>2, TriggerActivityFactoryAssumption DEF build_maker, NoMaker, Windowed, Bundling
  <2> QED  BY <2>1 DEF StepInv, Inv, Configured
<1>3. ASSUME NEW config \in Configs[maker], configure(config) PROVE received' = <<>>
  BY <1>3 DEF configure
<1>4. ASSUME maker \in Makers, ~ flushed, NEW tp \in NextTPsFor, call(tp)
      PROVE  ReasonInv' /\ WhyInv'
  BY <1>4, CallReasons
<1>5. CASE end_of_stream
  <2>1. maker = "Supernova" /\ UNCHANGED maker  BY <1>5 DEF end_of_stream, flush
  <2>2. ReasonInv' /\ WhySupernova'  BY <1>5, FlushReasons DEF WhyInv
  <2> QED  BY <2>1, <2>2, WhyOfAnother DEF WhyInv
<1>6. CASE UNCHANGED vars
  <2>1. UNCHANGED <<maker, m_config, m_current_window, m_plane_windows, m_current_ta, m_bounds,
                    flushed, output_ta, received>>
    BY <1>6 DEF vars, windowVars, bundleVars
  <2>2. WhyHM' /\ WhyBundle' /\ WhyDistance'
    BY <2>1 DEF WhyInv, WhyHM, WhyBundle, WhyDistance, over_any, over_adc, over_n_channels,
                over_adjacency, adjacency
  <2>3. WhySupernova' /\ WhyPC'
    BY <2>1 DEF WhyInv, WhySupernova, WhyPC, TimesOf, OfPlane
  <2>4. ReasonInv'
    <3>1. CASE maker \in Makers  BY <2>1, <3>1, ReasonStill DEF ReasonInv
    <3>2. CASE maker \notin Makers
      <4>1. received' = <<>>  BY <2>1, <3>2 DEF StepInv, Inv, Configured
      <4> QED  BY <1>1, <4>1
    <3> QED  BY <3>1, <3>2
  <2> QED  BY <2>2, <2>3, <2>4 DEF WhyInv
<1> QED  BY <1>1, <1>2, <1>3, <1>4, <1>5, <1>6 DEF Next

\* No TA of HorizontalMuon has more channels than n_channels_hit() can tell apart.
ChannelsFit ==
  maker = "HorizontalMuon" =>
    \A k \in DOMAIN output_ta : Cardinality(ChannelsOf(output_ta[k].inputs)) < CountModulus

LEMMA JustifiedAndApart ==
  ASSUME StepInv, ReasonInv, ApartInv, SegmentsProved!Inv, ChannelsFit
  PROVE  TAsJustified
<1>1. \A k \in DOMAIN output_ta : Justified(output_ta[k].inputs)
  BY DEF ReasonInv, Reasoned, Countable, ChannelsFit
<1>2. ListsApart(output_ta)
  <2>1. Outputs  BY DEF StepInv, StreamInv
  <2> QED  BY <2>1, OrderedListsApart DEF ApartInv
<1> QED  BY <1>1, <1>2 DEF TAsJustified, ListsApart

-----------------------------------------------------------------------------
(* The theorems *)

\* The windows of HorizontalMuon, MichelElectron, ChannelAdjacency and
\* PlaneCoincidence start at their first TP and are never longer than
\* window_length, and a cluster of ChannelDistance spans no more than that.
THEOREM MakersKeepSpans == Spec => []WindowSpan
<1>1. Inv => WindowSpan
  <2> SUFFICES ASSUME Inv PROVE WindowSpan
    OBVIOUS
  <2>1. CASE maker \in Sliding
    <3>1. SpanAgrees(m_current_window, Length)
      BY <2>1, WellKeptAgrees DEF Inv, HeldKept
    <3> QED  BY <2>1, <3>1 DEF WindowSpan, Sliding, Length
  <2>2. CASE maker = "PlaneCoincidence"
    <3>1. \A p \in Planes : SpanAgrees(m_plane_windows[p], Length)
      BY <2>2, WellKeptAgrees DEF Inv, HeldKept
    <3> QED  BY <2>2, <3>1 DEF WindowSpan, Windowed, Length
  <2>3. CASE maker = "ChannelDistance"
    <3>1. PICK tps \in Seq(TriggerPrimitive) : tps = m_current_ta
      BY <2>3 DEF Inv, HeldKept, ClusterKept
    <3>2. PICK length \in Nat : length = Length
      <4>1. maker \in Timed  BY <2>3 DEF Timed
      <4> QED  BY <4>1, LengthIsNat DEF Inv
    <3>3. \A i \in DOMAIN tps : tps[i].time_start - tps[1].time_start <= length
      BY <2>3, <3>1, <3>2 DEF Inv, HeldKept, ClusterKept
    <3>4. ASSUME NEW i \in DOMAIN tps, NEW j \in DOMAIN tps
          PROVE  tps[i].time_start - tps[j].time_start <= length
      <4>1. 1 \in DOMAIN tps /\ (1 = j \/ 1 < j)  BY EmptySeq
      <4>2. tps[i] \in TriggerPrimitive /\ tps[j] \in TriggerPrimitive
            /\ tps[1] \in TriggerPrimitive
        BY <4>1
      <4>3. tps[i].time_start \in Nat /\ tps[j].time_start \in Nat /\ tps[1].time_start \in Nat
        BY <4>2, TPType
      <4>4. InTimeOrder(tps, LastTime)
        BY <2>3, <3>1 DEF Inv, HeldKept, ClusterKept
      <4>5. tps[1].time_start <= tps[j].time_start
        BY <4>1, <4>3, <4>4 DEF InTimeOrder
      <4> QED  BY <3>3, <4>3, <4>5
    <3>5. \A t, u \in TimesOf(m_current_ta) : t - u <= m_config["window_length"]
      BY <3>1, <3>2, <3>4 DEF TimesOf, Length
    <3> QED  BY <2>3, <3>5 DEF WindowSpan, Windowed
  <2>4. CASE maker \notin Timed
    BY <2>4 DEF WindowSpan, Timed
  <2> QED  BY <2>1, <2>2, <2>3, <2>4 DEF Timed, Windowed, Sliding
<1> QED  BY <1>1, InvInit, InvNext, PTL DEF Spec

ChargesOfWindows ==
  /\ maker \in Sliding => ChargeAgrees(m_current_window)
  /\ maker = "PlaneCoincidence" => \A p \in Planes : ChargeAgrees(m_plane_windows[p])

\* The charge that these windows keep by hand is, modulo the width of its type,
\* that of their TPs, also when PlaneCoincidence holds a TP twice.
THEOREM MakersKeepCharges == Spec => []ChargesOfWindows
<1>1. Inv => ChargesOfWindows
  BY WellKeptAgrees DEF Inv, HeldKept, ChargesOfWindows
<1> QED  BY <1>1, InvInit, InvNext, PTL DEF Spec

\* Every maker of the factory implements the abstract windowing discipline
\* (ChannelAdjacency in what it holds): the TPs a call lets go of never come
\* back, and TAs are made of successive stretches of the stream.
THEOREM MakersImplementSegmentation == Spec => SegmentsSpec
BY InitSteps, StepKeeps, PTL DEF Spec, SegmentsSpec, Segments!Spec

\* A TP that is neither in a TA nor held is out of date, or was next to a track
\* of ChannelAdjacency; BundleN and Supernova lose none.
THEOREM MakersLoseNothing == Spec => []NothingLost
<1>1. StepInv => NothingLost  BY DEF StepInv
<1> QED  BY <1>1, InitSteps, StepKeeps, PTL DEF Spec

\* One in m_prescale triggers is given out, and of the Prescale maker's TPs
\* every m_prescale-th from the first, until the 16-bit counter may wrap.
THEOREM MakersPrescale == Spec => [](Len(received) < CountModulus => OneInPrescale)
<1>1. StepInv => (Len(received) < CountModulus => OneInPrescale)
  BY DEF StepInv, CountInv, OneInPrescale
<1> QED  BY <1>1, InitSteps, StepKeeps, PTL DEF Spec

\* Every member stays within its type, the windows' counts and the bounds of
\* ChannelDistance included.
THEOREM MakersKeepTheirTypes == Spec => []TypeOK
<1>1. StepInv /\ MemberInv => TypeOK
  <2> SUFFICES ASSUME StepInv, MemberInv PROVE TypeOK
    OBVIOUS
  <2>1. m_current_window \in Windows /\ m_plane_windows \in [Planes -> Windows]
    <3>1. m_current_window \in Windows /\ \A p \in Planes : m_plane_windows[p] \in Windows
      BY KeptParts DEF MemberInv, WindowsSound, Sound
    <3> QED  BY <3>1 DEF MemberInv, WindowsSound
  <2>2. output_ta \in Seq(TAs)
    <3>1. PICK S : S = HonestTAs /\ output_ta \in Seq(S)  BY DEF MemberInv, TAsSound
    <3>2. S \subseteq TAs  BY <3>1 DEF HonestTAs, WindowTAs, BundleTAs, TrackTAs
    <3> QED  BY <3>1, <3>2
  <2>3. /\ maker \in Makers \cup {NoMaker} /\ (maker \in Makers => ValidConfig(m_config, maker))
        /\ received \in Seq(TriggerPrimitive) /\ m_primitive_count \in Nat
    BY DEF StepInv, Inv, Configured, CountInv
  <2>4. /\ m_current_ta \in Seq(TriggerPrimitive) /\ m_extent \in Extents /\ m_bounds \in Bounds
        /\ m_ta_count \in 0 .. CountModulus - 1 /\ flushed \in BOOLEAN
    BY DEF MemberInv, BundleSound, BoundsSound, CountSound
  <2> QED  BY <2>1, <2>2, <2>3, <2>4 DEF TypeOK, TAs, Extents, Bounds
<1> QED  BY <1>1, InitSteps, StepKeeps, InitMembers, StepMembers, PTL DEF Spec

\* The charge and the hit counts of every window, the extent of a Supernova
\* activity, and the charge and start of every TA are those of the TPs in them
\* (a track of ChannelAdjacency has its charge on top of 0 or of what the memory
\* held), as long as no channel has more TPs in a window than an uint16_t counts.
THEOREM MakersTotalsAgree == Spec => [](CountsFit => TotalsAgree)
<1>1. StepInv /\ MemberInv => (CountsFit => TotalsAgree)
  <2> SUFFICES ASSUME MemberInv, CountsFit PROVE TotalsAgree
    OBVIOUS
  <2>1. \A w \in HeldWindows : ChargeAgrees(w) /\ CountsAgree(w)
    <3>1. ASSUME NEW w \in HeldWindows PROVE ChargeAgrees(w) /\ CountsAgree(w)
      <4>1. Sound(w)  BY DEF HeldWindows, MemberInv, WindowsSound
      <4> QED  BY <4>1, SoundAgrees DEF CountsFit
    <3> QED  BY <3>1
  <2>2. ASSUME maker = "Supernova", m_current_ta # <<>>
        PROVE  m_extent = ExtentOf(m_current_ta)
    <3>1. m_current_ta \in Seq(TriggerPrimitive) /\ Spans(m_extent, m_current_ta)
      BY <2>2 DEF MemberInv, BundleSound
    <3> QED  BY <3>1, SpansIsExtent
  <2>3. TAsSound  BY DEF MemberInv
  <2> QED  BY <2>1, <2>2, <2>3, HonestAgree DEF TotalsAgree, HeldWindows
<1> QED  BY <1>1, InitSteps, StepKeeps, InitMembers, StepMembers, PTL DEF Spec

\* Every TA is justified by the TPs in it and no TP is in two of them, for each
\* of the makers, as long as no TA of HorizontalMuon has more channels than an
\* uint16_t counts.
THEOREM MakersJustifyTAs == Spec => [](ChannelsFit => TAsJustified)
<1>1. StepInv /\ ReasonInv /\ ApartInv /\ SegmentsProved!Inv => (ChannelsFit => TAsJustified)
  BY JustifiedAndApart
<1> QED  BY <1>1, InitSteps, StepKeeps, InitMembers, StepMembers, InitReasons, StepReasons,
            InitApart, StepApart, SegmentsKeepOrder, PTL DEF Spec

=============================================================================
