----------------------- MODULE ADCSimpleWindowProofs -----------------------
(***************************************************************************)
(* The ADC-sum TA maker, for every stream and every configuration: its     *)
(* window is always well kept, and it implements the abstract windowing    *)
(* discipline.                                                             *)
(***************************************************************************)
EXTENDS TriggerActivityMakerADCSimpleWindow, InputListLemmas

\* A well-kept window: its two cached numbers say what its list says, and the
\* list is one of an ordered stream that has reached the time now.
WellKept(w, length, now) ==
  /\ w \in Window
  /\ w.adc_integral = TotalAdc(w.tp_list) % AdcModulus
  /\ w.tp_list # <<>> =>
       /\ w.time_start = w.tp_list[1].time_start
       /\ \A i \in 2 .. Len(w.tp_list) : fits(w.tp_list[i].time_start, w.time_start, length)
  /\ InTimeOrder(w.tp_list, now)

-----------------------------------------------------------------------------
(* The methods of the window *)

\* What a TP is.
LEMMA TPType ==
  ASSUME NEW tp \in TriggerPrimitive
  PROVE  /\ tp.time_start \in Timestamps /\ tp.time_start \in Nat
         /\ tp.adc_integral \in Nat /\ tp.adc_integral \in 0 .. AdcModulus - 1
<1>1. tp.time_start \in Timestamps /\ tp.adc_integral \in AdcValues
  BY DEF TriggerPrimitive
<1>2. tp.time_start \in Nat  BY <1>1, TimeModulusAssumption DEF Timestamps
<1>3. tp.adc_integral \in Nat  BY <1>1, TPAssumption DEF AdcValues
<1>4. tp.adc_integral \in 0 .. AdcModulus - 1  BY <1>1, ADCSimpleWindowAssumption
<1> QED  BY <1>1, <1>2, <1>3, <1>4

\* reset() leaves a well-kept window of one TP.
LEMMA ResetKeeps ==
  ASSUME NEW w, NEW tp \in TriggerPrimitive, NEW length
  PROVE  /\ WellKept(reset(w, tp), length, tp.time_start)
         /\ Ids(reset(w, tp).tp_list) = {tp.id}
<1> DEFINE u == reset(w, tp)
<1>1. /\ u.time_start = tp.time_start /\ u.adc_integral = tp.adc_integral
      /\ u.tp_list = <<tp>> /\ u \in Window
  BY TPType DEF reset, Window
<1>2. TotalAdc(<<tp>>) = tp.adc_integral
  <2>1. <<tp>> = Append(<<>>, tp) /\ <<>> \in Seq(TriggerPrimitive)  OBVIOUS
  <2>2. \A e \in TriggerPrimitive : e.adc_integral \in Nat  BY TPType
  <2>3. TotalAdc(Append(<<>>, tp)) = TotalAdc(<<>>) + tp.adc_integral
    BY <2>1, <2>2, TotalAdcAppend
  <2> QED  BY <2>1, <2>3, TotalAdcEmpty, TPType
<1>3. tp.adc_integral % AdcModulus = tp.adc_integral
  BY TPType, ADCSimpleWindowAssumption
<1>4. InTimeOrder(<<tp>>, tp.time_start)
  BY TPType DEF InTimeOrder
<1>5. Len(<<tp>>) = 1 /\ <<tp>>[1] = tp /\ DOMAIN <<tp>> = {1}  OBVIOUS
<1>6. Ids(<<tp>>) = {tp.id}  BY <1>5 DEF Ids
<1> HIDE DEF u
<1>7. WellKept(u, length, tp.time_start)
  BY <1>1, <1>2, <1>3, <1>4, <1>5 DEF WellKept
<1> QED  BY <1>1, <1>6, <1>7 DEF u

\* add() keeps the window well kept when the TP is not older than the stream
\* and fits the window.
LEMMA AddKeeps ==
  ASSUME NEW w, NEW length, NEW now \in Nat, WellKept(w, length, now),
         NEW tp \in TriggerPrimitive, now <= tp.time_start,
         w.tp_list # <<>>, fits(tp.time_start, w.time_start, length)
  PROVE  /\ WellKept(add(w, tp), length, tp.time_start)
         /\ Ids(add(w, tp).tp_list) = Ids(w.tp_list) \cup {tp.id}
<1> DEFINE u == add(w, tp)
           tps == w.tp_list
<1>1. /\ tps \in Seq(TriggerPrimitive) /\ w \in Window
      /\ w.adc_integral = TotalAdc(tps) % AdcModulus
      /\ w.adc_integral \in 0 .. AdcModulus - 1
  BY DEF WellKept, Window
<1>2. /\ u.time_start = w.time_start
      /\ u.adc_integral = (w.adc_integral + tp.adc_integral) % AdcModulus
      /\ u.tp_list = Append(tps, tp)
  BY <1>1 DEF add, UIntPlus, Window
<1>3. u \in Window
  <2>1. (w.adc_integral + tp.adc_integral) % AdcModulus \in 0 .. AdcModulus - 1
    BY <1>1, TPType, ADCSimpleWindowAssumption
  <2>2. Append(tps, tp) \in Seq(TriggerPrimitive)  BY <1>1
  <2> QED  BY <1>1, <2>1, <2>2 DEF add, UIntPlus, Window
<1>4. u.adc_integral = TotalAdc(u.tp_list) % AdcModulus
  <2>1. \A e \in TriggerPrimitive : e.adc_integral \in Nat  BY TPType
  <2>2. TotalAdc(tps) \in Nat  BY <1>1, <2>1, TotalAdcType
  <2>3. TotalAdc(Append(tps, tp)) = TotalAdc(tps) + tp.adc_integral
    BY <1>1, <2>1, TotalAdcAppend
  <2>4. ((TotalAdc(tps) % AdcModulus) + tp.adc_integral) % AdcModulus
          = (TotalAdc(tps) + tp.adc_integral) % AdcModulus
    <3>1. TotalAdc(tps) \in Int /\ tp.adc_integral \in Int  BY <2>1, <2>2
    <3> HIDE DEF tps
    <3> QED  BY <3>1, ModPlus, ADCSimpleWindowAssumption
  <2> QED  BY <1>1, <1>2, <2>3, <2>4
<1>5. /\ Len(u.tp_list) = Len(tps) + 1 /\ DOMAIN u.tp_list = 1 .. (Len(tps) + 1)
      /\ u.tp_list[Len(tps) + 1] = tp
      /\ \A i \in 1 .. Len(tps) : u.tp_list[i] = tps[i]
      /\ DOMAIN tps = 1 .. Len(tps) /\ Len(tps) \in Nat /\ Len(tps) >= 1
      /\ \A i \in DOMAIN tps : tps[i] \in TriggerPrimitive
  BY <1>1, <1>2
<1> HIDE DEF u, tps
<1>6. /\ u.time_start = u.tp_list[1].time_start
      /\ \A i \in 2 .. Len(u.tp_list) : fits(u.tp_list[i].time_start, u.time_start, length)
  <2>1. w.time_start = tps[1].time_start /\ 1 \in 1 .. Len(tps)
    BY <1>5 DEF WellKept, tps
  <2>2. ASSUME NEW i \in 2 .. Len(u.tp_list)
        PROVE  fits(u.tp_list[i].time_start, w.time_start, length)
    <3>1. CASE i = Len(tps) + 1  BY <1>5, <3>1
    <3>2. CASE i # Len(tps) + 1
      <4>1. i \in 2 .. Len(tps) /\ i \in 1 .. Len(tps)  BY <1>5, <3>2
      <4>2. fits(tps[i].time_start, w.time_start, length)
        BY <4>1 DEF WellKept, tps
      <4> QED  BY <1>5, <4>1, <4>2
    <3> QED  BY <3>1, <3>2
  <2> QED  BY <1>2, <1>5, <2>1, <2>2
<1>7. InTimeOrder(u.tp_list, tp.time_start)
  <2>1. InTimeOrder(tps, now)  BY DEF WellKept, tps
  <2>2. \A i \in 1 .. Len(tps) : tps[i].time_start \in Nat /\ tps[i].time_start <= tp.time_start
    BY <1>5, <2>1, TPType DEF InTimeOrder
  <2>3. tp.time_start \in Nat  BY TPType
  <2>4. \A i \in DOMAIN u.tp_list : u.tp_list[i].time_start <= tp.time_start
    BY <1>5, <2>2, <2>3
  <2>5. ASSUME NEW i \in DOMAIN u.tp_list, NEW j \in DOMAIN u.tp_list, i < j
        PROVE  u.tp_list[i].time_start <= u.tp_list[j].time_start
    <3>1. i \in 1 .. Len(tps)  BY <1>5, <2>5
    <3>2. CASE j = Len(tps) + 1  BY <1>5, <2>2, <3>1, <3>2
    <3>3. CASE j # Len(tps) + 1
      <4>1. j \in 1 .. Len(tps)  BY <1>5, <3>3
      <4> QED  BY <1>5, <2>1, <2>5, <3>1, <4>1 DEF InTimeOrder
    <3> QED  BY <3>2, <3>3
  <2> QED  BY <2>4, <2>5 DEF InTimeOrder
<1>8. Ids(u.tp_list) = Ids(tps) \cup {tp.id}
  BY <1>5 DEF Ids
<1> QED  BY <1>3, <1>4, <1>6, <1>7, <1>8 DEF WellKept, u, tps

\* Erasing a front that is not the whole list keeps the window well kept: the
\* charge erased is taken off, and the start time is that of the new front.
LEMMA EraseKeeps ==
  ASSUME NEW w, NEW length \in Nat, NEW now \in Nat, WellKept(w, length, now),
         NEW n \in Nat, n < Len(w.tp_list)
  PROVE  LET u == erase_front(w, n)
         IN  /\ WellKept(u, length, now)
             /\ u.tp_list # <<>>
             /\ u.time_start = w.tp_list[n + 1].time_start
             /\ Ids(u.tp_list) \subseteq Ids(w.tp_list)
<1> DEFINE u == erase_front(w, n)
           tps == w.tp_list
           front == SubSeq(tps, 1, n)
           kept == SubSeq(tps, n + 1, Len(tps))
<1>1. /\ tps \in Seq(TriggerPrimitive) /\ w \in Window
      /\ w.adc_integral = TotalAdc(tps) % AdcModulus
  BY DEF WellKept, Window
<1>2. /\ u.time_start = tps[n + 1].time_start
      /\ u.adc_integral = (w.adc_integral - TotalAdc(front)) % AdcModulus
      /\ u.tp_list = kept
      /\ u = [time_start |-> u.time_start, adc_integral |-> u.adc_integral, tp_list |-> kept]
  BY DEF erase_front
<1>3. /\ kept \in Seq(TriggerPrimitive) /\ front \in Seq(TriggerPrimitive)
      /\ Len(kept) = Len(tps) - n /\ DOMAIN kept = 1 .. (Len(tps) - n)
      /\ \A i \in 1 .. (Len(tps) - n) : kept[i] = tps[n + i]
  BY <1>1
<1>4. /\ DOMAIN tps = 1 .. Len(tps) /\ Len(tps) \in Nat
      /\ \A i \in 1 .. Len(tps) : tps[i] \in TriggerPrimitive /\ tps[i].time_start \in Nat
      /\ n \in 0 .. Len(tps) /\ n + 1 \in 1 .. Len(tps) /\ 1 \in 1 .. Len(tps)
      /\ \A i \in 1 .. (Len(tps) - n) : n + i \in 1 .. Len(tps)
  BY <1>1, TPType
<1>5. u.adc_integral = TotalAdc(kept) % AdcModulus
  <2>1. \A e \in TriggerPrimitive : e.adc_integral \in Nat  BY TPType
  <2>2. TotalAdc(tps) \in Nat /\ TotalAdc(front) \in Nat /\ TotalAdc(kept) \in Nat
    BY <1>1, <1>3, <2>1, TotalAdcType
  <2>3. TotalAdc(tps) = TotalAdc(front) + TotalAdc(kept)
    BY <1>1, <1>4, <2>1, TotalAdcSplit
  <2> HIDE DEF tps, front, kept, u
  <2>4. PICK all \in Int : all = TotalAdc(tps)  BY <2>2
  <2>5. PICK gone \in Int : gone = - TotalAdc(front)  BY <2>2
  <2>6. ((all % AdcModulus) + gone) % AdcModulus = (all + gone) % AdcModulus
    BY ModPlus, ADCSimpleWindowAssumption
  <2>7. all + gone = TotalAdc(kept)  BY <2>2, <2>3, <2>4, <2>5
  <2>8. all % AdcModulus \in Int  BY ADCSimpleWindowAssumption
  <2>9. w.adc_integral - TotalAdc(front) = (all % AdcModulus) + gone
    BY <1>1, <2>2, <2>4, <2>5, <2>8
  <2> QED  BY <1>2, <2>6, <2>7, <2>9
<1>6. u \in Window
  <2>1. u.adc_integral \in 0 .. AdcModulus - 1
    <3>1. \A e \in TriggerPrimitive : e.adc_integral \in Nat  BY TPType
    <3>2. TotalAdc(kept) \in Nat  BY <1>3, <3>1, TotalAdcType
    <3> HIDE DEF kept
    <3> QED  BY <1>5, <3>2, ADCSimpleWindowAssumption
  <2>2. u.time_start \in Timestamps  BY <1>2, <1>4, TPType
  <2> HIDE DEF u, kept
  <2> QED  BY <1>2, <1>3, <2>1, <2>2 DEF Window
<1> HIDE DEF u, tps, front, kept
<1>7. InTimeOrder(tps, now)  BY DEF WellKept, tps
<1>8. InTimeOrder(kept, now)
  <2>1. ASSUME NEW i \in 1 .. (Len(tps) - n), NEW j \in 1 .. (Len(tps) - n), i < j
        PROVE  kept[i].time_start <= kept[j].time_start
    <3>1. n + i < n + j  BY <1>4, <2>1
    <3> QED  BY <1>3, <1>4, <1>7, <3>1 DEF InTimeOrder
  <2>2. \A i \in 1 .. (Len(tps) - n) : kept[i].time_start <= now
    BY <1>3, <1>4, <1>7 DEF InTimeOrder
  <2> QED  BY <1>3, <2>1, <2>2 DEF InTimeOrder
<1>9. kept # <<>> /\ kept[1] = tps[n + 1]
  <2>1. 1 \in 1 .. (Len(tps) - n)  BY <1>4
  <2> QED  BY <1>3, <2>1
<1>10. ASSUME NEW i \in 2 .. Len(kept)
       PROVE  fits(kept[i].time_start, tps[n + 1].time_start, length)
  <2>1. /\ i \in 1 .. (Len(tps) - n) /\ n + i \in 1 .. Len(tps) /\ n + i \in 2 .. Len(tps)
        /\ kept[i] = tps[n + i] /\ n + 1 < n + i
    BY <1>3, <1>4
  <2>2. fits(tps[n + i].time_start, tps[1].time_start, length)
    BY <1>4, <2>1 DEF WellKept, tps
  <2>3. tps[1].time_start <= tps[n + 1].time_start
    <3>1. CASE n = 0  BY <1>4, <3>1
    <3>2. CASE n # 0
      <4>1. 1 < n + 1  BY <3>2
      <4> QED  BY <1>4, <1>7, <4>1 DEF InTimeOrder
    <3> QED  BY <3>1, <3>2
  <2>4. tps[n + 1].time_start <= tps[n + i].time_start
    BY <1>4, <1>7, <2>1 DEF InTimeOrder
  <2>5. fits(tps[n + i].time_start, tps[n + 1].time_start, length)
    BY <1>4, <2>1, <2>2, <2>3, <2>4, FitsLater
  <2> QED  BY <2>1, <2>5
<1>11. Ids(kept) \subseteq Ids(tps)
  BY <1>3, <1>4 DEF Ids
<1>12. WellKept(u, length, now)
  BY <1>2, <1>5, <1>6, <1>8, <1>9, <1>10 DEF WellKept
<1> QED  BY <1>2, <1>9, <1>11, <1>12 DEF u, tps

\* move() keeps the window well kept, whatever it finds to erase.
LEMMA MoveKeeps ==
  ASSUME NEW w, NEW length \in Nat, NEW now \in Nat, WellKept(w, length, now),
         NEW tp \in TriggerPrimitive, now <= tp.time_start
  PROVE  /\ WellKept(move(w, tp, length), length, tp.time_start)
         /\ tp.id \in Ids(move(w, tp, length).tp_list)
         /\ Ids(move(w, tp, length).tp_list) \subseteq Ids(w.tp_list) \cup {tp.id}
<1> DEFINE n == n_to_erase(w.tp_list, tp.time_start, length)
<1>1. Len(w.tp_list) \in Nat
  BY DEF WellKept, Window
<1>2. /\ n \in 0 .. Len(w.tp_list)
      /\ n < Len(w.tp_list) =>
           fits(tp.time_start, w.tp_list[n + 1].time_start, length)
  BY <1>1, NToErase
<1> HIDE DEF n
<1>3. CASE n < Len(w.tp_list)
  <2>1. move(w, tp, length) = add(erase_front(w, n), tp)
    BY <1>3 DEF move, n
  <2>2. PICK e : e = erase_front(w, n)  OBVIOUS
  <2>3. /\ WellKept(e, length, now) /\ e.tp_list # <<>>
        /\ e.time_start = w.tp_list[n + 1].time_start
        /\ Ids(e.tp_list) \subseteq Ids(w.tp_list)
    <3>1. n \in Nat  BY <1>1, <1>2
    <3>2. LET u == erase_front(w, n)
          IN  /\ WellKept(u, length, now)
              /\ u.tp_list # <<>>
              /\ u.time_start = w.tp_list[n + 1].time_start
              /\ Ids(u.tp_list) \subseteq Ids(w.tp_list)
      BY <1>3, <3>1, EraseKeeps
    <3> QED  BY <2>2, <3>2
  <2>4. /\ WellKept(add(e, tp), length, tp.time_start)
        /\ Ids(add(e, tp).tp_list) = Ids(e.tp_list) \cup {tp.id}
    BY <1>2, <1>3, <2>3, AddKeeps
  <2> QED  BY <2>1, <2>2, <2>3, <2>4
<1>4. CASE ~ (n < Len(w.tp_list))
  <2>1. move(w, tp, length) = reset(w, tp)
    BY <1>4 DEF move, n
  <2> QED  BY <2>1, ResetKeeps
<1> QED  BY <1>3, <1>4

-----------------------------------------------------------------------------
(* The maker *)

\* The time the stream has reached.
LastTime == IF received = <<>> THEN 0 ELSE received[Len(received)].time_start

\* The inductive invariant: WindowSpan alone is not inductive, for a move is
\* only as good as the order of the TPs it leaves in the window.
IInv ==
  /\ TypeOK
  /\ WellKept(m_current_window, m_config["window_length"], LastTime)
  /\ received = <<>> => m_current_window.tp_list = <<>>

\* The next TP is a TP, and not older than the last.
LEMMA NextTPInOrder ==
  ASSUME received \in Seq(TriggerPrimitive), NEW tp \in NextTPs(received)
  PROVE  /\ tp \in TriggerPrimitive
         /\ LastTime \in Nat /\ LastTime <= tp.time_start
<1>1. LastTime \in Nat
  <2>1. CASE received = <<>>  BY <2>1 DEF LastTime
  <2>2. CASE received # <<>>
    <3>1. received[Len(received)] \in TriggerPrimitive  BY <2>2
    <3> QED  BY <2>2, <3>1, TPType DEF LastTime
  <2> QED  BY <2>1, <2>2
<1>2. PICK gap \in Gaps, p \in Payloads :
        tp = [id |-> Len(received) + 1, time_start |-> LastTime + gap,
              adc_integral |-> p.adc_integral, channel |-> p.channel,
              time_over_threshold |-> p.time_over_threshold]
  BY DEF NextTPs, LastTime
<1>3. tp.time_start \in Timestamps  BY DEF NextTPs
<1>4. Len(received) + 1 \in Nat \ {0}  OBVIOUS
<1>5. tp.time_start = LastTime + gap /\ gap \in Nat  BY <1>2, TPAssumption
<1> HIDE DEF LastTime
<1>6. p.adc_integral \in AdcValues /\ p.channel \in Channels /\ p.time_over_threshold \in Tots
  BY DEF AdcValues, Channels, Tots
<1>7. tp \in TriggerPrimitive  BY <1>2, <1>3, <1>4, <1>6 DEF TriggerPrimitive
<1> QED  BY <1>1, <1>5, <1>7

\* Receiving a TP, through whichever branch, keeps the window well kept and
\* follows the abstract discipline.
LEMMA ReceiveKeeps ==
  ASSUME IInv, NEW tp \in NextTPs(received), receive(tp)
  PROVE  IInv' /\ Segments!Next
<1> DEFINE w == m_current_window
           length == m_config["window_length"]
<1>1. /\ received \in Seq(TriggerPrimitive) /\ output_ta \in Seq(TriggerActivity)
      /\ w \in Window /\ length \in Nat
      /\ WellKept(w, length, LastTime)
  BY DEF IInv, TypeOK, ConfigKeys
<1>2. tp \in TriggerPrimitive /\ LastTime \in Nat /\ LastTime <= tp.time_start
  BY <1>1, NextTPInOrder
<1>3. /\ received' = Append(received, tp) /\ m_config' = m_config
      /\ received' \in Seq(TriggerPrimitive) /\ received' # <<>>
      /\ Len(received') = Len(received) + 1
      /\ LastTime' = tp.time_start
  BY <1>1, <1>2 DEF receive, LastTime
<1>4. tp.id = Len(received) + 1
  BY DEF NextTPs
<1> DEFINE segments == [k \in DOMAIN output_ta |-> Ids(output_ta[k].inputs)]
<1>5. ASSUME output_ta' = output_ta,
             WellKept(m_current_window', length, tp.time_start),
             NEW kept \in SUBSET Ids(w.tp_list),
             Ids(m_current_window'.tp_list) = kept \cup {tp.id}
      PROVE  IInv' /\ Segments!Next
  <2>1. IInv'
    <3>1. TypeOK'  BY <1>1, <1>3, <1>5 DEF TypeOK, IInv, WellKept
    <3> QED  BY <1>3, <1>5, <3>1 DEF IInv
  <2>2. Segments!Hold(kept)
    BY <1>3, <1>4, <1>5 DEF Segments!Hold
  <2> QED  BY <2>1, <2>2 DEF Segments!Next
<1>6. CASE first_tp(tp)
  <2>1. m_current_window' = reset(w, tp) /\ output_ta' = output_ta
    BY <1>6 DEF first_tp
  <2>2. {} \in SUBSET Ids(w.tp_list) /\ {tp.id} = {} \cup {tp.id}  OBVIOUS
  <2> QED  BY <1>2, <1>5, <2>1, <2>2, ResetKeeps
<1>7. CASE fill_window(tp)
  <2>1. /\ m_current_window' = add(w, tp) /\ output_ta' = output_ta
        /\ w.tp_list # <<>> /\ fits(tp.time_start, w.time_start, length)
    BY <1>7 DEF fill_window, is_empty, in_window
  <2>2. Ids(w.tp_list) \in SUBSET Ids(w.tp_list)  OBVIOUS
  <2>3. /\ WellKept(m_current_window', length, tp.time_start)
        /\ Ids(m_current_window'.tp_list) = Ids(w.tp_list) \cup {tp.id}
    BY <1>1, <1>2, <2>1, AddKeeps
  <2> QED  BY <1>5, <2>1, <2>2, <2>3
<1>8. CASE slide_window(tp)
  <2>1. m_current_window' = move(w, tp, length) /\ output_ta' = output_ta
    BY <1>8 DEF slide_window
  <2>2. /\ WellKept(m_current_window', length, tp.time_start)
        /\ \E ids \in SUBSET Ids(w.tp_list) :
             Ids(m_current_window'.tp_list) = ids \cup {tp.id}
    <3> HIDE DEF w, length
    <3>1. /\ WellKept(move(w, tp, length), length, tp.time_start)
          /\ tp.id \in Ids(move(w, tp, length).tp_list)
          /\ Ids(move(w, tp, length).tp_list) \subseteq Ids(w.tp_list) \cup {tp.id}
      BY <1>1, <1>2, MoveKeeps
    <3> DEFINE moved == Ids(move(w, tp, length).tp_list)
               kept == moved \cap Ids(w.tp_list)
    <3>2. kept \in SUBSET Ids(w.tp_list) /\ moved = kept \cup {tp.id}
      BY <3>1
    <3> QED  BY <2>1, <3>1, <3>2
  <2> QED  BY <1>5, <2>1, <2>2
<1>9. CASE emit_ta(tp)
  <2>1. /\ m_current_window' = reset(w, tp) /\ w.tp_list # <<>>
        /\ output_ta' = Append(output_ta, construct_ta(w))
    BY <1>9 DEF emit_ta, is_empty
  <2>2. /\ WellKept(m_current_window', length, tp.time_start)
        /\ Ids(m_current_window'.tp_list) = {tp.id}
    BY <1>2, <2>1, ResetKeeps
  <2>3. construct_ta(w) \in TriggerActivity /\ construct_ta(w).inputs = w.tp_list
    BY <1>1 DEF construct_ta, Window, TriggerActivity
  <2>4. IInv'
    <3>1. output_ta' \in Seq(TriggerActivity)  BY <1>1, <2>1, <2>3
    <3>2. TypeOK'  BY <1>1, <1>3, <2>2, <3>1 DEF TypeOK, IInv, WellKept
    <3> QED  BY <1>3, <2>2, <3>2 DEF IInv
  <2>5. Ids(w.tp_list) # {}
    <3>1. 1 \in DOMAIN w.tp_list  BY <1>1, <2>1 DEF Window
    <3> QED  BY <3>1 DEF Ids
  <2>6. segments' = Append(segments, Ids(w.tp_list))
    <3>1. /\ Len(output_ta) \in Nat /\ DOMAIN output_ta = 1 .. Len(output_ta)
          /\ DOMAIN output_ta' = 1 .. (Len(output_ta) + 1)
          /\ \A k \in 1 .. Len(output_ta) : output_ta'[k] = output_ta[k]
          /\ output_ta'[Len(output_ta) + 1] = construct_ta(w)
      BY <1>1, <2>1, <2>3
    <3>2. Len(segments) = Len(output_ta)  BY <3>1
    <3>3. segments' = [k \in 1 .. (Len(output_ta) + 1) |-> Ids(output_ta'[k].inputs)]
      BY <3>1
    <3>4. ASSUME NEW k \in 1 .. (Len(output_ta) + 1)
          PROVE  Ids(output_ta'[k].inputs)
                   = IF k <= Len(output_ta) THEN Ids(output_ta[k].inputs) ELSE Ids(w.tp_list)
      BY <2>3, <3>1
    <3>5. segments \in Seq({ Ids(output_ta[k].inputs) : k \in DOMAIN output_ta })
      BY <3>1
    <3>6. /\ DOMAIN Append(segments, Ids(w.tp_list)) = 1 .. (Len(output_ta) + 1)
          /\ \A k \in 1 .. (Len(output_ta) + 1) :
               Append(segments, Ids(w.tp_list))[k]
                 = IF k <= Len(output_ta) THEN Ids(output_ta[k].inputs) ELSE Ids(w.tp_list)
      BY <3>1, <3>2, <3>5
    <3> QED  BY <3>3, <3>4, <3>6
  <2>7. Segments!GiveAndStart
    BY <1>3, <1>4, <2>2, <2>5, <2>6 DEF Segments!GiveAndStart
  <2> QED  BY <2>4, <2>7 DEF Segments!Next
<1> QED  BY <1>6, <1>7, <1>8, <1>9 DEF receive

\* The maker starts with a well-kept, empty window, and configuring it before
\* the first TP changes nothing of that.
LEMMA InitKeeps ==
  Init => IInv /\ Segments!Init
<1> SUFFICES ASSUME Init PROVE IInv /\ Segments!Init
  OBVIOUS
<1>1. TypeOK
  BY ADCSimpleWindowAssumption, TimeModulusAssumption
     DEF Init, TypeOK, EmptyWindow, Window, Timestamps
<1>2. InTimeOrder(<<>>, 0)  BY DEF InTimeOrder
<1>3. 0 % AdcModulus = 0  BY ADCSimpleWindowAssumption
<1>4. IInv
  BY <1>1, <1>2, <1>3, TotalAdcEmpty DEF Init, IInv, TypeOK, EmptyWindow, WellKept, LastTime
<1>5. Segments!Init
  BY DEF Init, EmptyWindow, Segments!Init, Ids
<1> QED  BY <1>4, <1>5

LEMMA ConfigureKeeps ==
  ASSUME IInv, NEW config \in Configs, configure(config)
  PROVE  IInv' /\ UNCHANGED Segments!segmentVars
<1>1. /\ received = <<>> /\ m_current_window.tp_list = <<>>
      /\ UNCHANGED <<m_current_window, output_ta, received>>
  BY DEF configure, IInv
<1>2. m_config' \in [ConfigKeys -> Nat]
  <2>1. PICK keys \in SUBSET ConfigKeys : config \in [keys -> Nat]
    BY ADCSimpleWindowAssumption
  <2> QED  BY <2>1 DEF configure, IInv, TypeOK
<1>3. TypeOK'  BY <1>1, <1>2 DEF IInv, TypeOK
<1>4. LastTime' = LastTime  BY <1>1 DEF LastTime
<1>5. WellKept(m_current_window, m_config'["window_length"], LastTime)
  BY <1>1 DEF IInv, WellKept
<1>6. IInv'
  BY <1>1, <1>3, <1>4, <1>5 DEF IInv
<1> QED  BY <1>1, <1>6 DEF Segments!segmentVars

LEMMA StepKeeps ==
  IInv /\ [Next]_vars => IInv' /\ [Segments!Next]_(Segments!segmentVars)
<1> SUFFICES ASSUME IInv, [Next]_vars
             PROVE  IInv' /\ [Segments!Next]_(Segments!segmentVars)
  OBVIOUS
<1>1. ASSUME NEW config \in Configs, configure(config)
      PROVE  IInv' /\ UNCHANGED Segments!segmentVars
  BY <1>1, ConfigureKeeps
<1>2. ASSUME NEW tp \in NextTPs(received), receive(tp)
      PROVE  IInv' /\ Segments!Next
  BY <1>2, ReceiveKeeps
<1>3. CASE UNCHANGED vars
  BY <1>3 DEF vars, IInv, TypeOK, LastTime, Segments!segmentVars
<1> QED  BY <1>1, <1>2, <1>3 DEF Next

-----------------------------------------------------------------------------
(* The theorems *)

\* Every number of the maker stays within its C++ type.
THEOREM TypeCorrectness == Spec => []TypeOK
<1>1. IInv => TypeOK  BY DEF IInv
<1> QED  BY <1>1, InitKeeps, StepKeeps, PTL DEF Spec

\* The charge kept by hand in add, move and reset is, on its type, the charge
\* of the TPs in the window.
THEOREM ChargeCorrectness == Spec => []ChargeIsThatOfTheWindow
<1>1. IInv => ChargeIsThatOfTheWindow
  BY DEF IInv, WellKept, ChargeIsThatOfTheWindow
<1> QED  BY <1>1, InitKeeps, StepKeeps, PTL DEF Spec

\* The window starts at its first TP and is never longer than window_length.
THEOREM SpanCorrectness == Spec => []WindowSpan
<1>1. IInv => WindowSpan
  BY DEF IInv, WellKept, WindowSpan, in_window
<1> QED  BY <1>1, InitKeeps, StepKeeps, PTL DEF Spec

\* The maker implements the abstract windowing discipline.
THEOREM ImplementsSegmentation == Spec => SegmentsSpec
BY InitKeeps, StepKeeps, PTL DEF Spec, SegmentsSpec, Segments!Spec

\* The abstract discipline's proof, about this maker's TAs.
Discipline ==
  INSTANCE SegmentationProofs WITH
    received <- Len(received),
    held <- Ids(m_current_window.tp_list),
    segments <- [k \in DOMAIN output_ta |-> Ids(output_ta[k].inputs)]

\* TAs are disjoint and come out in stream order.
THEOREM TAsComeInOrder == Spec => []TAsInOrder
<1>1. Segments!Init <=> Discipline!Init
  BY DEF Segments!Init, Discipline!Init
<1>2. [Segments!Next]_(Segments!segmentVars) <=> [Discipline!Next]_(Discipline!segmentVars)
  BY DEF Segments!Next, Discipline!Next, Segments!segmentVars, Discipline!segmentVars,
         Segments!Hold, Discipline!Hold, Segments!JoinAndGive, Discipline!JoinAndGive,
         Segments!GiveAndStart, Discipline!GiveAndStart,
         Segments!GiveAll, Discipline!GiveAll, Segments!Skip, Discipline!Skip
<1>3. Discipline!Spec => []Discipline!Inv
  BY Discipline!SegmentationInvariant
<1>4. Discipline!Inv => TAsInOrder
  BY DEF Discipline!Inv, Discipline!SegmentsInOrder, TAsInOrder, Segments!SegmentsInOrder
<1> QED  BY <1>1, <1>2, <1>3, <1>4, InitKeeps, StepKeeps, PTL DEF Spec, Discipline!Spec

-----------------------------------------------------------------------------
(* Completeness: nothing is lost before its time *)

\* How many TPs had arrived before the first of those in the window.
Before == Len(received) - Len(m_current_window.tp_list)

\* The stream is numbered and in order, and the window is the end of it.
EndOfStream ==
  /\ \A i \in DOMAIN received : received[i].id = i
  /\ InTimeOrder(received, LastTime)
  /\ IsEnd(m_current_window.tp_list, received, Before)

\* The stream has left the window of this TA behind, and will not come back.
Closed(ta, now, length) ==
  /\ ta.time_start \in Nat /\ ta.time_start <= now
  /\ ~ fits(now, ta.time_start, length)

\* What is held, and what was given out, in terms of the stream.
Complete ==
  /\ EndOfStream
  /\ received = <<>> => output_ta = <<>>
  /\ \A k \in DOMAIN output_ta : Closed(output_ta[k], LastTime, m_config["window_length"])
  /\ NoTPLostEarly
  /\ TAsAreComplete
  /\ NoActivityMissed

\* Every way through operator() keeps an end of the window, of which the front
\* that goes does not fit the TP, or gives out the whole.
LEMMA ReceiveTakesTheEnd ==
  ASSUME IInv, EndOfStream, NEW tp \in NextTPs(received), receive(tp)
  PROVE  \E b \in Before .. Len(received) :
           /\ IsEnd(m_current_window'.tp_list, received', b)
           /\ \/ /\ output_ta' = output_ta
                 /\ \A i \in (Before + 1) .. b :
                      ~ fits(tp.time_start, received[i].time_start, m_config["window_length"])
                 /\ b # Before => ~ over_threshold
              \/ /\ output_ta' = Append(output_ta, construct_ta(m_current_window))
                 /\ b = Len(received)
                 /\ ~ is_empty(m_current_window) /\ ~ in_window(tp)
<1>1. PICK tps \in Seq(TriggerPrimitive) : tps = m_current_window.tp_list
  BY DEF IInv, TypeOK, Window
<1>2. received \in Seq(TriggerPrimitive) /\ tp \in TriggerPrimitive
  BY NextTPInOrder DEF IInv, TypeOK
<1>3. received' = Append(received, tp)  BY DEF receive
<1>4. PICK c, m \in Nat : c = Before /\ m = Len(received) /\ c \in 0 .. m /\ c \in c .. m
                          /\ m \in c .. m /\ IsEnd(tps, received, c)
  <2>1. PICK m \in Nat : m = Len(received)  BY <1>2
  <2>2. IsEnd(tps, received, Before)  BY <1>1 DEF EndOfStream
  <2>3. PICK c \in 0 .. m : c = Before  BY <2>1, <2>2 DEF IsEnd
  <2>4. c \in Nat /\ c \in c .. m /\ m \in c .. m  OBVIOUS
  <2> QED  BY <2>1, <2>2, <2>3, <2>4
<1>5. \A u : reset(u, tp).tp_list = <<tp>>  BY DEF reset
<1>6. IsEnd(<<tp>>, received', m)  BY <1>2, <1>3, <1>4, EndReset
<1>7. \A i \in (c + 1) .. c : FALSE  BY <1>4
<1>8. CASE first_tp(tp)
  <2>1. /\ m_current_window'.tp_list = <<tp>> /\ output_ta' = output_ta
        /\ tps = <<>>
    BY <1>1, <1>5, <1>8 DEF first_tp, is_empty
  <2>2. m = c  BY <1>4, <2>1 DEF IsEnd
  <2> QED  BY <1>4, <1>6, <1>7, <2>1, <2>2
<1>9. CASE fill_window(tp)
  <2>1. m_current_window'.tp_list = Append(tps, tp) /\ output_ta' = output_ta
    <3>1. add(m_current_window, tp).tp_list = Append(tps, tp)
      BY <1>1 DEF add, IInv, TypeOK, Window
    <3> QED  BY <1>9, <3>1 DEF fill_window
  <2>2. IsEnd(Append(tps, tp), received', c)  BY <1>2, <1>3, <1>4, EndAppend
  <2> QED  BY <1>4, <1>7, <2>1, <2>2
<1>10. CASE emit_ta(tp)
  <2>1. /\ m_current_window'.tp_list = <<tp>>
        /\ output_ta' = Append(output_ta, construct_ta(m_current_window))
        /\ ~ is_empty(m_current_window) /\ ~ in_window(tp)
    BY <1>5, <1>10 DEF emit_ta
  <2> QED  BY <1>4, <1>6, <2>1
<1>11. CASE slide_window(tp)
  <2>1. PICK length : length = m_config["window_length"]  OBVIOUS
  <2>2. /\ m_current_window' = move(m_current_window, tp, length)
        /\ output_ta' = output_ta /\ ~ over_threshold
    BY <1>11, <2>1 DEF slide_window
  <2>3. move(m_current_window, tp, length).tp_list = Moved(tps, tp, length)
    <3>1. PICK n : n = n_to_erase(tps, tp.time_start, length)  OBVIOUS
    <3>2. CASE n < Len(tps)
      <4>1. move(m_current_window, tp, length) = add(erase_front(m_current_window, n), tp)
        BY <1>1, <3>1, <3>2 DEF move
      <4>2. add(erase_front(m_current_window, n), tp).tp_list
              = Append(SubSeq(tps, n + 1, Len(tps)), tp)
        BY <1>1 DEF add, erase_front
      <4> QED  BY <3>1, <3>2, <4>1, <4>2 DEF Moved
    <3>3. CASE ~ (n < Len(tps))
      <4>1. move(m_current_window, tp, length) = reset(m_current_window, tp)
        BY <1>1, <3>1, <3>3 DEF move
      <4> QED  BY <1>5, <3>1, <3>3, <4>1 DEF Moved
    <3> QED  BY <3>2, <3>3
  <2>4. \E b \in c .. Len(received) :
          /\ IsEnd(Moved(tps, tp, length), Append(received, tp), b)
          /\ \A i \in (c + 1) .. b : ~ fits(tp.time_start, received[i].time_start, length)
    BY <1>2, <1>4, EndMove
  <2> QED  BY <1>3, <1>4, <2>1, <2>2, <2>3, <2>4
<1> QED  BY <1>8, <1>9, <1>10, <1>11 DEF receive

\* The stream stays numbered and in order, and the window stays its end.
LEMMA ReceiveKeepsTheEnd ==
  ASSUME IInv, EndOfStream, NEW tp \in NextTPs(received), receive(tp)
  PROVE  /\ EndOfStream'
         /\ LastTime' = tp.time_start
         /\ LastTime \in Nat /\ LastTime <= tp.time_start
<1>1. received \in Seq(TriggerPrimitive) /\ received' = Append(received, tp)
  BY DEF IInv, TypeOK, receive
<1>2. /\ tp \in TriggerPrimitive /\ LastTime \in Nat /\ LastTime <= tp.time_start
  BY <1>1, NextTPInOrder
<1>3. PICK m \in Nat : m = Len(received) /\ DOMAIN received = 1 .. m
  BY <1>1
<1>4. /\ DOMAIN received' = 1 .. (m + 1) /\ Len(received') = m + 1
      /\ received'[m + 1] = tp /\ \A i \in 1 .. m : received'[i] = received[i]
  BY <1>1, <1>3
<1>5. tp.id = m + 1  BY <1>3 DEF NextTPs
<1>6. \A i \in DOMAIN received' : received'[i].id = i
  <2>1. \A i \in 1 .. m : received[i].id = i  BY <1>3 DEF EndOfStream
  <2>2. ASSUME NEW i \in 1 .. (m + 1) PROVE i = m + 1 \/ i \in 1 .. m  OBVIOUS
  <2> QED  BY <1>4, <1>5, <2>1, <2>2
<1>7. LastTime' = tp.time_start
  <2>1. received' # <<>>  BY <1>1
  <2> QED  BY <1>4, <2>1 DEF LastTime
<1>8. InTimeOrder(received', LastTime')
  <2>1. InTimeOrder(received, LastTime)  BY DEF EndOfStream
  <2>2. \A e \in TriggerPrimitive : e.time_start \in Nat  BY TPType
  <2> HIDE DEF LastTime
  <2>3. InTimeOrder(Append(received, tp), tp.time_start)
    BY <1>1, <1>2, <2>1, <2>2, InOrderAppend
  <2> QED  BY <1>1, <1>7, <2>3
<1>9. IsEnd(m_current_window'.tp_list, received', Before')
  <2>1. PICK b \in Before .. Len(received) : IsEnd(m_current_window'.tp_list, received', b)
    BY ReceiveTakesTheEnd
  <2>2. b \in 0 .. (m + 1) /\ Len(m_current_window'.tp_list) = (m + 1) - b
    BY <1>4, <2>1 DEF IsEnd
  <2>3. Before' = b  BY <1>4, <2>2 DEF Before
  <2> QED  BY <2>1, <2>3
<1> QED  BY <1>2, <1>6, <1>7, <1>8, <1>9 DEF EndOfStream

\* The same by arrival number: what is held before and after, and given out.
LEMMA ReceiveByNumber ==
  ASSUME IInv, EndOfStream, NEW tp \in NextTPs(received), receive(tp)
  PROVE  \E b \in Before .. Len(received) :
           /\ Ids(m_current_window.tp_list) = (Before + 1) .. Len(received)
           /\ Ids(m_current_window'.tp_list) = (b + 1) .. (Len(received) + 1)
           /\ \/ /\ output_ta' = output_ta /\ Emitted' = Emitted
                 /\ \A i \in (Before + 1) .. b :
                      ~ fits(tp.time_start, received[i].time_start, m_config["window_length"])
                 /\ b # Before => ~ over_threshold
              \/ /\ output_ta' = Append(output_ta, construct_ta(m_current_window))
                 /\ Emitted' = Emitted \cup Ids(m_current_window.tp_list)
                 /\ b = Len(received)
                 /\ ~ is_empty(m_current_window) /\ ~ in_window(tp)
<1>1. /\ received \in Seq(TriggerPrimitive) /\ received' = Append(received, tp)
      /\ m_current_window.tp_list \in Seq(TriggerPrimitive)
  BY DEF IInv, TypeOK, Window, receive
<1>2. /\ IInv' /\ EndOfStream'  BY ReceiveKeeps, ReceiveKeepsTheEnd
<1>3. /\ received' \in Seq(TriggerPrimitive) /\ Len(received') = Len(received) + 1
      /\ m_current_window'.tp_list \in Seq(TriggerPrimitive)
  <2>1. tp \in TriggerPrimitive  BY <1>1, NextTPInOrder
  <2>2. received' \in Seq(TriggerPrimitive) /\ Len(received') = Len(received) + 1
    BY <1>1, <2>1
  <2> QED  BY <1>2, <2>2 DEF IInv, TypeOK, Window
<1>4. Ids(m_current_window.tp_list) = (Before + 1) .. Len(received)
  <2>1. /\ IsEnd(m_current_window.tp_list, received, Before)
        /\ \A i \in DOMAIN received : received[i].id = i
    BY DEF EndOfStream
  <2> QED  BY <1>1, <2>1, EndIds
<1>5. ASSUME NEW b, IsEnd(m_current_window'.tp_list, received', b)
      PROVE  Ids(m_current_window'.tp_list) = (b + 1) .. (Len(received) + 1)
  <2>1. \A i \in DOMAIN received' : received'[i].id = i  BY <1>2 DEF EndOfStream
  <2> QED  BY <1>3, <1>5, <2>1, EndIds
<1>6. ASSUME output_ta' = Append(output_ta, construct_ta(m_current_window))
      PROVE  Emitted' = Emitted \cup Ids(m_current_window.tp_list)
  <2>1. output_ta \in Seq(TriggerActivity)  BY DEF IInv, TypeOK
  <2>2. PICK n \in Nat : n = Len(output_ta) /\ DOMAIN output_ta = 1 .. n
    BY <2>1
  <2>3. /\ DOMAIN output_ta' = 1 .. (n + 1)
        /\ output_ta'[n + 1] = construct_ta(m_current_window)
        /\ \A k \in 1 .. n : output_ta'[k] = output_ta[k]
    BY <1>6, <2>1, <2>2
  <2>4. output_ta'[n + 1].inputs = m_current_window.tp_list
    BY <2>3 DEF construct_ta
  <2>5. 1 .. (n + 1) = 1 .. n \cup {n + 1}  OBVIOUS
  <2>6. Emitted' = UNION { Ids(output_ta'[k].inputs) : k \in 1 .. n \cup {n + 1} }
    BY <2>3, <2>5 DEF Emitted
  <2>7. Emitted = UNION { Ids(output_ta[k].inputs) : k \in 1 .. n }
    BY <2>2 DEF Emitted
  <2> QED  BY <2>3, <2>4, <2>6, <2>7
<1>7. ASSUME output_ta' = output_ta PROVE Emitted' = Emitted
  BY <1>7 DEF Emitted
<1>8. PICK b \in Before .. Len(received) :
        /\ IsEnd(m_current_window'.tp_list, received', b)
        /\ \/ /\ output_ta' = output_ta
              /\ \A i \in (Before + 1) .. b :
                   ~ fits(tp.time_start, received[i].time_start, m_config["window_length"])
              /\ b # Before => ~ over_threshold
           \/ /\ output_ta' = Append(output_ta, construct_ta(m_current_window))
              /\ b = Len(received)
              /\ ~ is_empty(m_current_window) /\ ~ in_window(tp)
  BY ReceiveTakesTheEnd
<1> QED  BY <1>4, <1>5, <1>6, <1>7, <1>8

\* What is out of date stays so.
LEMMA ReceiveLosesNothing ==
  ASSUME IInv, Complete, NEW tp \in NextTPs(received), receive(tp)
  PROVE  NoTPLostEarly'
<1> DEFINE length == m_config["window_length"]
<1>1. /\ received \in Seq(TriggerPrimitive) /\ received' = Append(received, tp)
      /\ length \in Nat /\ m_config' = m_config
  BY DEF IInv, TypeOK, receive, ConfigKeys
<1>2. /\ EndOfStream /\ NoTPLostEarly  BY DEF Complete
<1>3. PICK c, m \in Nat :
        /\ c = Before /\ m = Len(received) /\ DOMAIN received = 1 .. m /\ c \in 0 .. m
        /\ \A i \in 1 .. m : received[i] \in TriggerPrimitive /\ received[i].time_start \in Nat
  <2>1. PICK m \in Nat : m = Len(received) /\ DOMAIN received = 1 .. m  BY <1>1
  <2>2. PICK c \in 0 .. m : c = Before  BY <1>2, <2>1 DEF EndOfStream, IsEnd
  <2>3. \A i \in 1 .. m : received[i] \in TriggerPrimitive /\ received[i].time_start \in Nat
    BY <1>1, <2>1, TPType
  <2> QED  BY <2>1, <2>2, <2>3
<1>4. PICK b \in c .. m :
        /\ Ids(m_current_window.tp_list) = (c + 1) .. m
        /\ Ids(m_current_window'.tp_list) = (b + 1) .. (m + 1)
        /\ \/ /\ Emitted' = Emitted
              /\ \A i \in (c + 1) .. b : ~ fits(tp.time_start, received[i].time_start, length)
           \/ Emitted' = Emitted \cup Ids(m_current_window.tp_list)
  <2> HIDE DEF Before, length
  <2> QED  BY <1>2, <1>3, ReceiveByNumber DEF length
<1>5. /\ DOMAIN received' = 1 .. (m + 1) /\ Len(received') = m + 1
      /\ received'[m + 1] = tp /\ \A i \in 1 .. m : received'[i] = received[i]
  BY <1>1, <1>3
<1>6. tp.time_start \in Nat /\ LastTime \in Nat /\ LastTime <= tp.time_start
  BY <1>1, NextTPInOrder, TPType
<1>7. ASSUME NEW i \in 1 .. m, ~ fits(LastTime, received[i].time_start, length)
      PROVE  ~ fits(tp.time_start, received[i].time_start, length)
  <2>1. received[i].time_start <= LastTime
    BY <1>2, <1>3 DEF EndOfStream, InTimeOrder
  <2> HIDE DEF LastTime, length
  <2>2. PICK t \in Nat, now \in Nat, end \in Nat, l \in Nat :
          t = received[i].time_start /\ now = LastTime /\ end = tp.time_start /\ l = length
    BY <1>1, <1>3, <1>6
  <2> QED  BY <1>6, <1>7, <2>1, <2>2, FitsEarlier
<1>8. ASSUME NEW i \in 1 .. (m + 1)
      PROVE  \/ i \in Emitted' \cup Ids(m_current_window'.tp_list)
             \/ ~ fits(tp.time_start, received'[i].time_start, length)
  <2>1. CASE i = m + 1
    <3>1. i \in (b + 1) .. (m + 1)  BY <1>3, <1>4, <2>1
    <3> QED  BY <1>4, <3>1
  <2>2. CASE i \in (b + 1) .. (m + 1)  BY <1>4, <2>2
  <2>3. CASE i # m + 1 /\ i \notin (b + 1) .. (m + 1)
    <3>1. i \in 1 .. m /\ i <= b  BY <1>4, <2>3
    <3>2. CASE i \in (c + 1) .. m
      <4>1. i \in (c + 1) .. b  BY <3>1, <3>2
      <4> QED  BY <1>4, <1>5, <3>1, <3>2, <4>1
    <3>3. CASE i \in Emitted
      BY <1>4, <3>3
    <3>4. CASE i \notin (c + 1) .. m /\ i \notin Emitted
      <4>1. m # 0 /\ received # <<>>  BY <1>3, <3>1
      <4>2. ~ fits(LastTime, received[i].time_start, length)
        BY <1>2, <1>3, <1>4, <3>1, <3>4, <4>1 DEF NoTPLostEarly, LastTime
      <4> HIDE DEF LastTime, length
      <4> QED  BY <1>5, <1>7, <3>1, <4>2
    <3> QED  BY <3>2, <3>3, <3>4
  <2> QED  BY <2>1, <2>2, <2>3
<1> QED  BY <1>1, <1>5, <1>8 DEF NoTPLostEarly

\* The stream has left behind the TA that goes out, and comes back to none.
LEMMA ReceiveCloses ==
  ASSUME IInv, Complete, NEW tp \in NextTPs(received), receive(tp),
         NEW k \in DOMAIN output_ta'
  PROVE  /\ Closed(output_ta'[k], LastTime', m_config'["window_length"])
         /\ \/ k \in DOMAIN output_ta /\ output_ta'[k] = output_ta[k]
            \/ /\ output_ta'[k].inputs = m_current_window.tp_list
               /\ m_current_window.tp_list # <<>>
<1> DEFINE w == m_current_window
<1>1. PICK length \in Nat : length = m_config["window_length"] /\ m_config' = m_config
  BY DEF IInv, TypeOK, receive, ConfigKeys
<1>2. output_ta \in Seq(TriggerActivity) /\ received \in Seq(TriggerPrimitive)
  BY DEF IInv, TypeOK
<1>3. PICK now \in Nat, next \in Nat :
        now = LastTime /\ next = LastTime' /\ next = tp.time_start /\ now <= next
  <2>1. tp \in TriggerPrimitive  BY <1>2, NextTPInOrder
  <2>2. LastTime' = tp.time_start /\ LastTime \in Nat /\ LastTime <= tp.time_start
    BY ReceiveKeepsTheEnd DEF Complete
  <2>3. tp.time_start \in Nat  BY <2>1, TPType
  <2> HIDE DEF LastTime
  <2> QED  BY <2>2, <2>3
<1>4. CASE k \in DOMAIN output_ta /\ output_ta'[k] = output_ta[k]
  <2>1. Closed(output_ta[k], now, length)  BY <1>1, <1>3, <1>4 DEF Complete
  <2>2. PICK t \in Nat : t = output_ta[k].time_start  BY <2>1 DEF Closed
  <2>3. t <= now /\ ~ fits(now, t, length)  BY <1>1, <1>3, <2>1, <2>2 DEF Closed
  <2>4. t <= next /\ ~ fits(next, t, length)  BY <1>3, <2>3, FitsEarlier
  <2> QED  BY <1>1, <1>3, <1>4, <2>2, <2>4 DEF Closed
<1>5. CASE ~ (k \in DOMAIN output_ta /\ output_ta'[k] = output_ta[k])
  <2>1. /\ output_ta' = Append(output_ta, construct_ta(w))
        /\ ~ is_empty(w) /\ ~ in_window(tp)
    BY <1>5, ReceiveTakesTheEnd DEF Complete
  <2>2. output_ta'[k] = construct_ta(w)
    <3>1. PICK n \in Nat : n = Len(output_ta) /\ DOMAIN output_ta = 1 .. n
      BY <1>2
    <3>2. /\ DOMAIN output_ta' = 1 .. (n + 1) /\ output_ta'[n + 1] = construct_ta(w)
          /\ \A i \in 1 .. n : output_ta'[i] = output_ta[i]
      BY <1>2, <2>1, <3>1
    <3>3. k = n + 1  BY <1>5, <3>1, <3>2
    <3> QED  BY <3>2, <3>3
  <2>3. /\ output_ta'[k].inputs = w.tp_list /\ output_ta'[k].time_start = w.time_start
        /\ w.tp_list # <<>>
    BY <2>1, <2>2 DEF construct_ta, is_empty
  <2>4. PICK t \in Nat : t = w.time_start /\ t <= now
    <3>1. /\ w.tp_list \in Seq(TriggerPrimitive) /\ w.time_start = w.tp_list[1].time_start
          /\ InTimeOrder(w.tp_list, LastTime)
      BY <2>3 DEF IInv, WellKept, Window
    <3>2. 1 \in DOMAIN w.tp_list /\ w.tp_list[1] \in TriggerPrimitive  BY <2>3, <3>1
    <3>3. w.tp_list[1].time_start <= LastTime  BY <3>1, <3>2 DEF InTimeOrder
    <3> HIDE DEF w, LastTime
    <3> QED  BY <1>3, <3>1, <3>2, <3>3, TPType
  <2>5. ~ fits(next, t, length)  BY <1>1, <1>3, <2>1, <2>4 DEF in_window
  <2>6. t <= next  BY <1>3, <2>4
  <2> QED  BY <1>1, <1>3, <2>3, <2>4, <2>5, <2>6 DEF Closed
<1> QED  BY <1>4, <1>5

\* A TA has all of its window, and no later TP could have been in it.
LEMMA ReceiveKeepsTAsComplete ==
  ASSUME IInv, Complete, NEW tp \in NextTPs(received), receive(tp)
  PROVE  TAsAreComplete'
<1> SUFFICES ASSUME NEW k \in DOMAIN output_ta', NEW i \in DOMAIN received',
                    i >= output_ta'[k].inputs[1].id,
                    fits(received'[i].time_start, output_ta'[k].time_start, m_config'["window_length"])
             PROVE  i \in Ids(output_ta'[k].inputs)
  BY DEF TAsAreComplete
<1> DEFINE tps == m_current_window.tp_list
<1>1. /\ received \in Seq(TriggerPrimitive) /\ received' = Append(received, tp)
      /\ tps \in Seq(TriggerPrimitive) /\ m_config' = m_config
  BY DEF IInv, TypeOK, Window, receive
<1>2. PICK m \in Nat : m = Len(received) /\ DOMAIN received = 1 .. m
  BY <1>1
<1>3. /\ DOMAIN received' = 1 .. (m + 1) /\ received'[m + 1] = tp
      /\ \A j \in 1 .. m : received'[j] = received[j]
  BY <1>1, <1>2
<1>4. /\ Closed(output_ta'[k], LastTime', m_config'["window_length"])
      /\ \/ k \in DOMAIN output_ta /\ output_ta'[k] = output_ta[k]
         \/ output_ta'[k].inputs = tps /\ tps # <<>>
  BY ReceiveCloses
<1>5. LastTime' = tp.time_start  BY ReceiveKeepsTheEnd DEF Complete
<1>6. i \in 1 .. m
  <2>1. i # m + 1
    <3> HIDE DEF LastTime
    <3> QED  BY <1>3, <1>4, <1>5 DEF Closed
  <2> QED  BY <1>3, <2>1
<1>7. CASE k \in DOMAIN output_ta /\ output_ta'[k] = output_ta[k]
  BY <1>1, <1>2, <1>3, <1>6, <1>7 DEF Complete, TAsAreComplete
<1>8. CASE output_ta'[k].inputs = tps /\ tps # <<>>
  <2>1. EndOfStream  BY DEF Complete
  <2>2. PICK c \in 0 .. m : c = Before /\ IsEnd(tps, received, c)
    BY <1>2, <2>1 DEF EndOfStream, IsEnd
  <2>3. Ids(tps) = (c + 1) .. m
    <3>1. \A x \in DOMAIN received : received[x].id = x  BY <2>1 DEF EndOfStream
    <3>2. PICK list \in Seq(TriggerPrimitive) : list = tps  BY <1>1
    <3>3. Ids(list) = (c + 1) .. Len(received)
      <4>1. IsEnd(list, received, c)  BY <2>2, <3>2
      <4> HIDE DEF tps
      <4> QED  BY <1>1, <3>1, <4>1, EndIds
    <3> QED  BY <1>2, <3>2, <3>3
  <2>4. tps[1].id = c + 1
    <3>1. 1 \in 1 .. Len(tps) /\ Len(tps) = m - c  BY <1>1, <1>2, <1>8, <2>2 DEF IsEnd
    <3>2. tps[1] = received[c + 1]  BY <2>2, <3>1 DEF IsEnd
    <3>3. c + 1 \in 1 .. m  BY <3>1
    <3> QED  BY <1>2, <2>1, <3>2, <3>3 DEF EndOfStream
  <2>5. i \in (c + 1) .. m  BY <1>6, <1>8, <2>4
  <2> QED  BY <1>8, <2>3, <2>5
<1> QED  BY <1>4, <1>7, <1>8

\* While the charge of the whole stream fits its type, that of the window is
\* exact, and no stretch of the window has more.
LEMMA StretchOfTheWindow ==
  ASSUME IInv, EndOfStream, TotalAdc(received) < AdcModulus,
         NEW i \in (Before + 1) .. Len(received), NEW j \in i .. Len(received)
  PROVE  TotalAdc(SubSeq(received, i, j)) <= m_current_window.adc_integral
<1>1. PICK tps \in Seq(TriggerPrimitive) : tps = m_current_window.tp_list
  BY DEF IInv, TypeOK, Window
<1>2. received \in Seq(TriggerPrimitive) /\ \A e \in TriggerPrimitive : e.adc_integral \in Nat
  BY TPType DEF IInv, TypeOK
<1>3. PICK m \in Nat : m = Len(received)  BY <1>2
<1>4. PICK c \in 0 .. m : c = Before /\ IsEnd(tps, received, c)
  BY <1>1, <1>3 DEF EndOfStream, IsEnd
<1>5. PICK tot : tot = TotalsUpTo(received)  OBVIOUS
<1>6. /\ TotalAdc(tps) \in Nat /\ tot[c] \in Nat /\ tot[m] \in Nat
      /\ tot[m] = tot[c] + TotalAdc(tps)
  <2>1. /\ c \in 0 .. Len(received) /\ m \in c .. Len(received) /\ Len(tps) = m - c
        /\ \A x \in 1 .. Len(tps) : tps[x] = received[c + x]
    BY <1>3, <1>4 DEF IsEnd
  <2> QED  BY <1>2, <1>5, <2>1, TotalOfSlice
<1>7. PICK first \in Nat, last \in Nat :
        /\ first = i - 1 /\ last = j /\ c <= first /\ first <= last /\ last <= m
  <2>1. i - 1 \in Nat /\ j \in Nat /\ c <= i - 1 /\ i - 1 <= j /\ j <= m
    BY <1>3, <1>4
  <2> QED  BY <2>1
<1>8. PICK u \in Seq(TriggerPrimitive) :
        /\ u = SubSeq(received, i, j) /\ Len(u) = last - first
        /\ \A x \in 1 .. Len(u) : u[x] = received[first + x]
  <2>1. i \in 1 .. m /\ j \in i .. m /\ i = first + 1 /\ j = last
    BY <1>3, <1>4, <1>7
  <2>2. /\ SubSeq(received, first + 1, last) \in Seq(TriggerPrimitive)
        /\ Len(SubSeq(received, first + 1, last)) = last - first
        /\ \A x \in 1 .. (last - first) :
             SubSeq(received, first + 1, last)[x] = received[first + x]
    BY <1>2, <1>3, <1>7
  <2> QED  BY <2>1, <2>2
<1>9. /\ TotalAdc(u) \in Nat /\ tot[first] \in Nat /\ tot[last] \in Nat
      /\ tot[last] = tot[first] + TotalAdc(u)
  <2>1. first \in 0 .. Len(received) /\ last \in first .. Len(received)
    BY <1>3, <1>7
  <2>2. /\ TotalAdc(u) \in Nat /\ TotalsUpTo(received)[first] \in Nat
        /\ TotalsUpTo(received)[last] \in Nat
        /\ TotalsUpTo(received)[last] = TotalsUpTo(received)[first] + TotalAdc(u)
    <3>1. Len(u) = last - first /\ \A x \in 1 .. Len(u) : u[x] = received[first + x]
      BY <1>8
    <3>2. received \in Seq(TriggerPrimitive)  BY <1>2
    <3>3. \A e \in TriggerPrimitive : e.adc_integral \in Nat  BY <1>2
    <3> QED  BY <2>1, <3>1, <3>2, <3>3, TotalOfSlice
  <2> QED  BY <1>5, <2>2
<1>10. tot[c] <= tot[first] /\ tot[last] <= tot[m]
  <2>1. /\ c \in 0 .. Len(received) /\ first \in c .. Len(received)
        /\ last \in 0 .. Len(received) /\ m \in last .. Len(received)
    BY <1>3, <1>7
  <2> QED  BY <1>2, <1>5, <2>1, TotalsGrow
<1>11. TotalAdc(u) <= TotalAdc(tps) /\ TotalAdc(tps) < AdcModulus
  <2>1. tot[m] < AdcModulus  BY <1>3, <1>5 DEF TotalAdc
  <2>2. PICK modulus \in Nat : modulus = AdcModulus  BY ADCSimpleWindowAssumption
  <2>3. PICK ofWindow \in Nat, ofStretch \in Nat, tc \in Nat, tf \in Nat, tl \in Nat, tm \in Nat :
          /\ ofWindow = TotalAdc(tps) /\ ofStretch = TotalAdc(u)
          /\ tc = tot[c] /\ tf = tot[first] /\ tl = tot[last] /\ tm = tot[m]
    BY <1>6, <1>9
  <2>4. /\ tm = tc + ofWindow /\ tl = tf + ofStretch /\ tc <= tf /\ tl <= tm
        /\ tm < modulus
    BY <1>6, <1>9, <1>10, <2>1, <2>2, <2>3
  <2>5. ofStretch <= ofWindow /\ ofWindow < modulus  BY <2>4
  <2> QED  BY <2>2, <2>3, <2>5
<1>12. m_current_window.adc_integral = TotalAdc(tps)
  <2>1. m_current_window.adc_integral = TotalAdc(tps) % AdcModulus
    BY <1>1 DEF IInv, WellKept
  <2>2. PICK total \in Nat : total = TotalAdc(tps)  BY <1>6
  <2>3. PICK modulus \in Nat : modulus = AdcModulus  BY ADCSimpleWindowAssumption
  <2>4. total < modulus  BY <1>11, <2>2, <2>3
  <2>5. total % modulus = total  BY <2>4
  <2> QED  BY <2>1, <2>2, <2>3, <2>5
<1> QED  BY <1>8, <1>11, <1>12

\* A stretch over the threshold was in the window when its last TP came.
LEMMA ReceiveMissesNothing ==
  ASSUME IInv, Complete, NEW tp \in NextTPs(received), receive(tp)
  PROVE  NoActivityMissed'
<1> DEFINE threshold == m_config["adc_threshold"]
           length == m_config["window_length"]
<1>1. /\ received \in Seq(TriggerPrimitive) /\ received' = Append(received, tp)
      /\ tp \in TriggerPrimitive /\ m_config' = m_config /\ threshold \in Nat
      /\ m_current_window.adc_integral \in Nat
  <2>1. received \in Seq(TriggerPrimitive)  BY DEF IInv, TypeOK
  <2>2. tp \in TriggerPrimitive  BY <2>1, NextTPInOrder
  <2>3. m_current_window.adc_integral \in 0 .. AdcModulus - 1  BY DEF IInv, TypeOK, Window
  <2> QED  BY <2>1, <2>2, <2>3 DEF IInv, TypeOK, ConfigKeys, receive
<1>2. PICK m \in Nat : m = Len(received) /\ DOMAIN received = 1 .. m
  BY <1>1
<1>3. /\ DOMAIN received' = 1 .. (m + 1) /\ Len(received') = m + 1
      /\ received'[m + 1] = tp /\ \A i \in 1 .. m : received'[i] = received[i]
  BY <1>1, <1>2
<1>4. PICK c \in 0 .. m : c = Before
  BY <1>2 DEF Complete, EndOfStream, IsEnd
<1>5. PICK b \in c .. m :
        /\ Ids(m_current_window.tp_list) = (c + 1) .. m
        /\ Ids(m_current_window'.tp_list) = (b + 1) .. (m + 1)
        /\ \/ Emitted' = Emitted /\ (b # c => ~ over_threshold)
           \/ Emitted' = Emitted \cup Ids(m_current_window.tp_list)
  <2> HIDE DEF Before
  <2>1. EndOfStream  BY DEF Complete
  <2> QED  BY <1>2, <1>4, <2>1, ReceiveByNumber
<1>6. NoTPLostEarly'  BY ReceiveLosesNothing
<1>7. SUFFICES ASSUME TotalAdc(received') < AdcModulus,
                      NEW i \in DOMAIN received', NEW j \in i .. Len(received'),
                      fits(received'[j].time_start, received'[i].time_start, length),
                      TotalAdc(SubSeq(received', i, j)) > threshold
               PROVE  \/ (i .. j) \cap Emitted' # {}
                      \/ (i .. j) \subseteq Ids(m_current_window'.tp_list)
  BY <1>1 DEF NoActivityMissed
<1>8. i \in 1 .. (m + 1) /\ j \in i .. (m + 1)
  BY <1>3
<1>9. CASE j = m + 1
  <2>1. \/ i \in Emitted' \cup Ids(m_current_window'.tp_list)
        \/ ~ fits(tp.time_start, received'[i].time_start, length)
    BY <1>1, <1>3, <1>6 DEF NoTPLostEarly
  <2>2. i \in Emitted' \cup Ids(m_current_window'.tp_list)
    BY <1>3, <1>7, <1>9, <2>1
  <2>3. i \in i .. j  BY <1>8
  <2>4. CASE i \in Emitted'  BY <2>3, <2>4
  <2>5. CASE i \in (b + 1) .. (m + 1)
    <3>1. (i .. j) \subseteq (b + 1) .. (m + 1)  BY <1>8, <1>9, <2>5
    <3> QED  BY <1>5, <3>1
  <2> QED  BY <1>5, <2>2, <2>4, <2>5
<1>10. CASE j # m + 1
  <2>1. i \in 1 .. m /\ j \in i .. m /\ j \in 1 .. m  BY <1>8, <1>10
  <2>2. SubSeq(received', i, j) = SubSeq(received, i, j)
    BY <1>1, <1>2, <2>1, SliceOfAppend
  <2>3. TotalAdc(received) < AdcModulus
    <3>1. \A e \in TriggerPrimitive : e.adc_integral \in Nat  BY TPType
    <3>2. TotalAdc(Append(received, tp)) = TotalAdc(received) + tp.adc_integral
      BY <1>1, <3>1, TotalAdcAppend
    <3>3. TotalAdc(received) \in Nat  BY <1>1, <3>1, TotalAdcType
    <3>4. PICK before \in Nat, charge \in Nat :
            before = TotalAdc(received) /\ charge = tp.adc_integral
      BY <1>1, <3>1, <3>3
    <3>5. before + charge < AdcModulus  BY <1>1, <1>7, <3>2, <3>4
    <3> QED  BY <3>4, <3>5, ADCSimpleWindowAssumption
  <2>4. \/ (i .. j) \cap Emitted # {}
        \/ (i .. j) \subseteq Ids(m_current_window.tp_list)
    <3>1. NoActivityMissed  BY DEF Complete
    <3>2. fits(received[j].time_start, received[i].time_start, length)
      BY <1>3, <1>7, <2>1
    <3>3. TotalAdc(SubSeq(received, i, j)) > threshold  BY <1>7, <2>2
    <3> QED  BY <1>2, <2>1, <2>3, <3>1, <3>2, <3>3 DEF NoActivityMissed
  <2>5. CASE (i .. j) \cap Emitted # {}  BY <1>5, <2>5
  <2>6. CASE (i .. j) \subseteq Ids(m_current_window.tp_list)
    <3>1. i \in (c + 1) .. m /\ i \in i .. j  BY <1>5, <2>1, <2>6
    <3>2. CASE Emitted' = Emitted \cup Ids(m_current_window.tp_list)
      BY <2>6, <3>1, <3>2
    <3>3. CASE b = c
      <4>1. (i .. j) \subseteq (b + 1) .. (m + 1)  BY <2>1, <3>1, <3>3
      <4> QED  BY <1>5, <4>1
    <3>4. CASE ~ over_threshold
      <4>1. TotalAdc(SubSeq(received, i, j)) <= m_current_window.adc_integral
        <5>1. i \in (Before + 1) .. Len(received) /\ j \in i .. Len(received)
          BY <1>2, <1>4, <2>1, <3>1
        <5>2. EndOfStream  BY DEF Complete
        <5> QED  BY <2>3, <5>1, <5>2, StretchOfTheWindow
      <4>2. ~ (m_current_window.adc_integral > threshold)  BY <3>4 DEF over_threshold
      <4>3. TotalAdc(SubSeq(received, i, j)) \in Nat
        <5>1. SubSeq(received, i, j) \in Seq(TriggerPrimitive)  BY <1>1, <1>2, <2>1
        <5> QED  BY <5>1, TPType, TotalAdcType
      <4>4. TotalAdc(SubSeq(received, i, j)) > threshold  BY <1>7, <2>2
      <4> HIDE DEF threshold
      <4> QED  BY <1>1, <4>1, <4>2, <4>3, <4>4
    <3> QED  BY <1>5, <3>2, <3>3, <3>4
  <2> QED  BY <2>4, <2>5, <2>6
<1> QED  BY <1>9, <1>10

LEMMA CompleteInit == Init => Complete
<1> SUFFICES ASSUME Init PROVE Complete
  OBVIOUS
<1>1. /\ received = <<>> /\ output_ta = <<>> /\ m_current_window.tp_list = <<>>
      /\ Len(<<>>) = 0 /\ DOMAIN <<>> = {}
  BY DEF Init, EmptyWindow
<1>2. EndOfStream
  BY <1>1 DEF EndOfStream, InTimeOrder, IsEnd, Before
<1> QED  BY <1>1, <1>2 DEF Complete, NoTPLostEarly, TAsAreComplete, NoActivityMissed

LEMMA CompleteStep ==
  IInv /\ Complete /\ [Next]_vars => Complete'
<1> SUFFICES ASSUME IInv, Complete, [Next]_vars PROVE Complete'
  OBVIOUS
<1>1. ASSUME NEW config \in Configs, configure(config) PROVE Complete'
  <2>1. /\ received = <<>> /\ output_ta = <<>>
        /\ received' = <<>> /\ output_ta' = <<>> /\ UNCHANGED m_current_window
        /\ DOMAIN <<>> = {}
    BY <1>1 DEF configure, Complete
  <2>2. EndOfStream'  BY <2>1 DEF Complete, EndOfStream, Before, LastTime
  <2> QED
    BY <2>1, <2>2 DEF Complete, NoTPLostEarly, TAsAreComplete, NoActivityMissed
<1>2. ASSUME NEW tp \in NextTPs(received), receive(tp) PROVE Complete'
  <2>1. EndOfStream'  BY <1>2, ReceiveKeepsTheEnd DEF Complete
  <2>2. received' # <<>>
    BY <1>2 DEF receive, IInv, TypeOK
  <2>3. \A k \in DOMAIN output_ta' : Closed(output_ta'[k], LastTime', m_config'["window_length"])
    BY <1>2, ReceiveCloses
  <2>4. NoTPLostEarly' /\ TAsAreComplete' /\ NoActivityMissed'
    BY <1>2, ReceiveLosesNothing, ReceiveKeepsTAsComplete, ReceiveMissesNothing
  <2> QED  BY <2>1, <2>2, <2>3, <2>4 DEF Complete
<1>3. CASE UNCHANGED vars
  BY <1>3 DEF vars, Complete, EndOfStream, Before, LastTime, NoTPLostEarly, TAsAreComplete,
              NoActivityMissed, Emitted
<1> QED  BY <1>1, <1>2, <1>3 DEF Next

\* What the maker neither holds nor has given out is out of date.
THEOREM NothingIsLostEarly == Spec => []NoTPLostEarly
<1>1. Complete => NoTPLostEarly  BY DEF Complete
<1> QED  BY <1>1, InitKeeps, StepKeeps, CompleteInit, CompleteStep, PTL DEF Spec

\* A TA has every TP that arrived from its first one on and within its window.
THEOREM WindowsAreGivenWhole == Spec => []TAsAreComplete
<1>1. Complete => TAsAreComplete  BY DEF Complete
<1> QED  BY <1>1, InitKeeps, StepKeeps, CompleteInit, CompleteStep, PTL DEF Spec

\* No stretch of the stream within one window length and over the threshold
\* goes unnoticed, unless the charge wraps.
THEOREM ActivityIsNoticed == Spec => []NoActivityMissed
<1>1. Complete => NoActivityMissed  BY DEF Complete
<1> QED  BY <1>1, InitKeeps, StepKeeps, CompleteInit, CompleteStep, PTL DEF Spec

=============================================================================
