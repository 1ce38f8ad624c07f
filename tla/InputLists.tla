----------------------------- MODULE InputLists -----------------------------
(***************************************************************************)
(* The lists of inputs a window holds, TPs or TAs: what move() finds to    *)
(* erase, and the totals a window keeps alongside its list.                *)
(***************************************************************************)
EXTENDS UnsignedTime

(***************************************************************************)
(* The counting loop shared by all the move() methods: the elements at the *)
(* front of the list that are not within `length' of t, up to the first    *)
(* one that is (the loop breaks there).                                    *)
(***************************************************************************)
n_to_erase(inputs, t, length) ==
  CHOOSE n \in 0 .. Len(inputs) :
    /\ \A i \in 1 .. n : ~ fits(t, inputs[i].time_start, length)
    /\ n < Len(inputs) => fits(t, inputs[n + 1].time_start, length)

\* The arrival numbers of the elements of a list.
Ids(inputs) == { inputs[i].id : i \in DOMAIN inputs }

\* The total charge of the first n elements of a list, for each n; never
\* truncated.
TotalsUpTo(inputs) ==
  LET upto[n \in 0 .. Len(inputs)] ==
        IF n = 0 THEN 0 ELSE upto[n - 1] + inputs[n].adc_integral
  IN  upto

TotalAdc(inputs) == TotalsUpTo(inputs)[Len(inputs)]

=============================================================================
