-------------------------- MODULE MCCircuitEditor ---------------------------
(* What CircuitEditor starts from under TLC: its circuits and its URL.      *)
EXTENDS CircuitEditor

On(qs) == [j \in DOMAIN qs |-> OnQubit(qs[j], 0)]
Meas(name, qs, id) == Op(name, [j \in DOMAIN qs |-> OnQubit(qs[j], id + j - 1)])
Rec(k, id) == Lookback(k, id)

(* Two rounds of a parity check, with feedback and an observable.          *)
Feedback ==
    [coords |-> {},
     ops |-> <<Op("R", On(<<1>>)), Meas("M", <<0, 1>>, 1), Op("DETECTOR", <<Rec(2, 1)>>),
               Op("CX", <<Rec(1, 2), OnQubit(0, 0)>>), TickOp, Op("CX", On(<<0, 1>>)), Meas("MR", <<1>>, 3),
               Op("DETECTOR", <<Rec(1, 3), Rec(3, 1)>>), Op("OBSERVABLE_INCLUDE", <<Rec(2, 2)>>)>>]

(* Measurements of a pair and of a product.                                *)
Products ==
    [coords |-> {1},
     ops |-> <<Op("H", On(<<0>>)), Meas("M", <<0>>, 1), Op("MZZ", <<OnQubit(0, 2), OnQubit(1, 0)>>), TickOp,
               Meas("MPP", <<0, 1>>, 3), Op("OBSERVABLE_INCLUDE", <<Rec(1, 3)>>), Meas("MX", <<1>>, 5),
               Op("DETECTOR", <<Rec(3, 2), Rec(1, 5)>>), Op("OBSERVABLE_INCLUDE", <<Rec(4, 1), Rec(1, 5)>>)>>]

(* Marks inside a layer, before a TICK and at the end, as others write them. *)
Marked ==
    <<Op("R", On(<<0>>)), Mark(X, 0), Meas("M", <<0>>, 1), Mark(Z, 0), TickOp, TickOp, Mark(X, 0), Op("S", On(<<0>>)),
      Meas("MX", <<0>>, 2), Op("DETECTOR", <<Rec(1, 2), Rec(2, 1)>>)>>

TheExamples == {Feedback, Products}
TheUrls == {Marked}
TheMarks == {X, Z}
=============================================================================
