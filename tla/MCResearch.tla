----------------------------- MODULE MCResearch -----------------------------
(* A small instance of Research for TLC. *)
EXTENDS Research

CONSTANTS a, b, btc, dom

MCUniverse == {a, b}
MCSeries == ({a, b, btc} \X {"bar", "minute"}) \cup {<<btc, "day">>, <<dom, "bar">>}
MCWidth == [s \in MCSeries |-> CASE s[2] = "bar" -> 2 [] s[2] = "minute" -> 1 [] OTHER -> 4]
\* Symbol by symbol, bars before minutes.
MCOrder == [s \in MCSeries |->
  (CASE s[1] = a -> 0 [] s[1] = b -> 2 [] s[1] = btc -> 4 [] OTHER -> 6) + (IF s[2] = "bar" THEN 0 ELSE 1)]
\* b is listed late; or b lacks two minutes and BTC its first bar, so that plans
\* fail at a gap, at the alignment and at a bucket.
MCAbsences ==
  {[s \in MCSeries |-> IF s[1] = b THEN 0..3 ELSE {}],
   [s \in MCSeries |-> CASE s = <<b, "minute">> -> {3, 7} [] s = <<btc, "bar">> -> {0} [] OTHER -> {}]}
MCGrid == <<[key |-> "hurst_cutoff", values |-> <<1>>]>>
MCProfiles == <<"costly">>
\* The first is beaten at some ends and ties with the second at others.
MCScore == <<[t \in 0..8 |-> t \div 4], [t \in 0..8 |-> 1], [t \in 0..8 |-> 0]>>
\* A resumed grid may leave the trades of the first, which trades no more.
MCTradedEnds == <<{6}, 0..8, {8}>>
=============================================================================
