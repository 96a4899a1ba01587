--------------------------- MODULE MCVideoStream ---------------------------
(* Images of one and two bytes; packets of an unknown type, cut short and   *)
(* with a byte too many.                                                   *)
EXTENDS VideoStream

TwoJpegs == [i \in Image |-> IF i = 1 THEN <<11>> ELSE <<21, 22>>]
TwoPngs == [i \in Image |-> IF i = 1 THEN <<31, 32>> ELSE <<>>]
ThreeStrays == {<<7>>, <<JPG_PNG, 0>>, PackColor(<<11>>, <<41>>) \o <<0>>}
=============================================================================
