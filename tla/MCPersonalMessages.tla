------------------------- MODULE MCPersonalMessages -------------------------
(* Clients and services for TLC.                                           *)
EXTENDS PersonalMessages

Duo == <<"s1", "s2">>
Solo == <<"s1">>
=============================================================================
