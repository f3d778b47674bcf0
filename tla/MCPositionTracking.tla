------------------------- MODULE MCPositionTracking -------------------------
(* TLC instances of PositionTracking: ladders and delivery orders. *)
EXTENDS PositionTracking

\* Three levels that close 2, 1 and 1 of 4 units, two of 1 and 2, and a single TP.
MCClose3 == <<2, 1, 1>>
MCClose2 == <<1, 2>>
MCSingle == <<>>

\* Order event first, with or without an immediate echo.
MCOrderFirst == {<<"o", "p">>, <<"o", "o", "p">>}

\* Any order of the two topics, echoes after the position event included.
MCAnyOrder == {<<"o", "p">>, <<"p", "o">>, <<"o", "p", "o">>}
=============================================================================
