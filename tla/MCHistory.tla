------------------------------- MODULE MCHistory -------------------------------
(* A small instance of History: one character is two bytes wide, typing is *)
(* close or far apart in time, and two small entries fill the budget.      *)
EXTENDS History

MCStart == <<"w", "t">>
MCWords == {<<"b">>}
MCClock == {0, 2}
===============================================================================
