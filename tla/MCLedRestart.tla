---------------------------- MODULE MCLedRestart ----------------------------
(* One LED of small grids, for TLC, that stay dark: no property of these runs looks at colours. *)
EXTENDS LedRestart

MCColours == {Black}
OneLed == {[row |-> 1, column |-> 1, colour |-> Black]}
OneSize == {<<2, 2>>}
TwoSizes == {<<2, 2>>, <<2, 3>>}
NoFaults == {}
=============================================================================
