---------------------------- MODULE MCCssStream ----------------------------
(***************************************************************************)
(* Frames of six symbols: 0 0 of the preamble, 1, and three of the body,   *)
(* which are one block.  A message may look like a preamble, turn back and *)
(* forth by half a circle, or be too short by one bit.                     *)
(***************************************************************************)
EXTENDS CssStream, TLC

MCKinds == {"plain", "imitates", "turns", "short"}
MCLenOf(kind) == IF kind = "short" THEN 1 ELSE 2
MCPhases == [plain |-> <<2, 3, 0>>, imitates |-> <<2, 2, 0>>, turns |-> <<3, 1, 3>>, short |-> <<3, 3, 3>>]
MCPhaseOf(kind, i) == MCPhases[kind][i]
MCBursts == {
    <<"imitates", "plain", "turns", "plain", "plain", "plain">>,
    <<"plain", "plain", "short", "plain">>}
=============================================================================
