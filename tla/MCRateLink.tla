---------------------------- MODULE MCRateLink ----------------------------
(***************************************************************************)
(* RateLink with short symbols and short frames: the header has 3 chips a  *)
(* symbol, "B" 2, which does not divide them (nor does 6 divide 64), and   *)
(* "D", whose length byte is not used, 1.                                  *)
(***************************************************************************)
EXTENDS RateLink, TLC

MCLetters == {"B", "D"}
MCChipNum == ("B" :> 2) @@ ("D" :> 1)
MCChipsOf == (11 :> 2) @@ (13 :> 1)
MCFixedLength == {13}
MCNibbles == {0, 1, 2, 7, 11, 13}
MCCuts == {4, 6}
MCNoise == {0, 2, 7, 13, Invalid}
MCPayloads == << <<2>>, <<112, 0>> >>
===========================================================================
