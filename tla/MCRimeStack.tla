------------------------------ MODULE MCRimeStack ------------------------------
(***************************************************************************)
(* Two stacks whose addresses differ in bits that end up in different      *)
(* header bytes.  Channel 263 has the low byte of channel 7; stack b has   *)
(* two connections on channel 7, and hears its own packets too.            *)
(***************************************************************************)
EXTENDS RimeStack

McStacks  == {"a", "b"}
McAddrOf  == [s \in McStacks |-> IF s = "a" THEN <<23, 232>> ELSE <<200, 5>>]
McBc      == [s \in McStacks |-> IF s = "a" THEN <<129>> ELSE <<>>]
McUc      == [s \in McStacks |-> IF s = "a" THEN <<>> ELSE <<6>>]
McRuc     == [s \in McStacks |-> IF s = "a" THEN <<263, 7>> ELSE <<7, 7>>]
McInRange == [s \in McStacks |-> IF s = "a" THEN {"b"} ELSE {"a", "b"}]
McTargets == {<<23, 232>>, <<200, 5>>, <<0, 0>>, <<300, 1>>}
===============================================================================
