---------------------------- MODULE MCStreamLane ----------------------------
(***************************************************************************)
(* Small instances of StreamLane.  An EVM lane finds a block in every      *)
(* number; a Solana lane finds some slots skipped, with a produced slot    *)
(* above them that can prove it.                                           *)
(***************************************************************************)
EXTENDS StreamLane

AllSlots == Slots
SomeSkipped == {1, 4, 5}
SecondSlot == {2}
LateSlot == {4}
=============================================================================
