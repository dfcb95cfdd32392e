---------------------------- MODULE SlotCoverage ----------------------------
(***************************************************************************)
(* What an evidence lane promises to whoever reads its cursor and its open *)
(* gaps: no produced slot is jumped over without a debt, and a debt is     *)
(* only written off when every needed slot in it has been recovered.  It   *)
(* promises nothing about the live messages of a slot the cursor reached.  *)
(* StreamLane implements this.                                             *)
(***************************************************************************)
EXTENDS Naturals

CONSTANTS
    Slots,                 \* the slots or blocks of the chain, from 1
    Needed                 \* those that hold a block

VARIABLES
    tip,                   \* the highest slot observed, 0 before the first
    owed,                  \* slots below the tip still to be recovered
    recovered              \* slots whose finalized block is durable

vars == <<tip, owed, recovered>>

Init == tip = 0 /\ owed = {} /\ recovered = {}

\* Blocks are recovered, in any order.
Recover ==
    /\ recovered \subseteq recovered' /\ recovered' \subseteq Slots
    /\ UNCHANGED <<tip, owed>>

\* The tip moves up to c, and every slot it jumped over is owed.
Reach(c) ==
    /\ c > tip
    /\ tip' = c
    /\ owed' = IF tip = 0 THEN owed ELSE owed \cup (tip + 1 .. c - 1)
    /\ UNCHANGED recovered

Settle ==
    /\ owed' \subseteq owed
    /\ (owed \ owed') \cap Needed \subseteq recovered
    /\ UNCHANGED <<tip, recovered>>

Next == Recover \/ (\E c \in Slots : Reach(c)) \/ Settle

Spec == Init /\ [][Next]_vars
=============================================================================
