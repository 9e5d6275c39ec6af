---------------------------- MODULE AtomicIndex ----------------------------
(***************************************************************************)
(* What the store promises of an index: one register that changes all at   *)
(* once.  An open finds the last commit; a commit becomes durable some     *)
(* time later; a power loss goes back to the last durable commit at worst, *)
(* and never to anything in between (docs/FORMAT.md sections 7 and 8).     *)
(*                                                                         *)
(* Commits are numbered; 0 is "no index".  How a commit is made of files,  *)
(* renames and syncs is the business of CommitProtocol.                    *)
(***************************************************************************)
EXTENDS Naturals

VARIABLES visible,   \* the commit that an open finds
          stable     \* the commit that a power loss is certain to leave

Init == visible = 0 /\ stable = 0

Commit ==
    /\ visible' \in Nat
    /\ visible' > visible
    /\ UNCHANGED stable

Harden ==
    /\ stable' = visible
    /\ UNCHANGED visible

PowerLoss ==
    /\ visible' \in {visible, stable}
    /\ stable' = visible'

Next == Commit \/ Harden \/ PowerLoss

Spec == Init /\ [][Next]_<<visible, stable>>

=============================================================================
