---------------------------- MODULE SharedIndex ----------------------------
(***************************************************************************)
(* What the store promises to processes that share an index: commits take  *)
(* turns and change the index at once, one generation after the other, and *)
(* a file that the index has is never written again, it stays or goes.  An *)
(* open works from one commit, and a later one is the only thing that can  *)
(* keep it from finding every file of it (docs/FORMAT.md section 8).       *)
(*                                                                         *)
(* Commits are numbered; 0 is "no index".  Which system calls a commit is  *)
(* made of, who sweeps what, and what processes that fail or are killed    *)
(* leave behind is the business of IndexStore: here it cannot be seen.     *)
(***************************************************************************)
EXTENDS Naturals

CONSTANTS Proc,   \* the processes
          File    \* the names an index may use

VARIABLES number,       \* the last commit
          generation,   \* its generation
          files,        \* [File -> Nat]: the commit that wrote it, 0 for no file of the index
          inside,       \* the processes that may change the directory
          seen,         \* the commit each open works from, 0 for none
          rest,         \* the files of it that are still to be opened
          tries,        \* how often it has started over
          failed        \* has the last open of a process failed?

index == <<number, generation, files>>
opens == <<seen, rest, tries, failed>>

\* Everyone is idle; the index may be one that others have made.
Init ==
    /\ number \in Nat /\ generation \in Nat /\ files \in [File -> 0 .. number]
    /\ inside = {}
    /\ seen = [p \in Proc |-> 0] /\ rest = [p \in Proc |-> {}]
    /\ tries = [p \in Proc |-> 0] /\ failed = [p \in Proc |-> FALSE]

-----------------------------------------------------------------------------
Enter(p) == inside = {} /\ inside' = {p} /\ UNCHANGED <<index, opens>>

Leave(p) == p \in inside /\ inside' = inside \ {p} /\ UNCHANGED <<index, opens>>

Commit(p) ==
    /\ inside = {p}
    /\ number' \in Nat /\ number' > number
    /\ generation' = generation + 1
    /\ files' \in [File -> Nat]
    /\ \A f \in File : files'[f] \in {0, IF files[f] = 0 THEN number' ELSE files[f]}
    /\ UNCHANGED <<inside, opens>>

-----------------------------------------------------------------------------
Ask(p) ==
    /\ failed' = [failed EXCEPT ![p] = FALSE]
    /\ UNCHANGED <<index, inside, seen, rest, tries>>

Look(p) ==
    /\ number # 0
    /\ seen' = [seen EXCEPT ![p] = number]
    /\ rest' = [rest EXCEPT ![p] = {f \in File : files[f] # 0}]
    /\ UNCHANGED <<index, inside, tries, failed>>

Take(p) ==
    /\ \E f \in rest[p] : rest' = [rest EXCEPT ![p] = @ \ {f}]
    /\ UNCHANGED <<index, inside, seen, tries, failed>>

\* What p was doing is over.
Over(p) ==
    /\ seen' = [seen EXCEPT ![p] = 0]
    /\ rest' = [rest EXCEPT ![p] = {}]
    /\ UNCHANGED index

\* It has all it asked for; what it did inside is over as well.
Done(p) ==
    /\ rest[p] = {}
    /\ Over(p)
    /\ tries' = [tries EXCEPT ![p] = 0]
    /\ inside' = inside \ {p}
    /\ UNCHANGED failed

Overtaken(p) == 0 < seen[p] /\ seen[p] < number

StartOver(p) ==
    /\ Overtaken(p)
    /\ Over(p)
    /\ tries' = [tries EXCEPT ![p] = @ + 1]
    /\ UNCHANGED <<inside, failed>>

GiveUp(p) ==
    /\ Overtaken(p)
    /\ Over(p)
    /\ tries' = [tries EXCEPT ![p] = 0]
    /\ failed' = [failed EXCEPT ![p] = TRUE]
    /\ UNCHANGED inside

\* Killed inside, at any point.
Die(p) ==
    /\ p \in inside
    /\ Over(p)
    /\ tries' = [tries EXCEPT ![p] = 0]
    /\ inside' = inside \ {p}
    /\ UNCHANGED failed

Next == \E p \in Proc :
    \/ Enter(p) \/ Leave(p) \/ Commit(p)
    \/ Ask(p) \/ Look(p) \/ Take(p) \/ Done(p) \/ StartOver(p) \/ GiveUp(p) \/ Die(p)

Spec == Init /\ [][Next]_<<index, inside, opens>>

=============================================================================
