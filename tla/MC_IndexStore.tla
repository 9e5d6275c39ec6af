--------------------------- MODULE MC_IndexStore ---------------------------
(* IndexStore with a few interchangeable processes.                         *)
EXTENDS IndexStore, TLC
Processes == Permutations(Proc)

\* Three transactions from nothing (a first one was abandoned without a trace),
\* or two from an index in which a file was renamed, so that an overlay can be
\* dropped and another one written.
AbandonedBuild == StartsWith([t \in Stamp |-> NoManifest], 0, 1)
built == Build(NoManifest, 1, 1).manifest
renamed == Update(built, 0, {}, 1, 2).manifest
RenamedFile == StartsWith([t \in Stamp |-> CASE t = 1 -> built [] t = 2 -> renamed [] OTHER -> NoManifest], 2, 2)
SpecInUse == (AbandonedBuild \/ RenamedFile) /\ [][Next]_vars
=============================================================================
