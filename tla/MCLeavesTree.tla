---------------------------- MODULE MCLeavesTree ----------------------------
(* An instance of LeavesTree for TLC. *)
EXTENDS LeavesTree

MCUnits == 1 .. 6

\* Any children match the first search and the others the second one; the last
\* child is a folder, which adds to what has results when it does not match.
\* There is one virtual path and all the others are of type INGEST, or the first
\* child and the folder are of the holding scheme, so that the two pagings part
\* when one of them matches, with or without the path.  Six children take up to
\* four loads of one page.
MCCorpora ==
  {[paths |-> c[1], ingest |-> c[2], matching |-> <<m, MCUnits \ m>>, folders |-> <<{6}, {6}>>] :
      c \in {<<{4}, MCUnits>>, <<{4}, 2 .. 5>>, <<{}, 2 .. 5>>}, m \in SUBSET MCUnits}
=============================================================================
