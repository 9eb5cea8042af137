--------------------------- MODULE MCArchiveSearch ---------------------------
(* An instance of ArchiveSearch for TLC. *)
EXTENDS ArchiveSearch

\* A search that finds more units than are counted, then one that finds fewer.
MCHits == <<5, 3>>
==============================================================================
