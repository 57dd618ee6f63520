----------------------- MODULE MCEntrySourceRefinement -----------------------
(***************************************************************************)
(* EntrySourceRefinement for TLC, with the symmetry of MCEntrySource.      *)
(***************************************************************************)
EXTENDS EntrySourceRefinement, MCEntrySource
=============================================================================
