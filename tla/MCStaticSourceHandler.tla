------------------------ MODULE MCStaticSourceHandler ------------------------
(***************************************************************************)
(* Instances of StaticSourceHandler for TLC: see the .cfg files.           *)
(***************************************************************************)
EXTENDS StaticSourceHandler
=============================================================================
