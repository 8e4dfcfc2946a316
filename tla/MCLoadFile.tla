----------------------------- MODULE MCLoadFile -----------------------------
(***************************************************************************)
(* LoadFile for TLC, on the disk of MCFiles.                               *)
(***************************************************************************)
EXTENDS LoadFile, MCFiles
=============================================================================
