---------------------------- MODULE MCContentStorage ----------------------------
(***************************************************************************)
(* Values TLC gives the content storage's constants: the configurations    *)
(* pick the spellings of the ids the overlays use.                         *)
(***************************************************************************)
EXTENDS ContentLocales

AsStored == Uuid
AnySpelling == Uuid \cup {-u : u \in Uuid}
=================================================================================
