---------------------------- MODULE MCMainDialog ----------------------------
(***************************************************************************)
(* Two documents that take each other's place.  The key storage path is    *)
(* relative, or the absolute one of the folder that this denotes at home.  *)
(***************************************************************************)
EXTENDS MainDialog, TLC

CONSTANTS f, g, relative, absolute, home, elsewhere

MCDocument == {f, g}

MCStorage == {relative, absolute}

MCPlace == {home, elsewhere}

\* Every place has a folder for the relative path; they are named alike.
MCFolderOf(s, p) == IF s = relative THEN p ELSE home

MCSymmetry == Permutations(MCDocument)
=============================================================================
