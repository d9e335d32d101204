--------------------------- MODULE MCIndexCommit ---------------------------
(***************************************************************************)
(* IndexCommit with two uploads: the second drops the only file in one of  *)
(* the two languages.                                                      *)
(***************************************************************************)
EXTENDS IndexCommit

MCChunks == {"kept", "dropped"}
MCChunksOf == [u \in Uploads |-> IF u = 1 THEN MCChunks ELSE {"kept"}]
MCLangs == {"java", "python"}
MCLangOf == [c \in MCChunks |-> IF c = "kept" THEN "java" ELSE "python"]
=============================================================================
