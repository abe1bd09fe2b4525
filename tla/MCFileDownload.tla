---------------------------- MODULE MCFileDownload ----------------------------
(***************************************************************************)
(* FileDownload for two requests of a small file.                          *)
(***************************************************************************)
EXTENDS FileDownload, FiniteSets

Active == {r \in Request : step[r] \notin {"idle", "done"}}

(* Two requests at a time only for a blob as long as its metadata tell;    *)
(* one of another length is asked for by one request after the other.      *)
Bound == length # Chunks => Cardinality(Active) <= 1
===============================================================================
