---- MODULE MCFilePager ----
(* Two threads and a file of one page of two cells; HoleWrites has a second page. *)
EXTENDS FilePager

====
