------------------------------- MODULE MCHttp -------------------------------
(* Two connections that ask for one file: the least with which threads meet *)
(* in the logger, with three descriptors so that they also run out.         *)
EXTENDS Http

CONSTANTS c1, c2

BothConns == {c1, c2}

OnePath == {"/index.html"}

=============================================================================
