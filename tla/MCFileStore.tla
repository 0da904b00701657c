---------------------------- MODULE MCFileStore -----------------------------
(* Instances of FileStore for TLC. *)
EXTENDS FileStore

\* Two names of one file, because of the colon in them.
MCNames == {<< <<"a">>, <<"b", ":", "c">> >>, << <<"a", ":", "b">>, <<"c">> >>}
=============================================================================
