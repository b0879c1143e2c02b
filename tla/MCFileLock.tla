------------------------------ MODULE MCFileLock ------------------------------
(***************************************************************************)
(* Passwords for FileLock: with PASSLEN = 2 the longer one is cut.         *)
(***************************************************************************)
EXTENDS FileLock

ShortAndLong == {<<"a">>, <<"a", "b">>}
Short == {<<>>, <<"a">>}
=============================================================================
