------------------------------- MODULE MCPipe -------------------------------
(* Two bytes, and writes that are shorter than, as long as and longer than   *)
(* a pipe of two bytes.                                                      *)
EXTENDS Pipe

CONSTANTS x, y

Bytes == {x, y}
ShortAndLong == {<<x>>, <<x, y>>, <<y, x, y>>}
=============================================================================
