-------------------------------- MODULE MCDir --------------------------------
(* Dir with two processes, the one building a tree, the other taking it apart. *)
EXTENDS Paths, TLC

CONSTANTS p1, p2

Call(op, path, text) == [op |-> op, path |-> path, text |-> text]

MCCalls ==
  (p1 :> { Call("mkdir", <<"a">>, <<>>), Call("creat", <<"b">>, <<>>),
           Call("creat", <<"a", "b">>, <<>>), Call("mknod", <<"a">>, <<>>),
           Call("symlink", <<"b">>, <<"a">>), Call("symlink", <<"a">>, <<"/", "b">>),
           Call("link", <<"b">>, <<"a", "b">>), Call("link", <<"a", "b">>, <<"b">>),
           Call("link", <<"b">>, <<"a">>),
           Call("unlink", <<"a">>, <<>>), Call("exit", <<>>, <<>>), Call("close", <<>>, <<>>) })
  @@
  (p2 :> { Call("unlink", <<"a">>, <<>>), Call("unlink", <<"b">>, <<>>),
           Call("unlink", <<"a", "b">>, <<>>), Call("unlink", <<"/">>, <<>>),
           Call("openwr", <<"b">>, <<>>),
           Call("openrd", <<"b", "a">>, <<>>), Call("openi", <<"b">>, <<>>),
           Call("chdir", <<"a">>, <<>>), Call("exec", <<"a", "b">>, <<>>),
           Call("exit", <<>>, <<>>), Call("readlink", <<"/">>, <<>>) })

MCMaxCalls == (p1 :> 3) @@ (p2 :> 2)
=============================================================================
