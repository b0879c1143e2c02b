----------------------------- MODULE ByteStream -----------------------------
(***************************************************************************)
(* What a pipe promises: a bounded first-in first-out stream of bytes.     *)
(* What is written stays in order and is read once; a reader is told the   *)
(* end of the stream only when it is empty and can not grow any more.      *)
(***************************************************************************)
EXTENDS Naturals, Sequences

CONSTANTS Reader, Byte, Capacity

VARIABLES q,      \* bytes written and not yet read
          wopen,  \* the stream can grow
          got     \* what each reader's last read returned

vars == <<q, wopen, got>>

Init ==
  /\ q = <<>>
  /\ wopen = TRUE
  /\ got = [r \in Reader |-> <<>>]

Send(s) ==
  /\ wopen
  /\ Len(q) + Len(s) <= Capacity
  /\ q' = q \o s
  /\ UNCHANGED <<wopen, got>>

Receive(r, n) ==
  /\ n <= Len(q)
  /\ q' = SubSeq(q, n + 1, Len(q))
  /\ got' = [got EXCEPT ![r] = SubSeq(q, 1, n)]
  /\ UNCHANGED wopen

\* A read that returns no byte.
EndOfStream(r) ==
  /\ q = <<>> /\ ~wopen
  /\ got' = [got EXCEPT ![r] = <<>>]
  /\ UNCHANGED <<q, wopen>>

Close ==
  /\ wopen' = FALSE
  /\ UNCHANGED <<q, got>>

Next ==
  \/ \E n \in 1..Capacity : \E s \in [1..n -> Byte] : Send(s)
  \/ \E r \in Reader : EndOfStream(r) \/ \E n \in 1..Capacity : Receive(r, n)
  \/ Close

Spec == Init /\ [][Next]_vars
=============================================================================
