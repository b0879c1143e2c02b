------------------------------ MODULE LineInput ------------------------------
(***************************************************************************)
(* What the console promises to its readers: a line that may be edited     *)
(* until it is entered, and a queue of entered characters that read()s     *)
(* take in order, a line at a time.                                        *)
(***************************************************************************)
EXTENDS Naturals, Sequences

CONSTANTS Char, NL, EOF, Capacity

VARIABLES line,   \* typed and not yet entered
          entered \* entered and not yet read

vars == <<line, entered>>

Init == line = <<>> /\ entered = <<>>

Room == Len(line) + Len(entered) < Capacity

\* A character that does not fill the buffer and does not end the line.
Type(c) ==
  /\ Len(line) + Len(entered) + 1 < Capacity
  /\ c \notin {NL, EOF}
  /\ line' = Append(line, c)
  /\ UNCHANGED entered

\* The end of the line, or the last character there is room for.
Enter(c) ==
  /\ Room
  /\ c \in {NL, EOF} \/ Len(line) + Len(entered) + 1 = Capacity
  /\ entered' = entered \o Append(line, c)
  /\ line' = <<>>

Erase(n) ==
  /\ line' = SubSeq(line, 1, Len(line) - n)
  /\ UNCHANGED entered

\* A reader takes n characters: only the last may end a line.
Take(n) ==
  /\ \A i \in 1 .. n - 1 : entered[i] \notin {NL, EOF}
  /\ entered' = SubSeq(entered, n + 1, Len(entered))
  /\ UNCHANGED line

Next ==
  \/ \E c \in Char : Type(c) \/ Enter(c)
  \/ \E n \in 1 .. Len(line) : Erase(n)
  \/ \E n \in 1 .. Len(entered) : Take(n)

Spec == Init /\ [][Next]_vars
=============================================================================
