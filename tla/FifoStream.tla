----------------------------- MODULE FifoStream -----------------------------
(***************************************************************************)
(* What one direction of a byte stream promises, line by line: what comes  *)
(* out is what went in, in order, nothing twice and nothing left out.  A   *)
(* stream that has ended takes no more; what it still carried may arrive   *)
(* or be lost, from some line on.                                          *)
(***************************************************************************)
EXTENDS Naturals, Sequences

VARIABLES input, output, ended

fifo == <<input, output, ended>>

TypeOK == output = SubSeq(input, 1, Len(output))

Init == input \in Seq(Nat) /\ output = <<>> /\ ended = FALSE

Put ==
  /\ ~ended
  /\ Len(input') = Len(input) + 1
  /\ SubSeq(input', 1, Len(input)) = input
  /\ UNCHANGED <<output, ended>>

Deliver ==
  /\ Len(output) < Len(input)
  /\ output' = Append(output, input[Len(output) + 1])
  /\ UNCHANGED <<input, ended>>

End == ~ended /\ ended' = TRUE /\ UNCHANGED <<input, output>>

Next == Put \/ Deliver \/ End

Spec == Init /\ [][Next]_fifo
=============================================================================
