----------------------------- MODULE ByteStream -----------------------------
(***************************************************************************)
(* What a UDT stream promises: what the receiver has read is a prefix of   *)
(* what the sender has written; nothing is lost, repeated or reordered.    *)
(***************************************************************************)
EXTENDS Naturals, Sequences

CONSTANT Blocks           \* how many blocks are written at most

VARIABLES written,        \* how many blocks the sender has written: 1, 2, 3, ...
          read            \* the blocks the receiver has read, in order

svars == <<written, read>>

Init == written = 0 /\ read = <<>>

Write == written < Blocks /\ written' = written + 1 /\ UNCHANGED read

Read == /\ Len(read) < written
        /\ read' = Append(read, Len(read) + 1)
        /\ UNCHANGED written

Next == Write \/ Read

Spec == Init /\ [][Next]_svars
=============================================================================
