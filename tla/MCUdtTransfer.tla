--------------------------- MODULE MCUdtTransfer ---------------------------
(***************************************************************************)
(* Two small instances of UdtTransfer for TLC, side by side: one moves in  *)
(* a behaviour.  "reordered" is the module with the constants of the cfg:  *)
(* two packets may be on their way at once.  In "windowed" the buffers are *)
(* larger by one block, so that blocks wait for a window that closes and   *)
(* widens, and one packet at a time is on its way.                         *)
(***************************************************************************)
EXTENDS UdtTransfer

VARIABLE part

Windowed == INSTANCE UdtTransfer WITH
    SndBufSize <- SndBufSize + 1, SndRingSize <- SndRingSize + 1, RcvBufSize <- RcvBufSize + 1,
    InFlight <- 1

MCInit ==
    \/ part = "reordered" /\ Init
    \/ part = "windowed" /\ Windowed!Init

MCNext ==
    /\ UNCHANGED part
    /\ \/ part = "reordered" /\ Next
       \/ part = "windowed" /\ Windowed!Next

\* NothingStrands and ImplementsByteStream name none of the constants in which the two
\* differ: they are checked of both as they stand.
MCSpec == MCInit /\ [][MCNext]_<<part, vars>>

\* TransferIsSound, of each instance with its own sizes: retransmissions find the block of
\* their number, what the sender forgets was received, what recv finds is there and in order,
\* what is in flight fits the receiver, and no honest packet is taken for an attack
\* (core.cpp:1675-1921, 1979-2174).
EachIsSound == IF part = "reordered" THEN TransferIsSound ELSE Windowed!TransferIsSound
=============================================================================
