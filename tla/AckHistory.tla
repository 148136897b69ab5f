----------------------------- MODULE AckHistory -----------------------------
(***************************************************************************)
(* What CACKWindow promises: the acknowledgements that were sent last, in  *)
(* order; the answer to one of them makes it and the older ones known.     *)
(***************************************************************************)
EXTENDS Naturals, Sequences

CONSTANTS AckNos, DataAcks,   \* the numbers of the ACK packets, and what they acknowledge
          Capacity            \* how many are remembered

VARIABLES records,            \* the records [seq, ack], oldest first
          answer              \* the number of the last answer, and what it found or "none"

hvars == <<records, answer>>

NoAnswer == [seq |-> 0, ack |-> "none"]

Init == records = <<>> /\ answer = NoAnswer

Sent(seq, ack) ==
    LET r == Append(records, [seq |-> seq, ack |-> ack])
    IN  /\ records' = IF Len(r) > Capacity THEN Tail(r) ELSE r
        /\ answer' = NoAnswer

Answered(seq) ==
    IF \E k \in DOMAIN records : records[k].seq = seq
    THEN LET k == CHOOSE k \in DOMAIN records :
                      /\ records[k].seq = seq
                      /\ \A j \in 1 .. k - 1 : records[j].seq # seq
         IN  /\ answer' = records[k]
             /\ records' = SubSeq(records, k + 1, Len(records))
    ELSE answer' = [seq |-> seq, ack |-> "none"] /\ UNCHANGED records

Next == \/ \E seq \in AckNos, ack \in DataAcks : Sent(seq, ack)
        \/ \E seq \in AckNos : Answered(seq)

Spec == Init /\ [][Next]_hvars
=============================================================================
