----------------------------- MODULE RtmpChunks -----------------------------
(* The chunk stream of src/librtmp/rtmp.c: RTMP_SendPacket compresses the     *)
(* header of a packet against the last packet of its channel and cuts it into *)
(* chunks; RTMP_ReadPacket rebuilds the packets from what it has kept of each *)
(* channel. Between them is the connection, in order. A peer may put chunks   *)
(* of other channels between those of a packet, and may change its chunk size *)
(* between two chunks (HandleChangeChunkSize).                                *)
(*                                                                            *)
(* A body is the sequence of <<number of the packet, offset>>, so that a byte *)
(* out of place is seen. Timestamps have TsSize values and wrap; the largest  *)
(* of a short header is TsLimit (0xffffff). The first packet of a channel has *)
(* a full header: before it the reader knows nothing of the channel.          *)
EXTENDS Naturals, Sequences, FiniteSets, TLC

CONSTANTS Channels, Types, StreamIds,
          BodySizes,    \* sizes of packets
          ChunkSizes,   \* values of the chunk size
          Stamps,       \* timestamps of packets, below TsSize
          TsSize, TsLimit,
          MaxPackets,   \* how many packets are sent
          MaxChanges    \* how often the chunk size changes

\* m_headerType, and the fields that a header of each type carries
LARGE == 0
MEDIUM == 1
SMALL == 2
MINIMUM == 3

VARIABLES
  m_vecChannelsOut,    \* [channel -> the last packet sent, or None]
  m_outChunkSize,
  unsent,              \* [channel -> the chunks of its packet that are still to be sent]
  packets, changes,    \* how many packets were begun, and changes of the chunk size made
  full,                \* [channel -> the id of its last full header, and whether every
                       \*  packet since had a timestamp of its own]
  due,                 \* the packets that are sent and not yet read, as they should arrive
  wire,                \* the chunk on its way
  m_vecChannelsIn,     \* [channel -> the packet kept as reference, or None]
  m_channelTimestamp,  \* [channel -> timestamp of the last packet that was read]
  m_inChunkSize,
  read                 \* the last packet that RTMP_ReadPacket has completed, and what was due

sender == <<m_vecChannelsOut, m_outChunkSize, unsent, packets, changes, full>>
reader == <<m_vecChannelsIn, m_channelTimestamp, m_inChunkSize, read>>
vars == <<sender, due, wire, reader>>

None == [type |-> "none"]

Init ==
  /\ m_vecChannelsOut = [c \in Channels |-> None]
  /\ m_outChunkSize \in ChunkSizes /\ m_inChunkSize = m_outChunkSize
  /\ unsent = [c \in Channels |-> <<>>] /\ packets = 0 /\ changes = 0
  /\ full = [c \in Channels |-> None]
  /\ due = <<>> /\ wire = <<>>
  /\ m_vecChannelsIn = [c \in Channels |-> None]
  /\ m_channelTimestamp = [c \in Channels |-> 0]
  /\ read = <<>>

Lower(a, b) == IF a < b THEN a ELSE b

------------------------------------------------------------------------------
(* RTMP_SendPacket.                                                           *)

\* Faulty: a packet of another type is taken for one of the same kind.
CompressedBySize(p, prev) ==
  LET same == prev.size = p.size
      small == IF p.header = MEDIUM /\ same THEN SMALL ELSE p.header
  IN IF p.header = LARGE \/ prev = None THEN p.header
     ELSE IF small = SMALL /\ prev.stamp = p.stamp THEN MINIMUM ELSE small

\* The header type after the compression against the previous packet.
Compressed(p, prev) ==
  LET same == prev.size = p.size /\ prev.type = p.type
      small == IF p.header = MEDIUM /\ same THEN SMALL ELSE p.header
  IN IF p.header = LARGE \/ prev = None THEN p.header
     ELSE IF small = SMALL /\ prev.stamp = p.stamp THEN MINIMUM ELSE small

\* The fields that the first header of packet p puts on the wire.
HeaderOf(p, prev) ==
  LET h == Compressed(p, prev)
      last == IF h = LARGE \/ prev = None THEN 0 ELSE prev.stamp
      t == (p.stamp + TsSize - last) % TsSize
  IN [format |-> h, channel |-> p.channel,
      stamp |-> IF h = MINIMUM THEN 0 ELSE Lower(t, TsLimit),
      extended |-> IF h # MINIMUM /\ t >= TsLimit THEN t ELSE 0,
      size |-> IF h \in {LARGE, MEDIUM} THEN p.size ELSE 0,
      type |-> IF h \in {LARGE, MEDIUM} THEN p.type ELSE "none",
      id |-> IF h = LARGE THEN p.id ELSE 0]

\* Every later chunk of a packet has a header of one byte (and the channel).
Continuation(c) == [format |-> MINIMUM, channel |-> c, stamp |-> 0, extended |-> 0,
                    size |-> 0, type |-> "none", id |-> 0]

(* A packet is given to RTMP_SendPacket: its header is chosen, the packet is  *)
(* kept for the next one of the channel.                                      *)
SendPacket(p) ==
  /\ packets < MaxPackets
  /\ unsent[p.channel] = <<>>
  /\ m_vecChannelsOut[p.channel] = None => p.header = LARGE
  /\ packets' = packets + 1
  /\ LET body == [i \in 1 .. p.size |-> <<packets + 1, i>>]
         head == HeaderOf(p, m_vecChannelsOut[p.channel]) IN
       /\ full' = [full EXCEPT ![p.channel] =
                      IF head.format = LARGE THEN [id |-> p.id, stamped |-> TRUE]
                      ELSE [@ EXCEPT !.stamped = @ /\ head.format # MINIMUM]]
       /\ unsent' = [unsent EXCEPT ![p.channel] =
                        << [header |-> head, rest |-> body,
                            packet |-> [channel |-> p.channel, stamp |-> p.stamp, type |-> p.type,
                                        size |-> p.size, body |-> body] @@ full'[p.channel]] >>]
  /\ m_vecChannelsOut' = [m_vecChannelsOut EXCEPT ![p.channel] = p]
  /\ UNCHANGED <<m_outChunkSize, changes, due, wire, reader>>

\* The next chunk of a packet goes out.
SendChunk(c) ==
  /\ unsent[c] # <<>> /\ wire = <<>>
  /\ LET u == unsent[c][1]
         n == Lower(Len(u.rest), m_outChunkSize)
         rest == SubSeq(u.rest, n + 1, Len(u.rest)) IN
       /\ wire' = << [header |-> u.header, bytes |-> SubSeq(u.rest, 1, n)] >>
       /\ IF rest = <<>>
          THEN unsent' = [unsent EXCEPT ![c] = <<>>] /\ due' = Append(due, u.packet)
          ELSE /\ unsent' = [unsent EXCEPT ![c] =
                               << [u EXCEPT !.header = Continuation(c), !.rest = rest] >>]
               /\ UNCHANGED due
  /\ UNCHANGED <<m_vecChannelsOut, m_outChunkSize, packets, changes, full, reader>>

\* The peer changes its chunk size, and says so before the next chunk.
ChangeChunkSize(n) ==
  /\ n # m_outChunkSize /\ changes < MaxChanges /\ wire = <<>>
  /\ changes' = changes + 1
  /\ m_outChunkSize' = n
  /\ wire' = << [chunkSize |-> n] >>
  /\ UNCHANGED <<m_vecChannelsOut, unsent, packets, full, due, reader>>

------------------------------------------------------------------------------
(* RTMP_ReadPacket, one chunk at a time, and ClientPacket for chunk sizes.    *)

\* The packet as it stands after the header: the kept one with what h carries.
\* A header with a size begins a body; a kept body that is missing is begun too.
AfterHeader(h, kept) ==
  LET base == IF h.format = LARGE
              THEN [channel |-> h.channel, absolute |-> TRUE, body |-> <<>>,
                    type |-> h.type, size |-> h.size, id |-> h.id, stamp |-> h.stamp]
              ELSE kept
      stamped == IF h.format = MINIMUM THEN base
                 ELSE [base EXCEPT !.stamp = IF h.stamp = TsLimit THEN h.extended ELSE h.stamp]
  IN IF h.format = MEDIUM
     THEN [stamped EXCEPT !.size = h.size, !.type = h.type, !.body = <<>>]
     ELSE stamped

\* Faulty: the kept header still says that its timestamp is absolute.
ReferenceAbsolute(p) == [p EXCEPT !.body = <<>>]

\* What is kept of a packet that is complete: a header without a body.
Reference(p) == [p EXCEPT !.body = <<>>, !.absolute = FALSE]

ReadPacket ==
  /\ wire # <<>> /\ "header" \in DOMAIN wire[1]
  /\ wire' = Tail(wire)
  /\ LET h == wire[1].header
         c == h.channel
         p == AfterHeader(h, m_vecChannelsIn[c])
         n == Lower(p.size - Len(p.body), m_inChunkSize)
         q == [p EXCEPT !.body = @ \o SubSeq(wire[1].bytes, 1, n)]
         stamp == IF q.absolute THEN q.stamp ELSE (q.stamp + m_channelTimestamp[c]) % TsSize IN
       IF Len(q.body) = q.size
       THEN /\ read' = << [q EXCEPT !.stamp = stamp], Head(due) >> /\ due' = Tail(due)
            /\ m_channelTimestamp' = [m_channelTimestamp EXCEPT ![c] = stamp]
            /\ m_vecChannelsIn' = [m_vecChannelsIn EXCEPT ![c] = Reference(q)]
       ELSE /\ m_vecChannelsIn' = [m_vecChannelsIn EXCEPT ![c] = q]
            /\ UNCHANGED <<read, due, m_channelTimestamp>>
  /\ UNCHANGED <<sender, m_inChunkSize>>

HandleChangeChunkSize ==
  /\ wire # <<>> /\ "chunkSize" \in DOMAIN wire[1]
  /\ wire' = Tail(wire)
  /\ m_inChunkSize' = wire[1].chunkSize
  /\ UNCHANGED <<sender, due, m_vecChannelsIn, m_channelTimestamp, read>>

\* What callers pass: LARGE or MEDIUM headers, the id of the stream and a body.
\* (the id of a MEDIUM header is never sent, one of them stands for all).
Packet == [channel : Channels, header : {LARGE}, stamp : Stamps, type : Types,
           size : BodySizes, id : StreamIds]
            \cup [channel : Channels, header : {MEDIUM}, stamp : Stamps, type : Types,
                  size : BodySizes, id : {CHOOSE i \in StreamIds : TRUE}]

Next ==
  \/ \E p \in Packet : SendPacket(p)
  \/ \E c \in Channels : SendChunk(c)
  \/ \E n \in ChunkSizes : ChangeChunkSize(n)
  \/ ReadPacket \/ HandleChangeChunkSize

Spec == Init /\ [][Next]_vars

------------------------------------------------------------------------------

\* rtmp.c:2857-3022 and 3177-3373: however the chunks of the channels are mixed
\* and the chunk size changes between them, the reader completes the packets
\* that were sent, in their order, each with its own bytes, type and size; with
\* the stream of the channel's last full header; and with the right timestamp,
\* as long as no packet since that header came without a timestamp of its own.
PacketsArrive ==
  read # <<>> =>
    LET got == read[1]
        want == read[2] IN
    /\ got.channel = want.channel /\ got.type = want.type
    /\ got.size = want.size /\ got.body = want.body /\ got.id = want.id
    /\ want.stamped => got.stamp = want.stamp
==============================================================================
