------------------------------ MODULE RtmpMedia ------------------------------
(***************************************************************************)
(* Media packets and pausing in librtmp's client (src/librtmp/rtmp.c):     *)
(* RTMP_GetNextMediaPacket with the packets that RTMP_ClientPacket keeps   *)
(* count of, and the pause that makes a server which waits send on         *)
(* (RTMP_LF_BUFX, HandleCtrl, RTMP_ToggleStream, NetStream.Pause.Notify).  *)
(* A stream is being played; the connection is in order and is not lost    *)
(* (module RtmpSession loses it).                                          *)
(*                                                                         *)
(* The server is external.  It sends the packets of Media in order; it may *)
(* send everything it wants buffered, say so (BufferEmpty) and wait.  A    *)
(* pause stops it; when the pause ends it goes on from a packet that is at *)
(* or before the time the client names, whichever it can start from.       *)
(***************************************************************************)
EXTENDS FiniteSetsExt, SequencesExt, Integers

CONSTANTS
    Media,        \* the packets: [first, last], the timestamps of their first and last tag
    MaxWaits,     \* bound: how often the server waits
    MaxToggles    \* bound: calls of RTMP_ToggleStream

VARIABLES
    pausing,      \* m_pausing
    pauseStamp,   \* m_pauseStamp
    mediaStamp,   \* m_mediaStamp
    channelStamp, \* m_channelTimestamp[m_mediaChannel]
    given,        \* which packets of Media the program was given
    skipped,      \* which ones were read and not given
    up, down,     \* the connection: what the client and what the server sent
    server,       \* [next, mode, fresh]: the packet to send next; sending, waiting or
                  \* paused; whether it has sent something later since it last started
    sent,         \* the latest timestamp the server ever sent
    waits, toggles

client == <<pausing, pauseStamp, mediaStamp, channelStamp, given, skipped>>
vars == <<client, up, down, server, sent, waits, toggles>>

Init ==
    /\ pausing = 0 /\ pauseStamp = 0 /\ mediaStamp = 0 /\ channelStamp = 0
    /\ given = {} /\ skipped = {}
    /\ up = <<>> /\ down = <<>>
    /\ server = [next |-> 1, mode |-> "sending", fresh |-> FALSE]
    /\ sent = 0 /\ waits = 0 /\ toggles = 0

-----------------------------------------------------------------------------
(* The server. *)

Message(kind)   == [kind |-> kind, index |-> 0]
Later(a, b)     == Max({a, b})

ServerSend ==
    /\ server.mode = "sending" /\ server.next <= Len(Media) /\ Len(down) < 3
    /\ LET p == Media[server.next] IN
          /\ down' = Append(down, [kind |-> "media", index |-> server.next])
          /\ sent' = Later(sent, p.last)
          /\ server' = [server EXCEPT !.next = @ + 1, !.fresh = @ \/ p.first > sent]
    /\ UNCHANGED <<client, up, waits, toggles>>

\* It waits only after it has sent a packet that starts later than all before: of one
\* that it only starts from again, or that starts at the kept stamp, the client would
\* take no notice, nor of the BufferEmpty that follows.
ServerWait ==
    /\ server.mode = "sending" /\ server.fresh /\ server.next <= Len(Media)
    /\ waits < MaxWaits
    /\ down' = Append(down, Message("BufferEmpty"))
    /\ server' = [server EXCEPT !.mode = "waiting"]
    /\ waits' = waits + 1
    /\ UNCHANGED <<client, up, sent, toggles>>

\* The time it was waiting for has passed.
ServerGoOn ==
    /\ server.mode = "waiting"
    /\ server' = [server EXCEPT !.mode = "sending", !.fresh = FALSE]
    /\ UNCHANGED <<client, up, down, sent, waits, toggles>>

\* A pause is confirmed by the end of the stream and then by a notice, or by
\* an empty buffer.
ServerPause ==
    /\ up # <<>> /\ Head(up).pause
    /\ up' = Tail(up)
    /\ server' = [server EXCEPT !.mode = "paused"]
    /\ \E how \in {"PauseNotify", "BufferEmpty"} :
          down' = down \o <<Message("StreamEOF"), Message(how)>>
    /\ UNCHANGED <<client, sent, waits, toggles>>

ServerResume ==
    /\ up # <<>> /\ ~Head(up).pause
    /\ up' = Tail(up)
    /\ IF server.mode = "paused"
       THEN \E k \in 1 .. Len(Media) + 1 :
               /\ \A j \in 1 .. k - 1 : Media[j].last <= Head(up).stamp
               /\ server' = [next |-> k, mode |-> "sending", fresh |-> FALSE]
       ELSE UNCHANGED server
    /\ UNCHANGED <<client, down, sent, waits, toggles>>

-----------------------------------------------------------------------------
(* The client. *)

Pause(flag, stamp) == [pause |-> flag, stamp |-> stamp]

\* Faulty: the stamp is kept while the stream is being paused too.
StampAlways(p) == p.last

\* What RTMP_ClientPacket keeps of a media packet: while the stream is being
\* paused the stamp stays at what came before.
StampOf(p) == IF pausing = 0 THEN p.last ELSE mediaStamp

\* RTMP_GetNextMediaPacket: after a pause, packets up to the kept stamp are
\* skipped; the first later one ends the skipping.
GetMedia ==
    /\ down # <<>> /\ Head(down).kind = "media"
    /\ down' = Tail(down)
    /\ LET k == Head(down).index
           p == Media[k]
       IN /\ mediaStamp' = StampOf(p)
          /\ channelStamp' = p.first
          /\ IF pausing = 3 /\ p.first <= mediaStamp'
             THEN /\ skipped' = skipped \union {k}
                  /\ UNCHANGED <<given, pausing>>
             ELSE /\ given' = given \union {k}
                  /\ pausing' = IF pausing = 3 THEN 0 ELSE pausing
                  /\ UNCHANGED skipped
    /\ UNCHANGED <<pauseStamp, up, server, sent, waits, toggles>>

\* HandleCtrl, Stream EOF: the server has stopped.
StreamEOF ==
    /\ down # <<>> /\ Head(down).kind = "StreamEOF"
    /\ down' = Tail(down)
    /\ pausing' = IF pausing = 1 THEN 2 ELSE pausing
    /\ UNCHANGED <<pauseStamp, mediaStamp, channelStamp, given, skipped, up, server, sent,
                   waits, toggles>>

\* HandleCtrl, Stream BufferEmpty: pause, or end the pause that has begun.
BufferEmpty ==
    /\ down # <<>> /\ Head(down).kind = "BufferEmpty"
    /\ down' = Tail(down)
    /\ \/ /\ pausing = 0
          /\ pauseStamp' = channelStamp
          /\ up' = Append(up, Pause(TRUE, channelStamp))
          /\ pausing' = 1
       \/ /\ pausing = 2
          /\ up' = Append(up, Pause(FALSE, pauseStamp))
          /\ pausing' = 3
          /\ UNCHANGED pauseStamp
       \/ /\ pausing \in {1, 3}
          /\ UNCHANGED <<pausing, pauseStamp, up>>
    /\ UNCHANGED <<mediaStamp, channelStamp, given, skipped, server, sent, waits, toggles>>

\* Faulty: only before the server says that it has stopped.
NotifyEndsEarly == {1}

\* The states in which NetStream.Pause.Notify ends the pause.
NotifyEnds == {1, 2}

\* HandleInvoke, NetStream.Pause.Notify: end the pause.
PauseNotify ==
    /\ down # <<>> /\ Head(down).kind = "PauseNotify"
    /\ down' = Tail(down)
    /\ IF pausing \in NotifyEnds
       THEN up' = Append(up, Pause(FALSE, pauseStamp)) /\ pausing' = 3
       ELSE UNCHANGED <<up, pausing>>
    /\ UNCHANGED <<pauseStamp, mediaStamp, channelStamp, given, skipped, server, sent,
                   waits, toggles>>

\* A read times out and the program calls RTMP_ToggleStream.
ToggleStream ==
    /\ toggles < MaxToggles
    /\ toggles' = toggles + 1
    /\ LET at == IF pausing = 0 THEN channelStamp ELSE pauseStamp IN
          /\ pauseStamp' = at
          /\ up' = up \o (IF pausing = 0 THEN <<Pause(TRUE, at)>> ELSE <<>>)
                      \o <<Pause(FALSE, at)>>
    /\ pausing' = 3
    /\ UNCHANGED <<mediaStamp, channelStamp, given, skipped, down, server, sent, waits>>

ServerNext == ServerSend \/ ServerPause \/ ServerResume
ClientNext == GetMedia \/ StreamEOF \/ BufferEmpty \/ PauseNotify

Next == ServerNext \/ ServerWait \/ ServerGoOn \/ ClientNext \/ ToggleStream

\* The program keeps reading; the server answers, and sends while it neither
\* waits nor is paused.  Nothing makes a waiting server go on.
Spec == Init /\ [][Next]_vars /\ WF_vars(ServerNext) /\ WF_vars(ClientNext)

-----------------------------------------------------------------------------
(* Properties. *)

TypeOK ==
    /\ pausing \in 0 .. 3
    /\ \A s \in {pauseStamp, mediaStamp, channelStamp, sent} : s \in Nat
    /\ given \union skipped \subseteq DOMAIN Media

\* However pauses, timeouts and packets that are still under way meet, what the
\* client skips after a pause is what the program was given before
\* (rtmp.c:1065-1078, 1124-1142), but for the packets that RTMP_GetNextMediaPacket
\* cannot tell from a repetition, because it compares with <= and keeps a time
\* only: a packet is lost, without ever having been given, when it starts at the
\* very time at which an earlier one that was given ended, or at time 0, which
\* m_mediaStamp is before any packet came.
NothingNewIsSkipped ==
    \A k \in skipped \ given :
        \/ Media[k].first = 0
        \/ \E j \in given : j < k /\ Media[j].last = Media[k].first

\* A server that waits is made to send on, and the program is given the last packet
\* of the stream, which is later than all others (rtmp.c:2758-2774, 2479-2486).
StreamGoesOn == <>(Len(Media) \in given)
=============================================================================
