----------------------------- MODULE RtmpSession -----------------------------
(***************************************************************************)
(* The control side of librtmp's client (src/librtmp/rtmp.c): the calls it *)
(* makes on the server, what it does with the answers, and RTMP_Close.     *)
(* One thread uses an RTMP object.  A call into the library is a stack of  *)
(* steps that still have to be done, the next one first: a packet to send, *)
(* or the rest of a function that is waiting for a send to return.  A send *)
(* that fails closes the connection from inside, and RTMP_Close sends      *)
(* packets itself, so the stack can grow while a handler is at work.       *)
(*                                                                         *)
(* Media packets and the pausing of a stream are module RtmpMedia's, the   *)
(* bytes on the line module RtmpChunks's.  The server is external: it may  *)
(* answer a call it received, once, at any time, and send anything else    *)
(* whenever it likes.                                                      *)
(***************************************************************************)
EXTENDS Integers, FiniteSetsExt, SequencesExt

CONSTANTS
    LinkOptions,      \* which of "write", "live", "playlist", "token" may be asked for
    MaxInvokes,   \* bound: calls made on one connection
    MaxConnects,  \* bound: connections of one RTMP object
    MaxDepth      \* bound: calls of RTMP_Close inside one another

VARIABLES
    options,      \* Link.protocol and Link.lFlags, fixed before connecting
    connected,    \* m_sb.sb_socket # -1
    broken,       \* the connection is lost: every write fails
    streamId,     \* m_stream_id
    calls,        \* m_methodCalls: the calls whose results are awaited
    invokes,      \* m_numInvokes
    playing,      \* m_bPlaying
    stack,        \* what the library call under way still has to do
    asked,        \* the calls the server received and did not answer yet
    live,         \* the streams the server holds for this connection
    connects      \* bound only: connections made

vars == <<options, connected, broken, streamId, calls, invokes, playing, stack,
          asked, live, connects>>

\* The calls numbered by ++m_numInvokes, and those kept until their result
\* arrives (RTMP_SendPacket with queue TRUE).
Numbered == {"connect", "createStream", "FCSubscribe", "releaseStream", "FCPublish",
             "FCUnpublish", "publish", "deleteStream", "play", "_checkbw"}
Awaited  == {"connect", "createStream", "FCSubscribe", "publish", "play", "set_playlist"}

Call(name)       == [do |-> "send", name |-> name, arg |-> 0]
CallWith(name, n) == [do |-> "send", name |-> name, arg |-> n]

\* The packets the client sends, one for each of its Send functions.
SendConnectPacket       == Call("connect")
SendCreateStream        == Call("createStream")
SendFCSubscribe         == Call("FCSubscribe")
SendReleaseStream       == Call("releaseStream")
SendFCPublish           == Call("FCPublish")
SendFCUnpublish         == Call("FCUnpublish")
SendPublish             == Call("publish")
SendDeleteStream(id)    == CallWith("deleteStream", id)
SendPlay                == Call("play")
SendPlaylist            == Call("set_playlist")
SendSecureTokenResponse == Call("secureTokenResponse")
SendServerBW            == Call("server bandwidth")
SendCtrl                == Call("ctrl")
SendCheckBW             == Call("_checkbw")
SendCheckBWResult       == Call("_result")
SendPong                == Call("pong")

Rest(what)       == [do |-> what, name |-> "none", arg |-> 0]
Push(steps)      == stack' = steps \o stack
Resume(steps)    == stack' = steps \o Tail(stack)
Idle             == stack = <<>>
At(what)         == ~Idle /\ Head(stack).do = what
Writer           == "write" \in options

Init ==
    /\ options \in SUBSET LinkOptions
    /\ connected = FALSE /\ broken = FALSE
    /\ streamId = -1 /\ calls = <<>> /\ invokes = 0 /\ playing = FALSE
    /\ stack = <<>> /\ asked = {} /\ live = {} /\ connects = 0

-----------------------------------------------------------------------------
(* Sending.  Every packet goes through RTMP_SendPacket and WriteN, which    *)
(* closes the connection when the write fails; the caller goes on.          *)

\* Failing: every write on a lost connection, and on the closed socket.
CanWrite == connected /\ ~broken

TxnOf(name) == IF name \in Numbered THEN invokes + 1 ELSE 0

Send ==
    /\ At("send")
    /\ LET p == Head(stack)
           c == [name |-> p.name, txn |-> TxnOf(p.name)]
       IN /\ p.name \in Numbered => invokes < MaxInvokes
          /\ invokes' = IF p.name \in Numbered THEN invokes + 1 ELSE invokes
          /\ IF CanWrite
             THEN /\ Resume(<<>>)
                  /\ calls' = IF p.name \in Awaited THEN Append(calls, c) ELSE calls
                  /\ asked' = IF p.name \in Numbered THEN asked \union {c} ELSE asked
                  /\ live' = IF p.name = "deleteStream" THEN live \ {p.arg} ELSE live
             ELSE /\ Resume(<<Rest("close")>>)
                  /\ UNCHANGED <<calls, asked, live>>
    /\ UNCHANGED <<options, connected, broken, streamId, playing, connects>>

-----------------------------------------------------------------------------
(* Closing. *)

\* RTMP_Close up to its first send.  A writer that holds a stream first
\* withdraws what it published.
CloseOpen ==
    /\ At("close")
    /\ Cardinality({k \in 1 .. Len(stack) : stack[k].do \in {"delete", "shut"}}) < MaxDepth
    /\ \/ /\ connected /\ streamId > 0 /\ Writer
          /\ Resume(<<SendFCUnpublish, Rest("delete")>>)
       \/ /\ connected /\ streamId > 0 /\ ~Writer
          /\ Resume(<<Rest("delete")>>)
       \/ /\ ~connected \/ streamId <= 0
          /\ Resume(<<Rest("shut")>>)
    /\ UNCHANGED <<options, connected, broken, streamId, calls, invokes, playing,
                   asked, live, connects>>

\* Faulty: forgets the stream only when RTMP_Close resets everything.
KeepStream(id) ==
    UNCHANGED streamId /\ Resume(<<SendDeleteStream(id), Rest("shut")>>)

\* The stream is forgotten before its deletion is sent: the RTMP_Close of a send
\* that fails finds no stream to delete.
ForgetStream(id) == streamId' = 0 /\ Resume(<<SendDeleteStream(id), Rest("shut")>>)

CloseDelete ==
    /\ At("delete")
    /\ ForgetStream(streamId)
    /\ UNCHANGED <<options, connected, broken, calls, invokes, playing, asked, live, connects>>

\* Faulty: m_methodCalls keeps the calls of the connection that ended.
CallsKept == calls

\* The calls left when a connection ends.
CallsAfterClose == <<>>

\* The rest of RTMP_Close: the socket is closed and everything is as new.
CloseShut ==
    /\ At("shut")
    /\ Resume(<<>>)
    /\ connected' = FALSE /\ broken' = FALSE
    /\ streamId' = -1 /\ playing' = FALSE
    /\ calls' = CallsAfterClose /\ invokes' = 0
    /\ asked' = {} /\ live' = {}
    /\ UNCHANGED <<options, connects>>

-----------------------------------------------------------------------------
(* What the program calls, one call at a time. *)

\* RTMP_Connect0 and RTMP_Connect1: the handshake is over, connect is sent.
Connect ==
    /\ Idle /\ ~connected /\ connects < MaxConnects
    /\ connected' = TRUE
    /\ Push(<<SendConnectPacket, Rest("failed")>>)
    /\ connects' = connects + 1
    /\ UNCHANGED <<options, broken, streamId, calls, invokes, playing, asked, live>>

\* RTMP_Connect1 closes once more when SendConnectPacket said that it failed.
ConnectFailed ==
    /\ At("failed")
    /\ Resume(IF connected THEN <<>> ELSE <<Rest("close")>>)
    /\ UNCHANGED <<options, connected, broken, streamId, calls, invokes, playing,
                   asked, live, connects>>

CloseCall ==
    /\ Idle /\ connected
    /\ Push(<<Rest("close")>>)
    /\ UNCHANGED <<options, connected, broken, streamId, calls, invokes, playing,
                   asked, live, connects>>

\* RTMP_DeleteStream, alone or followed by RTMP_SendCreateStream
\* (RTMP_ReconnectStream).
DeleteStream ==
    /\ Idle /\ connected
    /\ \E again \in {<<>>, <<SendCreateStream>>} :
          IF streamId < 0
          THEN Push(again) /\ UNCHANGED playing
          ELSE /\ playing' = FALSE
               /\ Push(<<SendDeleteStream(streamId), Rest("deleted")>> \o again)
    /\ stack' # stack
    /\ UNCHANGED <<options, connected, broken, streamId, calls, invokes, asked, live, connects>>

\* Faulty: RTMP_DeleteStream does not reset m_stream_id.
StreamDeletedKeepId ==
    /\ At("deleted")
    /\ Resume(<<>>)
    /\ UNCHANGED <<options, connected, broken, streamId, calls, invokes, playing,
                   asked, live, connects>>

StreamDeleted ==
    /\ At("deleted")
    /\ Resume(<<>>)
    /\ streamId' = -1
    /\ UNCHANGED <<options, connected, broken, calls, invokes, playing, asked, live, connects>>

-----------------------------------------------------------------------------
(* HandleInvoke. *)

\* The first pending call at one of the places hits is taken off the list (AV_erase).
Without(hits) == IF hits = {} THEN calls ELSE RemoveAt(calls, Min(hits))

CallsNamed(name) == {k \in 1 .. Len(calls) : calls[k].name = name}

\* What the result of a call makes the client do next.
AfterConnect ==
    (IF "token" \in options THEN <<SendSecureTokenResponse>> ELSE <<>>)
    \o (IF Writer THEN <<SendReleaseStream, SendFCPublish>>
                  ELSE <<SendServerBW, SendCtrl>>)
    \o <<SendCreateStream>>
    \o (IF ~Writer /\ "live" \in options THEN <<SendFCSubscribe>> ELSE <<>>)

AfterCreateStream ==
    IF Writer THEN <<SendPublish>>
    ELSE (IF "playlist" \in options THEN <<SendPlaylist>> ELSE <<>>)
         \o <<SendPlay, SendCtrl>>

\* _result: the client looks the number up among its pending calls and acts on
\* the name it finds there; the number of a new stream comes with the answer.
Result(q) ==
    LET hits == {k \in 1 .. Len(calls) : calls[k].txn = q.txn}
        name == IF hits = {} THEN "none" ELSE calls[Min(hits)].name
        new  == Min((1 .. Cardinality(live) + 1) \ live)
    IN /\ asked' = asked \ {q}
       /\ calls' = Without(hits)
       /\ live' = IF q.name = "createStream" THEN live \union {new} ELSE live
       /\ streamId' = IF name = "createStream" THEN new ELSE streamId
       /\ playing' = (playing \/ name \in {"play", "publish"})
       /\ Push(CASE name = "connect"      -> AfterConnect
                 [] name = "createStream" -> AfterCreateStream
                 [] OTHER                 -> <<>>)

Answered ==
    /\ Idle /\ CanWrite
    /\ \E q \in asked : Result(q)
    /\ UNCHANGED <<options, connected, broken, invokes, connects>>

\* The other invocations of the server that make the client act.  The packet is
\* read by RTMP_ConnectStream, or by RTMP_GetNextMediaPacket, which takes the end
\* of a stream (a return of 1) for a media packet and sets m_bPlaying.
Invoked(reader) ==
    LET ended == IF reader = "GetNextMediaPacket" THEN <<Rest("ended")>> ELSE <<>>
    IN \/ Push(<<SendCheckBW>>) /\ UNCHANGED <<streamId, calls, playing>>   \* onBWDone
       \/ Push(<<SendPong>>) /\ UNCHANGED <<streamId, calls, playing>>       \* ping
       \/ Push(<<SendCtrl>>) /\ UNCHANGED <<streamId, calls, playing>>       \* a control ping
       \/ Push(<<SendCheckBWResult>>) /\ UNCHANGED <<streamId, calls, playing>>    \* _onbwcheck
       \/ /\ calls' = Without(CallsNamed("_checkbw"))                    \* _onbwdone
          /\ UNCHANGED <<streamId, playing, stack>>
       \/ /\ calls' = Without(CallsNamed("set_playlist"))                \* playlist_ready
          /\ UNCHANGED <<streamId, playing, stack>>
       \/ Push(<<Rest("close")>>) /\ UNCHANGED <<streamId, calls, playing>>      \* close
       \/ /\ Push(<<Rest("close")>> \o ended)      \* onFCUnsubscribe, Play.Complete, Play.Stop
          /\ UNCHANGED <<streamId, calls, playing>>
       \/ /\ streamId' = -1 /\ Push(<<Rest("close")>>)                  \* NetStream.Failed
          /\ UNCHANGED <<calls, playing>>
       \/ \E name \in {"play", "publish"} :                \* Play.Start, Publish.Start
             /\ playing' = TRUE
             /\ calls' = Without(CallsNamed(name))
             /\ UNCHANGED <<streamId, stack>>

Invoke ==
    /\ Idle /\ CanWrite
    /\ \E reader \in {"ConnectStream", "GetNextMediaPacket"} :
          (reader = "ConnectStream" => ~playing) /\ Invoked(reader)
    /\ UNCHANGED <<options, connected, broken, invokes, asked, live, connects>>

StreamEnded ==
    /\ At("ended")
    /\ Resume(<<>>)
    /\ playing' = TRUE
    /\ UNCHANGED <<options, connected, broken, streamId, calls, invokes, asked, live, connects>>

\* ReadN finds the connection closed by the peer.
PeerClosed ==
    /\ Idle /\ connected /\ broken
    /\ Push(<<Rest("close")>>)
    /\ UNCHANGED <<options, connected, broken, streamId, calls, invokes, playing,
                   asked, live, connects>>

\* External: the connection is lost.
Break ==
    /\ connected /\ ~broken
    /\ broken' = TRUE
    /\ UNCHANGED <<options, connected, streamId, calls, invokes, playing, stack,
                   asked, live, connects>>

Next ==
    \/ Connect \/ CloseCall \/ DeleteStream \/ Answered \/ Invoke \/ PeerClosed \/ Break
    \/ Send \/ CloseOpen \/ CloseDelete \/ CloseShut \/ ConnectFailed
    \/ StreamDeleted \/ StreamEnded

Spec == Init /\ [][Next]_vars

-----------------------------------------------------------------------------
(* Properties. *)

\* The number of RTMP_Close calls that are waiting inside one another.
Closings == Cardinality({k \in 1 .. Len(stack) : stack[k].do \in {"delete", "shut"}})

\* A reader's RTMP_Close is entered at most once more while it is at work,
\* however its own deleteStream fails (rtmp.c:3385-3394 resets m_stream_id
\* before it sends).
CloseComesToAnEnd == Writer \/ Closings <= 2

\* The client takes an answer for the call that the server answered: a pending
\* call with the number of a call that the server has yet to answer is that call
\* (rtmp.c:2307-2313; m_numInvokes starts again at 1 on every connection).
AnswersAreTaken ==
    \A q \in asked, k \in 1 .. Len(calls) : calls[k].txn = q.txn => calls[k].name = q.name

\* The client asks the server to delete only streams that the server gave it on
\* this connection and that it did not delete before (rtmp.c:1035-1044,
\* 3387-3394).
DeletesItsOwn ==
    At("send") /\ Head(stack).name = "deleteStream" /\ CanWrite => Head(stack).arg \in live
=============================================================================
