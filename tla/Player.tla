------------------------------- MODULE Player -------------------------------
(***************************************************************************)
(* The playing of one stream: the loop of play() (src/src/oggplayer/       *)
(* oggutil.cpp) with the seek bar's events, and the decoding thread of     *)
(* Decoder.cpp, over liboggplay's list of Buffers decoded frames, which is *)
(* external: a decoding step waits for a free buffer, puts one frame or    *)
(* none, or finds the end of the stream; a retrieved buffer stays taken    *)
(* until it is released; seeking empties the list.                         *)
(*                                                                         *)
(* A frame is the number of the seek it was decoded after: what the clock  *)
(* of the loop must not mix.                                               *)
(***************************************************************************)
EXTENDS Naturals, Sequences

CONSTANTS
    Buffers,      \* oggplay_use_buffer(player, 20)
    MaxFrames,    \* bound: frames from the place of a seek to the end of the stream
    MaxSeeks      \* bound: clicks on the seek bar

VARIABLES
    loop,         \* where the play loop stands
    seeking,      \* the stop() under way is the one of seek()
    held,         \* the buffer the loop has retrieved, <<>> or one frame
    thread,       \* mThread: "none", "check", "step" or "ended"
    completed,    \* mCompleted
    justSeeked,   \* mJustSeeked
    filled,       \* the decoded frames that wait to be retrieved
    left,         \* frames before the end of the stream
    seeks,        \* how often oggplay_seek was called
    anchor,       \* the frame first_frame_time was taken from, <<>> for -1
    failed        \* some SDL_CreateThread failed

vars == <<loop, seeking, held, thread, completed, justSeeked, filled, left, seeks, anchor, failed>>
list == <<filled, left>>

TypeOK ==
    /\ loop \in {"events", "retrieve", "show", "release", "stop", "free", "freed", "join", "done"}
    /\ seeking \in BOOLEAN /\ completed \in BOOLEAN /\ justSeeked \in BOOLEAN /\ failed \in BOOLEAN
    /\ thread \in {"none", "check", "step", "ended"}
    /\ seeks \in 0..MaxSeeks /\ left \in 0..MaxFrames
    /\ \A f \in {held, anchor} : Len(f) <= 1
    /\ Len(held) + Len(filled) <= Buffers

\* Decoder::start; the constructor leaves mJustSeeked as it finds it.
Started(ok) ==
    /\ completed' = FALSE
    /\ thread' = IF ok THEN "check" ELSE "none"

Init ==
    /\ loop = "events" /\ seeking = FALSE /\ held = <<>> /\ failed = FALSE
    /\ thread = "check" /\ completed = FALSE /\ justSeeked \in BOOLEAN
    /\ filled = <<>> /\ left = MaxFrames /\ seeks = 0 /\ anchor = <<>>
-----------------------------------------------------------------------------
\* while (!decoder.isCompleted()) at the head of the loop and after the events.
Leave ==
    /\ loop \in {"events", "retrieve"}
    /\ completed
    /\ loop' = "stop" /\ seeking' = FALSE
    /\ UNCHANGED <<held, thread, completed, justSeeked, list, seeks, anchor, failed>>

\* SDL_QUIT or escape: handle_sdl_event is false.
Quit ==
    /\ loop = "events"
    /\ completed' = TRUE
    /\ loop' = "retrieve"
    /\ UNCHANGED <<seeking, held, thread, justSeeked, list, seeks, anchor, failed>>

\* A click inside the seek bar; further events are polled after it.
Click ==
    /\ loop = "events" /\ seeks < MaxSeeks
    /\ loop' = "stop" /\ seeking' = TRUE
    /\ UNCHANGED <<held, thread, completed, justSeeked, list, seeks, anchor, failed>>

NoEvent ==
    /\ loop = "events" /\ ~completed
    /\ loop' = "retrieve"
    /\ UNCHANGED <<seeking, held, thread, completed, justSeeked, list, seeks, anchor, failed>>

\* oggplay_buffer_retrieve_next, NULL when nothing is decoded.
Retrieve ==
    /\ loop = "retrieve" /\ ~completed
    /\ IF filled = <<>>
       THEN loop' = "events" /\ UNCHANGED <<held, filled>>
       ELSE loop' = "show" /\ held' = <<Head(filled)>> /\ filled' = Tail(filled)
    /\ UNCHANGED <<seeking, thread, completed, justSeeked, left, seeks, anchor, failed>>

\* Faulty: the clock is started once.
ShowFirst ==
    /\ loop = "show"
    /\ anchor' = IF anchor = <<>> THEN held ELSE anchor
    /\ justSeeked' = FALSE
    /\ loop' = "release"
    /\ UNCHANGED <<seeking, held, thread, completed, list, seeks, failed>>

\* A video frame: the first one, and the first one after a seek, start the clock.
Show ==
    /\ loop = "show"
    /\ anchor' = IF anchor = <<>> \/ justSeeked THEN held ELSE anchor
    /\ justSeeked' = FALSE
    /\ loop' = "release"
    /\ UNCHANGED <<seeking, held, thread, completed, list, seeks, failed>>

\* No video frame in the buffer: audio or text alone.
ShowOther ==
    /\ loop = "show"
    /\ loop' = "release"
    /\ UNCHANGED <<seeking, held, thread, completed, justSeeked, list, seeks, anchor, failed>>

Release ==
    /\ loop = "release"
    /\ held' = <<>>
    /\ loop' = "events"
    /\ UNCHANGED <<seeking, thread, completed, justSeeked, list, seeks, anchor, failed>>
-----------------------------------------------------------------------------
\* Decoder::stop, from seek and from the end of play.
Stop ==
    /\ loop = "stop"
    /\ completed' = TRUE
    /\ loop' = "free"
    /\ UNCHANGED <<seeking, held, thread, justSeeked, list, seeks, anchor, failed>>

\* Faulty: no buffer is released for the thread.
FreeNone ==
    /\ loop = "free"
    /\ loop' = "join"
    /\ UNCHANGED <<seeking, held, thread, completed, justSeeked, list, seeks, anchor, failed>>

Free ==
    /\ loop = "free"
    /\ IF filled = <<>>
       THEN loop' = "join" /\ UNCHANGED <<held, filled>>
       ELSE loop' = "freed" /\ held' = <<Head(filled)>> /\ filled' = Tail(filled)
    /\ UNCHANGED <<seeking, thread, completed, justSeeked, left, seeks, anchor, failed>>

Freed ==
    /\ loop = "freed"
    /\ held' = <<>>
    /\ loop' = "join"
    /\ UNCHANGED <<seeking, thread, completed, justSeeked, list, seeks, anchor, failed>>

\* SDL_WaitThread returns at once for no thread.
Joined == thread \in {"none", "ended"}

Join ==
    /\ loop = "join" /\ ~seeking
    /\ Joined
    /\ thread' = "none"
    /\ loop' = "done"
    /\ UNCHANGED <<seeking, held, completed, justSeeked, list, seeks, anchor, failed>>

\* The rest of seek(): oggplay_seek, start and mJustSeeked.
Seek ==
    /\ loop = "join" /\ seeking
    /\ Joined
    /\ seeks' = seeks + 1
    /\ filled' = <<>> /\ left' = MaxFrames
    /\ \E ok \in BOOLEAN : Started(ok) /\ failed' = (failed \/ ~ok)
    /\ justSeeked' = TRUE
    /\ loop' = "events"
    /\ UNCHANGED <<seeking, held, anchor>>
-----------------------------------------------------------------------------
\* The loop of decode_thread.
Check ==
    /\ thread = "check"
    /\ thread' = IF completed THEN "ended" ELSE "step"
    /\ UNCHANGED <<loop, seeking, held, completed, justSeeked, list, seeks, anchor, failed>>

\* oggplay_step_decoding: a frame (CONTINUE, USER_INTERRUPT), or none (TIMEOUT).
StepFrame ==
    /\ thread = "step"
    /\ Len(held) + Len(filled) < Buffers
    /\ left > 0
    /\ \/ filled' = Append(filled, seeks) /\ left' = left - 1
       \/ UNCHANGED list
    /\ thread' = "check"
    /\ UNCHANGED <<loop, seeking, held, completed, justSeeked, seeks, anchor, failed>>

\* The end of the stream, or an error: the loop ends and marks the decoder completed.
StepLast ==
    /\ thread = "step"
    /\ Len(held) + Len(filled) < Buffers
    /\ thread' = "ended"
    /\ completed' = TRUE
    /\ UNCHANGED <<loop, seeking, held, justSeeked, list, seeks, anchor, failed>>

Loop == Leave \/ Quit \/ Click \/ NoEvent \/ Retrieve \/ Show \/ ShowOther \/ Release
            \/ Stop \/ Free \/ Freed \/ Join \/ Seek
DecodeThread == Check \/ StepFrame \/ StepLast

Next == Loop \/ DecodeThread

\* Both threads run; a decoding step that finds the end of the stream in the end.
Spec == Init /\ [][Next]_vars /\ WF_vars(Loop) /\ WF_vars(DecodeThread)
-----------------------------------------------------------------------------
\* One buffer is enough for stop (Decoder.cpp:17-28): whatever the thread was doing, and
\* however full the list was, it is joined, in seek and at the end of play.
StopReturns == (loop = "stop") ~> (loop \in {"events", "done"})

\* seek joins the thread before it seeks and starts another (Decoder.cpp:41-46), and the
\* loop holds no buffer when it handles events: a frame is never timed against the
\* first frame of another place in the stream (oggutil.cpp:308-320).
ClockOfItsPlace ==
    /\ Len(held) + Len(filled) <= Buffers
    /\ \A i \in 1..Len(filled) : filled[i] = seeks
    /\ (loop = "release" /\ held = anchor) => anchor[1] = seeks
    /\ (anchor # <<>> /\ anchor[1] # seeks) => (justSeeked \/ loop \in {"freed", "join"})
=============================================================================
