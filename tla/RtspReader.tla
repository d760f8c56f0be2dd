----------------------------- MODULE RtspReader -----------------------------
(***************************************************************************)
(* One ReadFrame call of the RTSP reader: up to Attempts connections, each *)
(* of them a few requests and then a wait for the first decoded frame,     *)
(* which a callback of the RTSP client (gortsplib, external) sends through *)
(* a channel of capacity one while a timer runs.  The callback of one      *)
(* connection runs in one goroutine, and Close waits for it.  Time is      *)
(* counted in ticks; computing takes none.                                 *)
(***************************************************************************)
EXTENDS Integers

CONSTANTS
    Attempts,   \* 3: the first one and two retries
    Requests,   \* Start, Describe, one Setup per media, Play
    Skipped,    \* 4: how many H.264 packets are skipped
    Timeout     \* in ticks

ASSUME ReaderAssumption ==
    /\ Attempts \in Nat \ {0}
    /\ Requests \in Nat \ {0}
    /\ Skipped \in Nat
    /\ Timeout \in Nat \ {0}

VARIABLES
    codec,      \* the format the stream is read in
    step,       \* where ReadFrame is
    attempt,    \* loop counter of ReadFrame
    left,       \* requests still to be answered
    waited,     \* ticks since the current request, or the frame timer, began
    elapsed,    \* ticks since ReadFrame was called
    packets,    \* frameCount, up to Skipped
    received,   \* is the channel "received" closed?
    callback,   \* where the packet callback is
    frameCh,    \* the buffered frame channel
    outcome     \* what readOnce returned

connection == <<left, waited, packets, received, callback, frameCh>>
vars == <<codec, step, attempt, connection, elapsed, outcome>>

Init ==
    /\ codec \in {"mjpeg", "h264"}
    /\ step = "idle"
    /\ attempt = 0
    /\ left = 0
    /\ waited = 0
    /\ elapsed = 0
    /\ packets = 0
    /\ received = FALSE
    /\ callback = "idle"
    /\ frameCh = "none"
    /\ outcome = "none"

\* readOnce begins, with a client of its own.
Connect ==
    /\ step' = "request"
    /\ left' = Requests
    /\ waited' = 0
    /\ packets' = 0
    /\ received' = FALSE
    /\ callback' = "idle"
    /\ frameCh' = "none"

Call ==
    /\ step = "idle"
    /\ Connect
    /\ codec' \in {"mjpeg", "h264"}
    /\ attempt' = 0
    /\ elapsed' = 0
    /\ outcome' = "none"

\* A request is answered; after the last one, Play, the timer starts.
Answered ==
    /\ step = "request"
    /\ left' = left - 1
    /\ waited' = 0
    /\ step' = IF left > 1 THEN "request" ELSE "frame"
    /\ UNCHANGED <<codec, attempt, elapsed, packets, received, callback,
                   frameCh, outcome>>

\* readOnce returns, and its deferred Close begins.
ReturnOnce(o) ==
    /\ outcome' = o
    /\ step' = "close"
    /\ UNCHANGED <<codec, attempt, connection, elapsed>>

\* A request fails with an error that isTransientRTSPError recognises or one
\* that it does not, such as a stream in another codec.
RequestFails ==
    /\ step = "request"
    /\ ReturnOnce("transient") \/ ReturnOnce("permanent")

\* After Play was sent, packets arrive until the client is closed.
Streaming == (step = "request" /\ left = 1) \/ step \in {"frame", "close"}

\* Mutant of Packet: the callback does not look at the channel "received".
Packet_NoGuard ==
    /\ Streaming
    /\ callback = "idle"
    /\ IF codec = "h264" /\ packets < Skipped
         THEN packets' = packets + 1 /\ UNCHANGED <<received, callback>>
         ELSE received' = TRUE /\ callback' = "send" /\ UNCHANGED packets
    /\ UNCHANGED <<codec, step, attempt, left, waited, elapsed, frameCh, outcome>>

\* The callback skips a packet, or the packet completes a frame (or fails to)
\* and "received" is closed.  A packet that leaves the frame incomplete or
\* comes after the first frame changes nothing.
Packet ==
    /\ Streaming
    /\ callback = "idle"
    /\ ~received
    /\ IF codec = "h264" /\ packets < Skipped
         THEN packets' = packets + 1 /\ UNCHANGED <<received, callback>>
         ELSE received' = TRUE /\ callback' = "send" /\ UNCHANGED packets
    /\ UNCHANGED <<codec, step, attempt, left, waited, elapsed, frameCh, outcome>>

\* Mutant of Send: the channel has no buffer.
Send_Unbuffered ==
    /\ callback = "send"
    /\ step = "frame"
    /\ frameCh = "none"
    /\ frameCh' \in {"frame", "error"}
    /\ callback' = "idle"
    /\ UNCHANGED <<codec, step, attempt, left, waited, elapsed, packets,
                   received, outcome>>

\* The callback sends the frame, or the error of decoding or encoding it.
Send ==
    /\ callback = "send"
    /\ frameCh = "none"
    /\ frameCh' \in {"frame", "error"}
    /\ callback' = "idle"
    /\ UNCHANGED <<codec, step, attempt, left, waited, elapsed, packets,
                   received, outcome>>

\* readOnce's select: a result has been sent ...
TakeFrame ==
    /\ step = "frame"
    /\ frameCh # "none"
    /\ ReturnOnce(IF frameCh = "frame" THEN "frame" ELSE "permanent")

\* ... or the timer has fired; its error says "timeout" and so is transient.
FrameTimeout ==
    /\ step = "frame"
    /\ waited = Timeout
    /\ ReturnOnce("transient")

\* Mutant of Close: one retry too many.
Close_OneMore ==
    /\ step = "close"
    /\ callback = "idle"
    /\ IF outcome = "transient" /\ attempt <= Attempts - 1
         THEN step' = "pause" /\ attempt' = attempt + 1
         ELSE step' = "idle" /\ UNCHANGED attempt
    /\ UNCHANGED <<codec, connection, elapsed, outcome>>

\* The client is closed; ReadFrame returns or goes round its loop.
Close ==
    /\ step = "close"
    /\ callback = "idle"
    /\ IF outcome = "transient" /\ attempt < Attempts - 1
         THEN step' = "pause" /\ attempt' = attempt + 1
         ELSE step' = "idle" /\ UNCHANGED attempt
    /\ UNCHANGED <<codec, connection, elapsed, outcome>>

\* The pause before a retry is one tick.
Retry ==
    /\ step = "pause"
    /\ Connect
    /\ elapsed' = elapsed + 1
    /\ UNCHANGED <<codec, attempt, outcome>>

\* Every request has ReadTimeout = timeout, and the frame timer runs as long.
Tick ==
    /\ step \in {"request", "frame"}
    /\ waited < Timeout
    /\ waited' = waited + 1
    /\ elapsed' = elapsed + 1
    /\ UNCHANGED <<codec, step, attempt, left, packets, received, callback,
                   frameCh, outcome>>

\* What goes on without the camera.
ReadFrame == RequestFails \/ TakeFrame \/ FrameTimeout \/ Close \/ Retry \/ Tick

Next == Call \/ Answered \/ Packet \/ Send \/ ReadFrame

Spec == Init /\ [][Next]_vars

\* The camera need not do anything, but timers fire and goroutines run.
LiveSpec == Spec /\ WF_vars(ReadFrame) /\ WF_vars(Send)
-----------------------------------------------------------------------------
Limit == Attempts * (Requests + 1) * Timeout + (Attempts - 1)

TypeOK ==
    /\ codec \in {"mjpeg", "h264"}
    /\ step \in {"idle", "request", "frame", "close", "pause"}
    /\ attempt \in 0..Attempts - 1
    /\ left \in 0..Requests
    /\ waited \in 0..Timeout
    /\ elapsed \in Nat
    /\ packets \in 0..Skipped
    /\ received \in BOOLEAN
    /\ callback \in {"idle", "send"}
    /\ frameCh \in {"none", "frame", "error"}
    /\ outcome \in {"none", "frame", "transient", "permanent"}

\* The callback, which may be late for its timer, never waits for room in the
\* channel: Close would wait for it and ReadFrame never return.
CallbackNeverStuck == callback = "send" => frameCh = "none"

\* However the retries, the slow requests and the late frames add up, ReadFrame
\* returns before this much time has passed.  It is not what reader.go:38 says,
\* "The timeout applies to the full connection + frame capture.": every request and
\* the wait for a frame have the whole timeout each, in every attempt.
TimeIsBounded == elapsed <= Limit

\* A camera that stops answering, or never sends a frame, ends the call.
ReadFrameReturns == step # "idle" ~> step = "idle"
=============================================================================
