---------------------------- MODULE GatewaySession ----------------------------
(***************************************************************************)
(* server.py over grpc_client.py: a browser's WebSocket session             *)
(* (GrpcWebSocketSession: the receiver task, its queue of frames, the       *)
(* forwarding of answers) or one POST of /api/infer-image, each the         *)
(* consumer of a process_video generator (VideoClient), and the worker at   *)
(* the far end of the call, which may answer out of turn, end early or      *)
(* break.  The session's frame queue is the generator's source.             *)
(***************************************************************************)
EXTENDS VideoClient

CONSTANT RequestWindow       \* REQUEST_WINDOW

\* An uploaded image is frame 1.
ASSUME SessionAssumption == RequestWindow \in Nat \ {0} /\ 1 \in FrameIds

VARIABLES
    consumer,     \* "socket": a WebSocket session; "image": infer_image
    phase,        \* of run(), or of infer_image
    gateSlots,    \* self.slots
    outstanding,  \* self.outstanding
    lastSequence, \* self.last_sequence
    stop,         \* self.stop_receiving
    receiver,     \* the task of _receive_frames
    frame,        \* the sequence it works on
    socket,       \* the WebSocket: open, closed by the gateway, browser gone
    accused,      \* the session called an answer unexpected
    honest        \* the worker has kept the contract so far

sessionOnly == <<consumer, phase, gateSlots, outstanding, lastSequence, stop,
                 receiver, frame, socket, accused, honest>>
sessionVars == <<clientVars, sessionOnly>>

ReceiverOver == {"over", "failed", "cancelled"}

SessionTypeOK ==
    /\ ClientTypeOK
    /\ consumer \in {"socket", "image"}
    /\ phase \in {"serving", "sending", "joining", "failing", "over"}
    /\ gateSlots \in Nat
    /\ outstanding \in Seq(FrameIds)
    /\ lastSequence \in Nat
    /\ stop \in BOOLEAN
    /\ receiver \in {"receive", "replying", "refusing", "acquire"} \cup ReceiverOver
    /\ frame \in FrameIds \cup {NoFrame}
    /\ socket \in {"open", "closed", "gone"}
    /\ accused \in BOOLEAN /\ honest \in BOOLEAN

SocketInit ==
    /\ consumer = "socket" /\ receiver = "receive"
    /\ ClientInit(<< >>, RequestWindow)

\* infer_image: one frame and a window of one.
ImageInit ==
    /\ consumer = "image" /\ receiver = "over"
    /\ ClientInit(Append(<<1>>, End), 1)

SessionInit ==
    /\ SocketInit \/ ImageInit
    /\ phase = "serving"
    /\ gateSlots = RequestWindow
    /\ outstanding = << >>
    /\ lastSequence = 0
    /\ stop = FALSE
    /\ frame = NoFrame
    /\ socket = "open"
    /\ accused = FALSE /\ honest = TRUE

-----------------------------------------------------------------------------
(* _receive_frames and _parse_frame.  A send or close over a socket that     *)
(* the gateway closed raises; one over a socket whose browser is gone may.    *)

MayRaise == socket # "open"
MayPass == socket # "closed"

\* Mutant: only a receiver that returns ends the frame source.
ReceiverEndsQuietly(how) ==
    /\ receiver' = how
    /\ frame' = NoFrame
    /\ source' = IF how = "over" THEN Append(source, End) ELSE source

\* The finally block of the receiver ends the frame source.
ReceiverEnds(how) ==
    /\ receiver' = how
    /\ frame' = NoFrame
    /\ source' = Append(source, End)

\* The next turn of its loop.
ReceivesOn ==
    IF stop THEN ReceiverEnds("over")
    ELSE receiver' = "receive" /\ frame' = NoFrame /\ UNCHANGED source

clientButSource == <<writing, requests, reading>>
mainVars == <<consumer, phase, accused, honest, clientButSource>>

ReceiveFrame(sequence) ==
    /\ receiver = "receive"
    /\ sequence > lastSequence
    /\ lastSequence' = sequence
    /\ receiver' = "acquire" /\ frame' = sequence
    /\ UNCHANGED <<source, mainVars, gateSlots, outstanding, stop, socket>>

\* Mutant: the refused frame is entered among the outstanding ones.
ReceiveInvalidOutstanding(sequence) ==
    /\ receiver = "receive"
    /\ sequence > lastSequence
    /\ lastSequence' = sequence
    /\ receiver' = "replying" /\ frame' = sequence
    /\ outstanding' = Append(outstanding, sequence)
    /\ UNCHANGED <<source, mainVars, gateSlots, stop, socket>>

\* A frame with a valid header and no complete JPEG is answered here.
ReceiveInvalid(sequence) ==
    /\ receiver = "receive"
    /\ sequence > lastSequence
    /\ lastSequence' = sequence
    /\ receiver' = "replying" /\ frame' = sequence
    /\ UNCHANGED <<source, mainVars, gateSlots, outstanding, stop, socket>>

\* A sequence that does not grow, or a header without the magic.
ReceiveRefused(sequence) ==
    /\ receiver = "receive"
    /\ receiver' = "refusing" /\ frame' = sequence
    /\ UNCHANGED <<source, mainVars, gateSlots, outstanding, lastSequence, stop, socket>>

\* Text or a truncated header: the socket is closed without an answer.
ReceiveUnreadable ==
    /\ receiver = "receive"
    /\ \/ /\ MayPass
          /\ socket' = IF socket = "open" THEN "closed" ELSE socket
          /\ stop' \in {stop, TRUE}
          /\ ReceiverEnds("over")
       \/ /\ MayRaise
          /\ stop' \in {stop, TRUE}
          /\ ReceiverEnds("failed")
          /\ UNCHANGED socket
    /\ UNCHANGED <<mainVars, gateSlots, outstanding, lastSequence>>

ReceiveDisconnect ==
    /\ receiver = "receive" /\ socket # "open"
    /\ ReceiverEnds("over")
    /\ UNCHANGED <<mainVars, gateSlots, outstanding, lastSequence, stop, socket>>

Replied ==
    /\ receiver = "replying"
    /\ \/ MayPass /\ ReceivesOn
       \/ MayRaise /\ ReceiverEnds("failed")
    /\ UNCHANGED <<mainVars, gateSlots, outstanding, lastSequence, stop, socket>>

Refused ==
    /\ receiver = "refusing"
    /\ \/ /\ MayPass
          /\ stop' = TRUE
          /\ socket' = IF socket = "open" THEN "closed" ELSE socket
          /\ ReceiverEnds("over")
       \/ /\ MayRaise
          /\ ReceiverEnds("failed")
          /\ UNCHANGED <<stop, socket>>
    /\ UNCHANGED <<mainVars, gateSlots, outstanding, lastSequence>>

FrameQueued ==
    /\ receiver = "acquire" /\ gateSlots > 0
    /\ gateSlots' = gateSlots - 1
    /\ outstanding' = Append(outstanding, frame)
    /\ frame' = NoFrame
    /\ IF stop
         THEN receiver' = "over" /\ source' = Append(Append(source, frame), End)
         ELSE receiver' = "receive" /\ source' = Append(source, frame)
    /\ UNCHANGED <<mainVars, lastSequence, stop, socket>>

-----------------------------------------------------------------------------
(* run() and _forward_result. *)

receiverVars == <<lastSequence, receiver, frame>>

\* The finally block of run(): the receiver is cancelled and has ended.
Leaves ==
    /\ phase' = "over"
    /\ receiver' = IF receiver \in ReceiverOver THEN receiver ELSE "cancelled"
    /\ frame' = NoFrame
    /\ UNCHANGED <<lastSequence, gateSlots>>

\* An answer is taken off the outstanding frames before it is sent.
Forward ==
    /\ consumer = "socket" /\ phase = "serving" /\ reader = "yielded"
    /\ IF outstanding # << >> /\ Head(outstanding) = result.id
         THEN /\ outstanding' = Tail(outstanding)
              /\ gateSlots' = gateSlots + 1
              /\ phase' = "sending"
              /\ UNCHANGED <<clientVars, accused>>
         ELSE /\ ConsumerCloses
              /\ accused' = TRUE
              /\ phase' = "failing"
              /\ UNCHANGED <<outstanding, gateSlots>>
    /\ UNCHANGED <<consumer, receiverVars, stop, socket, honest>>

\* A result that encode_result refuses, by its metadata or its JPEG, stays
\* outstanding.
ResultRefused ==
    /\ consumer = "socket" /\ phase = "serving" /\ reader = "yielded"
    /\ result.kind = "success" /\ outstanding # << >> /\ Head(outstanding) = result.id
    /\ ConsumerCloses
    /\ phase' = "failing"
    /\ UNCHANGED <<consumer, outstanding, gateSlots, receiverVars, stop, socket, accused, honest>>

AnswerSent ==
    /\ phase = "sending" /\ MayPass
    /\ IF result.kind = "fatal"
         THEN /\ ConsumerCloses
              /\ stop' = TRUE
              /\ socket' = IF socket = "open" THEN "closed" ELSE socket
              /\ Leaves
         ELSE /\ ConsumerReturns
              /\ phase' = "serving"
              /\ UNCHANGED <<receiverVars, gateSlots, stop, socket>>
    /\ UNCHANGED <<consumer, outstanding, accused, honest>>

SendFails ==
    /\ phase = "sending" /\ MayRaise
    /\ ConsumerCloses
    /\ socket' = "closed"
    /\ Leaves
    /\ UNCHANGED <<consumer, outstanding, stop, accused, honest>>

\* The generator is over: a VideoClientError is told to the browser, any
\* other exception ends in stream(), which closes the socket.
GeneratorEnded ==
    /\ consumer = "socket" /\ phase = "serving" /\ reader = "over"
    /\ IF outcome = "completed"
         THEN phase' = "joining" /\ UNCHANGED <<receiverVars, gateSlots, socket>>
       ELSE IF outcome \in {"protocol", "rpc"}
         THEN phase' = "failing" /\ UNCHANGED <<receiverVars, gateSlots, socket>>
       ELSE socket' = "closed" /\ Leaves
    /\ UNCHANGED <<clientVars, consumer, outstanding, stop, accused, honest>>

Joined ==
    /\ phase = "joining" /\ receiver \in ReceiverOver
    /\ Leaves
    /\ UNCHANGED <<clientVars, consumer, outstanding, stop, socket, accused, honest>>

\* _fail_grpc_stream: the error names the oldest outstanding frame.
FailureSent ==
    /\ phase = "failing"
    /\ socket' = "closed"
    /\ Leaves
    /\ UNCHANGED <<clientVars, consumer, outstanding, stop, accused, honest>>

\* infer_image breaks off at the first answer and replies, or replies with
\* what the generator raised.
ImageAnswered ==
    /\ consumer = "image" /\ phase = "serving"
    /\ \/ ConsumerCloses
       \/ reader = "over" /\ UNCHANGED clientVars
    /\ Leaves
    /\ UNCHANGED <<consumer, outstanding, stop, socket, accused, honest>>

BrowserLeaves ==
    /\ consumer = "socket" /\ socket = "open" /\ phase # "over"
    /\ socket' = "gone"
    /\ UNCHANGED <<clientVars, consumer, phase, gateSlots, outstanding,
                   receiverVars, stop, accused, honest>>

-----------------------------------------------------------------------------
(* The worker's end of the call. *)

callVars == <<source, writing, observed, reader, result, outcome>>

WorkerAnswers(kind) ==
    /\ call = "open" /\ requests # << >> /\ Head(requests) # End
    /\ requests' = Tail(requests)
    /\ responses' = Append(responses, [id |-> Head(requests), kind |-> kind])
    /\ UNCHANGED <<callVars, call, sessionOnly>>

WorkerEnds ==
    /\ call = "open" /\ requests # << >> /\ Head(requests) = End
    /\ call' = "ok"
    /\ requests' = << >>
    /\ UNCHANGED <<callVars, responses, sessionOnly>>

\* The call ends with a status; answers on their way may be lost.
WorkerBreaks ==
    /\ call = "open" /\ reader # "over"
    /\ call' = "broken"
    /\ requests' = << >>
    /\ responses' \in {responses, << >>}
    /\ UNCHANGED <<callVars, sessionOnly>>

\* An answer nobody asked for, or a malformed one; the end of the stream
\* before that of the requests.
WorkerErrs ==
    /\ call = "open" /\ reader # "over" /\ honest
    /\ honest' = FALSE
    /\ \/ /\ responses' \in {Append(responses, m) : m \in [id : FrameIds, kind : {"success", "malformed"}]}
          /\ UNCHANGED call
       \/ /\ call' = "ok" /\ UNCHANGED responses
    /\ requests' = IF call' = "ok" THEN << >> ELSE requests
    /\ UNCHANGED <<callVars, consumer, phase, gateSlots, outstanding,
                   receiverVars, stop, socket, accused>>

-----------------------------------------------------------------------------
ReceiverSteps ==
    \/ \E sequence \in FrameIds : ReceiveFrame(sequence) \/ ReceiveInvalid(sequence)
    \/ \E sequence \in FrameIds : ReceiveRefused(sequence)
    \/ ReceiveUnreadable \/ ReceiveDisconnect \/ Replied \/ Refused \/ FrameQueued

MainSteps ==
    \/ Forward \/ ResultRefused \/ AnswerSent \/ SendFails \/ GeneratorEnded \/ Joined
    \/ FailureSent \/ ImageAnswered

ClientSteps ==
    /\ \/ WriterSteps
       \/ ReaderSteps(consumer = "image")
       \/ ClientCloses
    /\ UNCHANGED sessionOnly

Replies == \E kind \in {"success", "recoverable", "fatal"} : WorkerAnswers(kind)

SessionNext ==
    \/ ReceiverSteps \/ MainSteps \/ ClientSteps \/ BrowserLeaves
    \/ Replies \/ WorkerEnds \/ WorkerBreaks \/ WorkerErrs

SessionSpec == SessionInit /\ [][SessionNext]_sessionVars

\* The event loop runs every task that can go on, and the worker answers.  The
\* browser need not send anything, so of the receiver's steps only those are
\* fair that wait for no new message.
FairSessionSpec ==
    /\ SessionSpec
    /\ WF_sessionVars(ReceiveDisconnect \/ Replied \/ Refused \/ FrameQueued)
    /\ WF_sessionVars(MainSteps)
    /\ WF_sessionVars(WriterSteps /\ UNCHANGED sessionOnly)
    /\ WF_sessionVars(ReaderSteps(consumer = "image") /\ UNCHANGED sessionOnly)
    /\ WF_sessionVars(Replies \/ WorkerEnds)

-----------------------------------------------------------------------------
(* Properties. *)

\* The frames of a queue, which at most one end marker follows.
Frames(queue) ==
    IF queue # << >> /\ queue[Len(queue)] = End THEN SubSeq(queue, 1, Len(queue) - 1) ELSE queue
Held == IF phase = "serving" /\ reader = "yielded" THEN <<result.id>> ELSE << >>

\* While a session runs, the frames it takes for outstanding are, in this
\* order, the answer it is about to forward, what the client awaits and what
\* still stands in the queue; and no slot of either window is lost or doubled
\* (_forward_result, _complete_frame, _write_frames).
InStep ==
    /\ (consumer = "socket" /\ reader # "over" /\ ~accused) =>
          /\ outstanding = Held \o pending \o Frames(source)
          /\ gateSlots + Len(outstanding) = RequestWindow
    /\ reader # "over" =>
          slots + Len(pending) + (IF writer = "next" THEN 1 ELSE 0)
            = IF consumer = "socket" THEN RequestWindow ELSE 1

\* No answer that the client lets through is unexpected to the session, and no
\* frame that the session lets in is refused by the client; a worker that answers
\* every frame in order and ends after the requests is never taken for one that
\* broke the contract, whatever the browser sends and however receiver, writer
\* and reader interleave.
HonestWorkersAreNotAccused ==
    ~accused /\ outcome # "invalid" /\ (honest => outcome # "protocol")

\* A stream that completes has answered every frame that was let into it.
CompletedAnswersAll == outcome = "completed" => pending = << >> /\ outstanding = << >>

\* Once the browser has gone, the session has closed the socket or the call
\* has ended, the session and all of its tasks come to an end.
SessionsEnd ==
    (socket # "open" \/ call # "open")
      ~> (phase = "over" /\ writer \in WriterOver /\ receiver \in ReceiverOver /\ reader = "over")
=============================================================================
