----------------------------- MODULE VideoClient -----------------------------
(***************************************************************************)
(* VideoProcessorClient.process_video of grpc_client.py: one ProcessVideo   *)
(* call, the writer task that fills its window from a source of frames, and *)
(* the generator that reads the answers and hands them to its consumer.     *)
(*                                                                          *)
(* A frame is its frame_id.  The generator's steps run from one await to    *)
(* the next; its finally blocks cancel a writer that awaits and wait for    *)
(* it, which is one step here, since a cancelled writer only closes its     *)
(* source.  The worker at the other end of the call is in GatewaySession.   *)
(***************************************************************************)
EXTENDS Naturals, Sequences

CONSTANT FrameIds        \* frame ids, in their order; -1 is 0 here

ASSUME FrameIdsAssumption == FrameIds \subseteq Nat \ {0}

VARIABLES
    source,       \* what the frame source holds: frames, then End
    writer,       \* the writer task
    hand,         \* the frame the writer has got and not written yet
    slots,        \* state.slots
    pending,      \* state.pending: frames whose answer is due
    lastFrame,    \* the writer's last_frame_id
    exhausted,    \* state.source_exhausted
    observed,     \* state.writer_observed
    call,         \* the gRPC call as this end sees it
    requests,     \* chunks on their way to the worker, then End
    responses,    \* answers on their way back
    reader,       \* the generator
    result,       \* the answer it yields
    outcome       \* how it ended

clientVars == <<source, writer, hand, slots, pending, lastFrame, exhausted,
                observed, call, requests, responses, reader, result, outcome>>

End == 0
NoFrame == 0
NoResult == [id |-> NoFrame, kind |-> "none"]

\* What an answer is to the validation of _validate_response: a success, an
\* error the gateway recovers from, another error, or a malformed response.
Kinds == {"success", "recoverable", "fatal", "malformed"}
Results == [id : FrameIds, kind : Kinds]

WriterOver == {"done", "rpc", "state", "invalid", "cancelled"}
WriterErrors == WriterOver \ {"done"}
Outcomes == {"none", "completed", "protocol", "rpc", "frame", "state",
             "invalid", "cancelled", "closed"}

ClientTypeOK ==
    /\ source \in Seq(FrameIds \cup {End})
    /\ writer \in {"acquire", "next", "write", "closing"} \cup WriterOver
    /\ hand \in FrameIds \cup {NoFrame}
    /\ slots \in Nat
    /\ pending \in Seq(FrameIds)
    /\ lastFrame \in Nat
    /\ exhausted \in BOOLEAN /\ observed \in BOOLEAN
    /\ call \in {"open", "ok", "broken", "cancelled"}
    /\ requests \in Seq(FrameIds \cup {End})
    /\ responses \in Seq(Results)
    /\ reader \in {"reading", "yielded", "ending", "over"}
    /\ result \in Results \cup {NoResult}
    /\ outcome \in Outcomes

\* process_video up to its first await, over a source and a window.
ClientInit(frames, window) ==
    /\ source = frames
    /\ writer = "acquire"
    /\ hand = NoFrame
    /\ slots = window
    /\ pending = << >>
    /\ lastFrame = 0
    /\ exhausted = FALSE /\ observed = FALSE
    /\ call = "open"
    /\ requests = << >> /\ responses = << >>
    /\ reader = "reading"
    /\ result = NoResult
    /\ outcome = "none"

-----------------------------------------------------------------------------
(* _write_frames. *)

writing == <<writer, hand, slots, pending, lastFrame, exhausted>>
reading == <<observed, call, responses, reader, result, outcome>>

WriterAcquires ==
    /\ writer = "acquire" /\ slots > 0
    /\ slots' = slots - 1
    /\ writer' = "next"
    /\ UNCHANGED <<source, hand, pending, lastFrame, exhausted, requests, reading>>

\* Mutant: the slot of the frame that never came is kept.
SourceEndsInSlot ==
    /\ writer = "next" /\ source # << >> /\ Head(source) = End
    /\ source' = Tail(source)
    /\ exhausted' = TRUE
    /\ writer' = "closing"
    /\ UNCHANGED <<slots, hand, pending, lastFrame, requests, reading>>

SourceEnds ==
    /\ writer = "next" /\ source # << >> /\ Head(source) = End
    /\ source' = Tail(source)
    /\ slots' = slots + 1
    /\ exhausted' = TRUE
    /\ writer' = "closing"
    /\ UNCHANGED <<hand, pending, lastFrame, requests, reading>>

\* A frame that _validate_frame refuses ends the writer.
FrameArrives ==
    /\ writer = "next" /\ source # << >> /\ Head(source) # End
    /\ source' = Tail(source)
    /\ IF Head(source) > lastFrame
         THEN /\ lastFrame' = Head(source)
              /\ pending' = Append(pending, Head(source))
              /\ hand' = Head(source)
              /\ writer' = "write"
              /\ UNCHANGED slots
         ELSE /\ slots' = slots + 1
              /\ writer' = "invalid"
              /\ UNCHANGED <<hand, pending, lastFrame>>
    /\ UNCHANGED <<exhausted, requests, reading>>

\* call.write: over a call that has ended it raises, as a status error or as
\* an InvalidStateError, depending on how far the end has come.
FrameWritten ==
    /\ writer = "write"
    /\ hand' = NoFrame
    /\ \/ /\ call = "open"
          /\ requests' = Append(requests, hand)
          /\ writer' = "acquire"
       \/ /\ call = "broken"
          /\ writer' \in {"rpc", "state"}
          /\ UNCHANGED requests
       \/ /\ call = "ok"
          /\ writer' = "state"
          /\ UNCHANGED requests
       \/ /\ call = "cancelled"
          /\ writer' = "cancelled"
          /\ UNCHANGED requests
    /\ UNCHANGED <<source, slots, pending, lastFrame, exhausted, reading>>

\* call.done_writing does nothing over a call that has ended.
WriterCloses ==
    /\ writer = "closing"
    /\ writer' = "done"
    /\ requests' = IF call = "open" THEN Append(requests, End) ELSE requests
    /\ UNCHANGED <<source, hand, slots, pending, lastFrame, exhausted, reading>>

-----------------------------------------------------------------------------
(* _read_results within process_video. *)

\* The finally blocks: the call is cancelled unless it completed, and the
\* writer unless it is over.  `how` is what the consumer gets to see.
Finishes(how) ==
    /\ reader' = "over"
    /\ outcome' = how
    /\ result' = NoResult
    /\ call' = IF how # "completed" /\ call = "open" THEN "cancelled" ELSE call
    /\ writer' = IF writer \in WriterOver THEN writer ELSE "cancelled"
    /\ hand' = NoFrame
    /\ pending' = << >>
    /\ requests' = << >> /\ responses' = << >>
    /\ UNCHANGED <<source, slots, lastFrame, exhausted, observed>>

\* asyncio.wait returned with the writer among the finished tasks.
WriterUnseen == ~observed /\ writer \in WriterOver

WriterSeen ==
    /\ reader = "reading" /\ WriterUnseen
    /\ IF writer \in WriterErrors THEN Finishes(writer)
       ELSE /\ observed' = TRUE
            /\ UNCHANGED <<source, writing, call, requests, responses, reader, result, outcome>>

\* _validate_response accepts the answer to the oldest pending frame; with
\* raise_frame_errors an error of the worker is raised.
Valid(m) == pending # << >> /\ m.id = Head(pending) /\ m.kind # "malformed"

AnswerRead(raises) ==
    /\ reader = "reading" /\ ~WriterUnseen /\ responses # << >>
    /\ LET m == Head(responses) IN
       IF ~Valid(m) THEN Finishes("protocol")
       ELSE IF raises /\ m.kind # "success" THEN Finishes("frame")
       ELSE /\ pending' = Tail(pending)
            /\ slots' = slots + 1
            /\ reader' = "yielded"
            /\ result' = m
            /\ responses' = Tail(responses)
            /\ UNCHANGED <<source, writer, hand, lastFrame, exhausted,
                           observed, call, requests, outcome>>

\* _validate_end_of_stream, which may have to wait for the writer.
EndRead ==
    /\ reader = "reading" /\ ~WriterUnseen
    /\ call = "ok" /\ responses = << >>
    /\ IF ~exhausted THEN Finishes("protocol")
       ELSE IF ~observed
         THEN /\ reader' = "ending"
              /\ UNCHANGED <<source, writing, observed, call, requests, responses, result, outcome>>
       ELSE IF pending # << >> THEN Finishes("protocol")
       ELSE Finishes("completed")

WriterAwaited ==
    /\ reader = "ending" /\ writer = "done"
    /\ Finishes(IF pending # << >> THEN "protocol" ELSE "completed")

\* The read raises the status of a call that failed, or CancelledError after
\* VideoProcessorClient.__aexit__ cancelled it.
ReadFails ==
    /\ reader = "reading" /\ ~WriterUnseen /\ responses = << >>
    /\ call \in {"broken", "cancelled"}
    /\ Finishes(IF call = "broken" THEN "rpc" ELSE "cancelled")

\* The consumer comes back for the next answer, or closes the generator.
ConsumerReturns ==
    /\ reader = "yielded"
    /\ reader' = "reading"
    /\ result' = NoResult
    /\ UNCHANGED <<source, writing, observed, call, requests, responses, outcome>>

ConsumerCloses == reader = "yielded" /\ Finishes("closed")

\* __aexit__ of the client while the stream is open.
ClientCloses ==
    /\ call = "open" /\ reader # "over"
    /\ call' = "cancelled"
    /\ requests' = << >> /\ responses' = << >>
    /\ UNCHANGED <<source, writing, observed, reader, result, outcome>>

WriterSteps ==
    WriterAcquires \/ SourceEnds \/ FrameArrives \/ FrameWritten \/ WriterCloses
ReaderSteps(raises) ==
    WriterSeen \/ AnswerRead(raises) \/ EndRead \/ WriterAwaited \/ ReadFails
=============================================================================
