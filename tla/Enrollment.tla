------------------------------ MODULE Enrollment ------------------------------
(***************************************************************************)
(* The session and whitelist calls from end to end: the handlers of the     *)
(* demo gateway (server.py), the unary calls of VideoProcessorClient        *)
(* (grpc_client.py), the handlers of AiProcessorServicer                    *)
(* (ai_processor_server.py), the AdaFace worker and the registry.           *)
(*                                                                          *)
(* Every handler of the worker is one step on the registry, except          *)
(* AddWhitelist, which decodes the image on a thread and awaits the face's  *)
(* embedding.  Meanwhile its session may be deleted or filled, the worker's *)
(* patience may end, or the client's; the embedding is shielded and goes on.*)
(*                                                                          *)
(* A run exercises the registry alone (SessionRegistry) or the calls.       *)
(***************************************************************************)
EXTENDS SessionRegistry, AdaFaceWorker

CONSTANTS
    Requests,     \* HTTP requests of the gateway's clients
    FaceJobs,     \* embeddings that streams ask for
    CallStreams   \* bound: the streams that run beside the calls

ASSUME EnrollmentAssumption ==
    /\ IsFiniteSet(Requests)
    /\ Requests \cap FaceJobs = {}
    /\ Jobs = Requests \cup FaceJobs
    /\ Owners = SessionIds
    /\ CallStreams \subseteq Streams

VARIABLES
    exercise,   \* "registry" or "calls"
    gateway,    \* "up" or "down" (app.state.ready and grpc_client)
    at,         \* where each request is
    asked,      \* the session an AddWhitelist is for
    applied,    \* history: what the request did to the registry
    answer      \* what the gateway answered

callVars == <<gateway, at, asked, applied, answer>>
enrollmentVars == <<exercise, registryVars, adaFaceVars, callVars>>

EnrollmentInit ==
    /\ exercise \in {"registry", "calls"}
    /\ RegistryInit
    /\ AdaFaceInit
    /\ exercise = "registry" => worker = "unavailable"
    /\ gateway = "up"
    /\ at = [r \in Requests |-> "off"]
    /\ asked = [r \in Requests |-> Nobody]
    /\ applied = [r \in Requests |-> 0]
    /\ answer = [r \in Requests |-> "none"]

Moves(r, from, to) == at[r] = from /\ at' = [at EXCEPT ![r] = to]
Answers(r, what) == answer' = [answer EXCEPT ![r] = what]

\* The worker's reply is on its way: OK, or an abort.
Returns(r, ok) ==
    /\ at' = [at EXCEPT ![r] = IF ok THEN "ok" ELSE "aborted"]
    /\ asked' = [asked EXCEPT ![r] = Nobody]
    /\ UNCHANGED <<gateway, answer>>

-----------------------------------------------------------------------------
(* The gateway and its client *)

\* A request arrives; _api_client asks the worker for its health.
RequestArrives(r) ==
    /\ Moves(r, "off", "checking")
    /\ UNCHANGED <<registryVars, adaFaceVars, gateway, asked, applied, answer>>

\* The call is made, with a deadline.
CallMade(r) ==
    /\ gateway = "up"
    /\ Moves(r, "checking", "sent")
    /\ UNCHANGED <<registryVars, adaFaceVars, gateway, asked, applied, answer>>

\* GRPC_UNAVAILABLE, or an argument that does not validate.
CallNotMade(r) ==
    /\ Moves(r, "checking", "over")
    /\ Answers(r, "refused")
    /\ UNCHANGED <<registryVars, adaFaceVars, gateway, asked, applied>>

\* The reply arrives: a JSON answer, or _rpc_error_response.
Replied(r) ==
    /\ at[r] \in {"ok", "aborted"}
    /\ at' = [at EXCEPT ![r] = "over"]
    /\ Answers(r, IF at[r] = "ok" THEN "done" ELSE "refused")
    /\ UNCHANGED <<registryVars, adaFaceVars, gateway, asked, applied>>

\* VideoRpcError: the deadline passes, the connection is lost or the gateway
\* closes its channel, wherever the call is; the handler is cancelled.
CallLost(r) ==
    /\ at[r] \in {"sent", "decoding", "embedding", "ok", "aborted"}
    /\ at' = [at EXCEPT ![r] = "over"]
    /\ asked' = [asked EXCEPT ![r] = Nobody]
    /\ Answers(r, "unknown")
    /\ UNCHANGED <<registryVars, adaFaceVars, gateway, applied>>

\* lifespan ends: ready is false and the client is gone.
GatewayCloses ==
    /\ gateway = "up"
    /\ gateway' = "down"
    /\ UNCHANGED <<registryVars, adaFaceVars, at, asked, applied, answer>>

-----------------------------------------------------------------------------
(* The handlers of the worker *)

Applies(r) == applied' = [applied EXCEPT ![r] = @ + 1]

\* CreateSession, DeleteSession, DeleteWhitelist, ImportWhitelist.  An import
\* needs the recognition model, and the same one the embeddings are of.
Changes(s) ==
    \/ Create(s)
    \/ Delete(s)
    \/ \E e \in EntryIds : DeleteEntry(s, e)
    \/ worker = "ready" /\ \E incoming \in SUBSET EntryIds : ImportEntries(s, incoming)

ChangeHandled(r) ==
    /\ at[r] = "sent"
    /\ \E s \in SessionIds : Changes(s)
    /\ Applies(r)
    /\ Returns(r, TRUE)
    /\ UNCHANGED adaFaceVars

\* GetWhitelistStatus, ListSessions, ExportWhitelist, and every call that the
\* registry or the handler refuses.
NothingChanged(r) ==
    /\ at[r] = "sent"
    /\ \E ok \in BOOLEAN :
          /\ applied' = [applied EXCEPT ![r] = IF ok THEN 1 ELSE 0]
          /\ Returns(r, ok)
    /\ UNCHANGED <<registryVars, adaFaceVars>>

\* AddWhitelist, up to the decoding of the image.
AddBegins(r) ==
    /\ worker = "ready"
    /\ Moves(r, "sent", "decoding")
    /\ \E s \in SessionIds : asked' = [asked EXCEPT ![r] = s]
    /\ UNCHANGED <<registryVars, adaFaceVars, gateway, applied, answer>>

ImageDecoded(r) ==
    /\ Moves(r, "decoding", "embedding")
    /\ Submit(r, asked[r])
    /\ UNCHANGED <<registryVars, gateway, asked, applied, answer>>

\* The image does not decode, or _submit has no room.
AddRefused(r) ==
    /\ at[r] = "decoding"
    /\ \/ UNCHANGED adaFaceVars
       \/ Refused(asked[r])
    /\ Returns(r, FALSE)
    /\ UNCHANGED <<registryVars, applied>>

\* The embedding is there, and is appended in the same turn of the loop.
Enrolled(r) ==
    /\ at[r] = "embedding"
    /\ job[r] = "embedding"
    /\ \E e \in EntryIds : AppendEntry(asked[r], e)
    /\ Applies(r)
    /\ Returns(r, TRUE)
    /\ UNCHANGED adaFaceVars

\* No usable face, AdaFace fails or is closed, or a limit of the registry.
NotEnrolled(r) ==
    /\ at[r] = "embedding"
    /\ \/ job[r] \in {"failed", "cancelled"}
       \/ /\ job[r] = "embedding"
          /\ \/ sessions[asked[r]] = None /\ Cardinality(Registered) >= MaxSessions
             \/ /\ sessions[asked[r]] # None
                /\ Cardinality(entries[sessions[asked[r]]]) >= MaxEntries
    /\ Returns(r, FALSE)
    /\ UNCHANGED <<registryVars, adaFaceVars, applied>>

\* Mutant of TimesOut: the handler is answered for, and goes on.
TimesOutAndGoesOn(r) ==
    /\ at[r] = "embedding"
    /\ Answers(r, "refused")
    /\ UNCHANGED <<registryVars, adaFaceVars, gateway, at, asked, applied>>

\* wait_for(shield(future)) ends: DEADLINE_EXCEEDED; the job goes on.
TimesOut(r) ==
    /\ at[r] = "embedding"
    /\ job[r] \in {"queued", "running"}
    /\ Returns(r, FALSE)
    /\ UNCHANGED <<registryVars, adaFaceVars, applied>>

-----------------------------------------------------------------------------
(* Streams of the same sessions *)

StreamSteps ==
    /\ \/ \E t \in CallStreams, s \in SessionIds : AcquireStream(t, s)
       \/ \E t \in CallStreams : ReleaseStream(t)
    /\ UNCHANGED <<adaFaceVars, callVars>>

\* _schedule submits a face of a stream that holds the session.
FaceAsked(j, s) ==
    /\ sessions[s] # None
    /\ Holders(sessions[s]) # {}
    /\ Submit(j, s)
    /\ UNCHANGED <<registryVars, callVars>>

\* The token expires, or the stream ends.
FaceForgotten(j) ==
    /\ Cancel(j)
    /\ UNCHANGED <<registryVars, callVars>>

WorkerSteps ==
    /\ \/ JobStarts
       \/ \E j \in Jobs : JobEnds(j) \/ CancelArrives(j)
       \/ /\ \A r \in Requests : at[r] \notin {"sent", "decoding", "embedding"}
          /\ CloseWorker
    /\ UNCHANGED <<registryVars, callVars>>

-----------------------------------------------------------------------------

CallsNext ==
    \/ \E r \in Requests :
          \/ RequestArrives(r) \/ CallMade(r) \/ CallNotMade(r) \/ Replied(r) \/ CallLost(r)
          \/ ChangeHandled(r) \/ NothingChanged(r)
          \/ AddBegins(r) \/ ImageDecoded(r) \/ AddRefused(r) \/ Enrolled(r) \/ NotEnrolled(r)
          \/ TimesOut(r)
    \/ GatewayCloses
    \/ StreamSteps
    \/ \E j \in FaceJobs : FaceForgotten(j) \/ \E s \in SessionIds : FaceAsked(j, s)
    \/ WorkerSteps

EnrollmentNext ==
    /\ UNCHANGED exercise
    /\ \/ exercise = "registry" /\ RegistryNext /\ UNCHANGED <<adaFaceVars, callVars>>
       \/ exercise = "calls" /\ CallsNext

EnrollmentSpec == EnrollmentInit /\ [][EnrollmentNext]_enrollmentVars

-----------------------------------------------------------------------------
(* Properties *)

EnrollmentTypeOK ==
    /\ gateway \in {"up", "down"}
    /\ at \in [Requests -> {"off", "checking", "sent", "decoding", "embedding", "ok",
                            "aborted", "over"}]
    /\ asked \in [Requests -> SessionIds \cup {Nobody}]
    /\ applied \in [Requests -> 0..1]
    /\ answer \in [Requests -> {"none", "done", "refused", "unknown"}]

\* A client can rely on the answer: success means that the call did what it
\* says, once, and a refusal that it changed nothing and never will, whatever
\* timeouts, deletions and late embeddings came between.  Only a lost call
\* leaves it open.
AnswersAreTrue ==
    \A r \in Requests :
        /\ answer[r] = "done" => applied[r] = 1
        /\ answer[r] = "refused" => applied[r] = 0
        /\ applied[r] <= 1
=============================================================================
