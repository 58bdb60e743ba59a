-------------------------- MODULE SessionRegistry --------------------------
(***************************************************************************)
(* SessionRegistry and SessionState of service/recognition.py: the sessions *)
(* a worker keeps, their face whitelists and the leases of video streams.   *)
(*                                                                          *)
(* Every operation runs under the registry's lock, so each is one action.   *)
(* A session id is the client's; behind it stands a SessionState object,    *)
(* and the id may come to name another object after a delete.  The object   *)
(* is what a stream holds (acquire_stream) and reads every frame, so object *)
(* identity is kept apart from the id.                                      *)
(***************************************************************************)
EXTENDS Naturals, FiniteSets

CONSTANTS
    SessionIds,     \* ids clients use or create() makes
    EntryIds,       \* whitelist entry ids
    Streams,        \* ProcessVideo calls
    MaxSessions,    \* max_sessions
    MaxEntries,     \* max_entries_per_session
    MaxObjects,     \* bound: SessionState objects ever made
    MaxVersion      \* bound: whitelist version of one object

ASSUME RegistryAssumption ==
    /\ IsFiniteSet(SessionIds)
    /\ IsFiniteSet(EntryIds)
    /\ IsFiniteSet(Streams)
    /\ MaxSessions \in Nat \ {0}
    /\ MaxEntries \in Nat \ {0}
    /\ MaxObjects \in Nat
    /\ MaxVersion \in Nat

VARIABLES
    made,       \* how many SessionState objects were made; they are 1..made
    sessions,   \* _sessions: the object an id names, None when it names none
    active,     \* _active_stream_counts, 0 for an id that names no object
    entries,    \* entries[o]: ids in _entries of object o
    version,    \* version[o]: _version of object o
    lease       \* lease[t]: the object stream t holds as stream.session

registryVars == <<made, sessions, active, entries, version, lease>>

None == 0
Objects == 1..MaxObjects
Registered == {s \in SessionIds : sessions[s] # None}
Holders(o) == {t \in Streams : lease[t] = o}

RegistryInit ==
    /\ made = 0
    /\ sessions = [s \in SessionIds |-> None]
    /\ active = [s \in SessionIds |-> 0]
    /\ entries = [o \in Objects |-> {}]
    /\ version = [o \in Objects |-> 0]
    /\ lease = [t \in Streams |-> None]

\* A new object is registered under s (_ensure_capacity_locked, then the
\* assignments to _sessions and _active_stream_counts), held by so many streams.
Register(s, streams) ==
    /\ sessions[s] = None
    /\ Cardinality(Registered) < MaxSessions
    /\ made < MaxObjects
    /\ made' = made + 1
    /\ sessions' = [sessions EXCEPT ![s] = made + 1]
    /\ active' = [active EXCEPT ![s] = streams]

\* The whitelist of object o becomes "to": every change counts a version.
Rewrite(o, to) ==
    /\ version[o] < MaxVersion
    /\ entries' = [entries EXCEPT ![o] = to]
    /\ version' = [version EXCEPT ![o] = @ + 1]

Create(s) ==
    /\ Register(s, 0)
    /\ UNCHANGED <<entries, version, lease>>

\* append(): the entry id is a fresh uuid4.  The enrollment awaited the face
\* embedding before, so the session may have been deleted or re-created
\* since the request came; it is looked up, or made, now.
AppendEntry(s, e) ==
    /\ e \notin UNION {entries[o] : o \in Objects}
    /\ \/ /\ sessions[s] # None
          /\ Cardinality(entries[sessions[s]]) < MaxEntries
          /\ Rewrite(sessions[s], entries[sessions[s]] \cup {e})
          /\ UNCHANGED <<made, sessions, active>>
       \/ /\ Register(s, 0)
          /\ Rewrite(made + 1, {e})
    /\ UNCHANGED lease

\* import_entries(): ids already present are skipped, all or nothing.  An
\* import that adds nothing keeps the version, and may still make a session.
ImportEntries(s, incoming) ==
    /\ \/ /\ sessions[s] # None
          /\ ~(incoming \subseteq entries[sessions[s]])
          /\ Cardinality(entries[sessions[s]] \cup incoming) <= MaxEntries
          /\ Rewrite(sessions[s], entries[sessions[s]] \cup incoming)
          /\ UNCHANGED <<made, sessions, active>>
       \/ /\ incoming # {}
          /\ Cardinality(incoming) <= MaxEntries
          /\ Register(s, 0)
          /\ Rewrite(made + 1, incoming)
       \/ /\ incoming = {}
          /\ Register(s, 0)
          /\ UNCHANGED <<entries, version>>
    /\ UNCHANGED lease

DeleteEntry(s, e) ==
    /\ sessions[s] # None
    /\ e \in entries[sessions[s]]
    /\ Rewrite(sessions[s], entries[sessions[s]] \ {e})
    /\ UNCHANGED <<made, sessions, active, lease>>

\* Mutant of AcquireStream: a session made for the stream is not counted.
AcquireUncounted(t, s) ==
    /\ lease[t] = None
    /\ Register(s, 0)
    /\ lease' = [lease EXCEPT ![t] = made + 1]
    /\ UNCHANGED <<entries, version>>

\* acquire_stream(), on a stream's first decoded frame: the session is made
\* when the id names none, and the stream keeps the object.
AcquireStream(t, s) ==
    /\ lease[t] = None
    /\ \/ /\ sessions[s] # None
          /\ active' = [active EXCEPT ![s] = @ + 1]
          /\ lease' = [lease EXCEPT ![t] = sessions[s]]
          /\ UNCHANGED <<made, sessions>>
       \/ /\ Register(s, 1)
          /\ lease' = [lease EXCEPT ![t] = made + 1]
    /\ UNCHANGED <<entries, version>>

\* release_stream(), once per lease in ProcessVideo's finally block.  When
\* the id no longer names the object, or its count is 0, the call raises and
\* the count stays.
ReleaseStream(t) ==
    /\ lease[t] # None
    /\ lease' = [lease EXCEPT ![t] = None]
    /\ active' = [s \in SessionIds |->
                     IF sessions[s] = lease[t] /\ active[s] >= 1
                       THEN active[s] - 1 ELSE active[s]]
    /\ UNCHANGED <<made, sessions, entries, version>>

\* delete(): refused while a stream is active.
Delete(s) ==
    /\ sessions[s] # None
    /\ active[s] = 0
    /\ sessions' = [sessions EXCEPT ![s] = None]
    /\ UNCHANGED <<made, active, entries, version, lease>>

RegistryNext ==
    \/ \E s \in SessionIds :
          \/ Create(s)
          \/ Delete(s)
          \/ \E e \in EntryIds : AppendEntry(s, e) \/ DeleteEntry(s, e)
          \/ \E incoming \in SUBSET EntryIds : ImportEntries(s, incoming)
          \/ \E t \in Streams : AcquireStream(t, s)
    \/ \E t \in Streams : ReleaseStream(t)

RegistrySpec == RegistryInit /\ [][RegistryNext]_registryVars

-----------------------------------------------------------------------------
(* Properties *)

RegistryTypeOK ==
    /\ made \in 0..MaxObjects
    /\ sessions \in [SessionIds -> 0..made]
    /\ active \in [SessionIds -> Nat]
    /\ entries \in [Objects -> SUBSET EntryIds]
    /\ version \in [Objects -> 0..MaxVersion]
    /\ lease \in [Streams -> 0..made]

\* The count of a session is the number of streams that hold its object,
\* however acquires, releases, deletes and re-creations interleave.  Too low
\* and delete() takes a session from under a stream, too high and the
\* session can never be deleted again.
CountsMatchLeases ==
    \A s \in SessionIds :
        active[s] = IF sessions[s] = None THEN 0 ELSE Cardinality(Holders(sessions[s]))

\* The object a stream holds is the one some id names now, so the stream
\* reads the whitelist that AddWhitelist and DeleteWhitelist change, and
\* release_stream never raises "stale session stream lease".
LeasesAreCurrent ==
    \A t \in Streams :
        lease[t] # None => \E s \in SessionIds : sessions[s] = lease[t]

\* An object stands behind one id only.
OneIdPerObject ==
    \A r, s \in Registered : sessions[r] = sessions[s] => r = s

\* max_sessions and max_entries_per_session hold through every path that
\* makes a session (create, append, import, acquire) or adds an entry.
WithinLimits ==
    /\ Cardinality(Registered) <= MaxSessions
    /\ \A o \in Objects : Cardinality(entries[o]) <= MaxEntries

\* Objects not made yet are blank: a new session starts empty at version 0.
UnmadeAreBlank ==
    \A o \in Objects : o > made => entries[o] = {} /\ version[o] = 0

\* The inductive invariant.
RegistryInv ==
    /\ RegistryTypeOK
    /\ CountsMatchLeases
    /\ LeasesAreCurrent
    /\ OneIdPerObject
    /\ UnmadeAreBlank
    /\ WithinLimits

\* StreamRecognition drops the approvals of removed entries only when it sees
\* a new whitelist version.  So, for every stream in the middle of a lease:
\* its whitelist never changes under the same version, versions never go
\* back, and the object it reads is not exchanged.
LeasedWhitelistIsVersioned ==
    [][\A t \in Streams :
          lease[t] # None /\ lease'[t] = lease[t] =>
             /\ entries'[lease[t]] # entries[lease[t]]
                   => version'[lease[t]] > version[lease[t]]
             /\ version'[lease[t]] >= version[lease[t]]
             /\ \E s \in SessionIds : sessions[s] = lease[t] /\ sessions'[s] = lease[t]
      ]_registryVars
=============================================================================
