-------------------------- MODULE EnrollmentProofs --------------------------
(***************************************************************************)
(* Proofs about the sessions' registry, the AdaFace worker and the calls    *)
(* that run on both (Enrollment), for any number of sessions, streams,      *)
(* entries, jobs and requests.                                             *)
(*                                                                          *)
(* RegistryInv is inductive; the heart of it is that delete() is refused    *)
(* exactly while a stream holds the object (CountsMatchLeases), and that a  *)
(* new object is held by no stream but the one it is made for.  What the    *)
(* calls do to the registry is what the registry does (CallsAreOperations), *)
(* so that its invariant is theirs, too.                                    *)
(***************************************************************************)
EXTENDS Enrollment, QueueFacts, FiniteSetTheorems, TLAPS

\* The facts about Register that its four callers share.
LEMMA RegisterFacts ==
    ASSUME RegistryInv, NEW s \in SessionIds, NEW n \in Nat, Register(s, n)
    PROVE  /\ made + 1 \in Objects
           /\ made' \in 0..MaxObjects
           /\ made' = made + 1
           /\ sessions' \in [SessionIds -> 0..made']
           /\ active' \in [SessionIds -> Nat]
           /\ sessions'[s] = made + 1
           /\ active'[s] = n
           /\ \A r \in SessionIds \ {s} :
                 sessions'[r] = sessions[r] /\ active'[r] = active[r]
           /\ OneIdPerObject'
           /\ Cardinality(Registered') <= MaxSessions
  <1> USE RegistryAssumption DEF RegistryInv, RegistryTypeOK, Register, None, Objects
  <1>1. made + 1 \in Objects /\ made' \in 0..MaxObjects /\ made' = made + 1
    OBVIOUS
  <1>2. /\ sessions' \in [SessionIds -> 0..made']
        /\ active' \in [SessionIds -> Nat]
        /\ sessions'[s] = made + 1
        /\ active'[s] = n
    BY <1>1
  <1>3. \A r \in SessionIds \ {s} : sessions'[r] = sessions[r] /\ active'[r] = active[r]
    OBVIOUS
  <1>4. OneIdPerObject'
    <2>1. \A r \in SessionIds : sessions[r] # made + 1
      OBVIOUS
    <2>2. \A q, r \in SessionIds : sessions[q] # 0 /\ sessions[r] # 0 /\ sessions[q] = sessions[r] => q = r
      BY DEF OneIdPerObject, Registered
    <2>3. \A q, r \in SessionIds :
             sessions'[q] # 0 /\ sessions'[r] # 0 /\ sessions'[q] = sessions'[r] => q = r
      BY <1>2, <1>3, <2>1, <2>2, Zenon
    <2> QED
      BY <2>3 DEF OneIdPerObject, Registered
  <1>5. Cardinality(Registered') <= MaxSessions
    <2>1. Registered' = Registered \cup {s} /\ s \notin Registered
      BY <1>2, <1>3 DEF Registered
    <2>2. IsFiniteSet(Registered)
      BY FS_Subset DEF Registered
    <2>3. Cardinality(Registered') = Cardinality(Registered) + 1
      BY <2>1, <2>2, FS_AddElement
    <2>4. Cardinality(Registered) \in Nat
      BY <2>2, FS_CardinalityType
    <2> QED
      BY <2>3, <2>4
  <1> QED
    BY <1>1, <1>2, <1>3, <1>4, <1>5

\* A rewritten whitelist stays within its type and its limit.
LEMMA RewriteFacts ==
    ASSUME RegistryInv, NEW o \in Objects, NEW to \in SUBSET EntryIds,
           Cardinality(to) <= MaxEntries, Rewrite(o, to)
    PROVE  /\ entries' \in [Objects -> SUBSET EntryIds]
           /\ version' \in [Objects -> 0..MaxVersion]
           /\ \A p \in Objects : Cardinality(entries'[p]) <= MaxEntries
           /\ \A p \in Objects \ {o} : entries'[p] = entries[p] /\ version'[p] = version[p]
  <1>1. version[o] + 1 \in 0..MaxVersion
    BY RegistryAssumption DEF RegistryInv, RegistryTypeOK, Rewrite
  <1> QED
    BY <1>1 DEF RegistryInv, RegistryTypeOK, Rewrite, WithinLimits

\* The sets of holders are finite, and a set with a holder is not empty.
LEMMA HoldersFacts ==
    ASSUME NEW o
    PROVE  /\ IsFiniteSet(Holders(o))
           /\ Cardinality(Holders(o)) \in Nat
           /\ Cardinality(Holders(o)) = 0 <=> Holders(o) = {}
  <1>1. IsFiniteSet(Holders(o))
    BY RegistryAssumption, FS_Subset DEF Holders
  <1> QED
    BY <1>1, FS_CardinalityType, FS_EmptySet

LEMMA RegistryInitInv == RegistryInit => RegistryInv
  <1> SUFFICES ASSUME RegistryInit PROVE RegistryInv
    OBVIOUS
  <1> USE RegistryAssumption DEF RegistryInit, None, Objects
  <1>1. Registered = {} /\ Cardinality({}) = 0
    BY FS_EmptySet DEF Registered
  <1>2. RegistryTypeOK
    BY DEF RegistryTypeOK
  <1>3. CountsMatchLeases /\ LeasesAreCurrent
    BY DEF CountsMatchLeases, LeasesAreCurrent
  <1>4. OneIdPerObject /\ UnmadeAreBlank
    BY <1>1 DEF OneIdPerObject, UnmadeAreBlank
  <1>5. WithinLimits
    BY <1>1 DEF WithinLimits
  <1> QED
    BY <1>2, <1>3, <1>4, <1>5 DEF RegistryInv

\* An object is registered and no stream takes it: create, append, import.
LEMMA RegisterIdleStep ==
    ASSUME RegistryInv, NEW s \in SessionIds, Register(s, 0), UNCHANGED lease
    PROVE  CountsMatchLeases' /\ LeasesAreCurrent'
  <1> USE DEF RegistryInv, RegistryTypeOK
  <1> DEFINE o == made + 1
  <1>1. /\ sessions'[s] = o /\ active'[s] = 0
        /\ \A r \in SessionIds \ {s} : sessions'[r] = sessions[r] /\ active'[r] = active[r]
        /\ o \in Objects
    BY RegisterFacts
  <1>3. Holders(o) = {} /\ Cardinality(Holders(o)) = 0
    <2>1. o \notin 0..made /\ made \in Nat
      BY RegistryAssumption
    <2>2. Holders(o) = {}
      BY <2>1 DEF Holders
    <2> QED
      BY <2>2, HoldersFacts
  <1>4. o # None
    BY <1>1 DEF Objects, None
  <1>5. CountsMatchLeases'
    <2> SUFFICES ASSUME NEW r \in SessionIds
                 PROVE  active'[r] = IF sessions'[r] = None THEN 0
                           ELSE Cardinality({t \in Streams : lease[t] = sessions'[r]})
      BY DEF CountsMatchLeases, Holders
    <2>1. CASE r = s
      BY <2>1, <1>1, <1>3, <1>4 DEF Holders
    <2>2. CASE r # s
      BY <2>2, <1>1 DEF CountsMatchLeases, Holders
    <2> QED
      BY <2>1, <2>2
  <1>6. LeasesAreCurrent'
    <2> SUFFICES ASSUME NEW t \in Streams, lease'[t] # None
                 PROVE  \E r \in SessionIds : sessions'[r] = lease'[t]
      BY DEF LeasesAreCurrent
    <2>1. PICK r \in SessionIds : sessions[r] = lease[t]
      BY DEF LeasesAreCurrent
    <2>2. r # s
      BY <2>1 DEF Register
    <2> QED
      BY <2>1, <2>2, <1>1
  <1> QED
    BY <1>5, <1>6

\* Leases and registrations are untouched: the whitelist operations on a
\* session that exists.
LEMMA RewriteStep ==
    ASSUME RegistryInv, NEW s \in SessionIds, sessions[s] # None,
           NEW to \in SUBSET EntryIds, Cardinality(to) <= MaxEntries,
           Rewrite(sessions[s], to), UNCHANGED <<made, sessions, active, lease>>
    PROVE  RegistryInv'
  <1> USE DEF RegistryInv
  <1>1. sessions[s] \in Objects /\ ~(sessions[s] > made)
    BY RegistryAssumption DEF RegistryTypeOK, Objects, None
  <1>2. /\ entries' \in [Objects -> SUBSET EntryIds]
        /\ version' \in [Objects -> 0..MaxVersion]
        /\ \A p \in Objects : Cardinality(entries'[p]) <= MaxEntries
        /\ \A p \in Objects \ {sessions[s]} :
              entries'[p] = entries[p] /\ version'[p] = version[p]
    BY <1>1, RewriteFacts
  <1>3. RegistryTypeOK'
    BY <1>2 DEF RegistryTypeOK
  <1>4. CountsMatchLeases' /\ LeasesAreCurrent' /\ OneIdPerObject'
    BY DEF CountsMatchLeases, LeasesAreCurrent, OneIdPerObject, Registered, Holders
  <1>5. UnmadeAreBlank'
    BY <1>1, <1>2 DEF UnmadeAreBlank
  <1>6. WithinLimits'
    BY <1>2 DEF WithinLimits, Registered
  <1> QED
    BY <1>3, <1>4, <1>5, <1>6

\* A session is registered with its first entries.
LEMMA RegisterRewriteStep ==
    ASSUME RegistryInv, NEW s \in SessionIds, Register(s, 0),
           NEW to \in SUBSET EntryIds, Cardinality(to) <= MaxEntries,
           Rewrite(made + 1, to), UNCHANGED lease
    PROVE  RegistryInv'
  <1> USE DEF RegistryInv
  <1> DEFINE o == made + 1
  <1>1. /\ o \in Objects /\ made' \in 0..MaxObjects /\ made' = o
        /\ sessions' \in [SessionIds -> 0..made'] /\ active' \in [SessionIds -> Nat]
        /\ OneIdPerObject'
        /\ Cardinality(Registered') <= MaxSessions
    BY RegisterFacts
  <1>2. /\ entries' \in [Objects -> SUBSET EntryIds]
        /\ version' \in [Objects -> 0..MaxVersion]
        /\ \A p \in Objects : Cardinality(entries'[p]) <= MaxEntries
        /\ \A p \in Objects \ {o} : entries'[p] = entries[p] /\ version'[p] = version[p]
    BY <1>1, RewriteFacts
  <1>3. RegistryTypeOK'
    BY <1>1, <1>2 DEF RegistryTypeOK
  <1>4. CountsMatchLeases' /\ LeasesAreCurrent'
    BY RegisterIdleStep
  <1>5. UnmadeAreBlank'
    BY <1>1, <1>2 DEF UnmadeAreBlank, Objects, RegistryTypeOK
  <1> QED
    BY <1>1, <1>2, <1>3, <1>4, <1>5 DEF WithinLimits

\* A session is registered empty and nobody holds it.
LEMMA RegisterEmptyStep ==
    ASSUME RegistryInv, NEW s \in SessionIds, Register(s, 0),
           UNCHANGED <<entries, version, lease>>
    PROVE  RegistryInv'
  <1> USE DEF RegistryInv
  <1>1. /\ made' \in 0..MaxObjects /\ made' = made + 1
        /\ sessions' \in [SessionIds -> 0..made'] /\ active' \in [SessionIds -> Nat]
        /\ OneIdPerObject'
        /\ Cardinality(Registered') <= MaxSessions
    BY RegisterFacts
  <1>2. RegistryTypeOK'
    BY <1>1 DEF RegistryTypeOK
  <1>3. CountsMatchLeases' /\ LeasesAreCurrent'
    BY RegisterIdleStep
  <1>4. UnmadeAreBlank'
    BY <1>1 DEF UnmadeAreBlank, Objects, RegistryTypeOK
  <1> QED
    BY <1>1, <1>2, <1>3, <1>4 DEF WithinLimits

\* acquire_stream on an existing session or on a new one: one holder more,
\* one count more.
LEMMA AcquireStep ==
    ASSUME RegistryInv, NEW t \in Streams, NEW s \in SessionIds, AcquireStream(t, s)
    PROVE  RegistryInv'
  <1> USE DEF RegistryInv
  <1>1. /\ lease[t] = None
        /\ UNCHANGED <<entries, version>>
        /\ sessions'[s] # None
        /\ lease' = [lease EXCEPT ![t] = sessions'[s]]
        /\ made \in Nat /\ made' \in made..MaxObjects
        /\ sessions' \in [SessionIds -> 0..made']
        /\ active' \in [SessionIds -> Nat]
        /\ \A r \in SessionIds \ {s} :
              sessions'[r] = sessions[r] /\ active'[r] = active[r]
        /\ OneIdPerObject'
        /\ Cardinality(Registered') <= MaxSessions
        /\ \/ sessions'[s] = sessions[s] /\ active'[s] = active[s] + 1
           \/ /\ sessions[s] = None /\ sessions'[s] = made + 1
              /\ active'[s] = 1
    <2>1. CASE sessions[s] # None
      <3>1. UNCHANGED <<made, sessions>> /\ active' = [active EXCEPT ![s] = @ + 1]
        BY <2>1 DEF AcquireStream, Register
      <3>2. active' \in [SessionIds -> Nat] /\ active'[s] = active[s] + 1
        BY <3>1 DEF RegistryTypeOK
      <3>3. lease[t] = None /\ lease' = [lease EXCEPT ![t] = sessions'[s]]
        BY <2>1, <3>1 DEF AcquireStream, Register
      <3>4. OneIdPerObject' /\ Cardinality(Registered') <= MaxSessions
        BY <3>1 DEF OneIdPerObject, Registered, WithinLimits
      <3>5. made \in Nat /\ made \in made..MaxObjects
        BY RegistryAssumption DEF RegistryTypeOK
      <3>6. UNCHANGED <<entries, version>>
        BY DEF AcquireStream
      <3> QED
        BY <2>1, <3>1, <3>2, <3>3, <3>4, <3>5, <3>6 DEF RegistryTypeOK
    <2>2. CASE sessions[s] = None
      <3>1. Register(s, 1) /\ lease' = [lease EXCEPT ![t] = made + 1]
        BY <2>2 DEF AcquireStream
      <3>2. /\ made + 1 \in Objects
            /\ made' \in 0..MaxObjects
            /\ made' = made + 1
            /\ sessions' \in [SessionIds -> 0..made']
            /\ active' \in [SessionIds -> Nat]
            /\ sessions'[s] = made + 1
            /\ active'[s] = 1
            /\ \A r \in SessionIds \ {s} :
                  sessions'[r] = sessions[r] /\ active'[r] = active[r]
            /\ OneIdPerObject'
            /\ Cardinality(Registered') <= MaxSessions
        BY <3>1, RegisterFacts
      <3>3. made \in Nat /\ made' \in made..MaxObjects /\ sessions'[s] # None
        BY <3>2, RegistryAssumption DEF RegistryTypeOK, None
      <3>4. lease[t] = None /\ UNCHANGED <<entries, version>>
        BY DEF AcquireStream
      <3> QED
        BY <2>2, <3>1, <3>2, <3>3, <3>4
    <2> QED
      BY <2>1, <2>2
  <1>2. \A r \in SessionIds \ {s} : sessions'[r] # None => sessions'[r] # sessions'[s]
    BY <1>1 DEF OneIdPerObject, Registered
  <1>3. RegistryTypeOK'
    <2>1. lease' \in [Streams -> 0..made']
      BY <1>1 DEF RegistryTypeOK
    <2>2. made' \in 0..MaxObjects
      BY <1>1
    <2> QED
      BY <1>1, <2>1, <2>2 DEF RegistryTypeOK
  <1>4. CountsMatchLeases'
    <2> SUFFICES ASSUME NEW r \in SessionIds
                 PROVE  active'[r] = IF sessions'[r] = None THEN 0
                           ELSE Cardinality({u \in Streams : lease'[u] = sessions'[r]})
      BY DEF CountsMatchLeases, Holders
    <2>1. CASE r # s
      <3>1. sessions'[r] # None =>
               {u \in Streams : lease'[u] = sessions'[r]}
                 = {u \in Streams : lease[u] = sessions[r]}
        BY <2>1, <1>1, <1>2 DEF RegistryTypeOK
      <3> QED
        BY <2>1, <1>1, <3>1 DEF CountsMatchLeases, Holders
    <2>2. CASE r = s
      <3> DEFINE o == sessions'[s]
      <3>1. {u \in Streams : lease'[u] = o} = Holders(o) \cup {t} /\ t \notin Holders(o)
        BY <1>1 DEF Holders, RegistryTypeOK
      <3>2. Cardinality(Holders(o) \cup {t}) = Cardinality(Holders(o)) + 1
        BY <3>1, HoldersFacts, FS_AddElement
      <3>3. CASE sessions'[s] = sessions[s] /\ active'[s] = active[s] + 1
        <4>1. active[s] = Cardinality(Holders(o))
          BY <3>3, <1>1 DEF CountsMatchLeases
        <4> QED
          BY <2>2, <1>1, <3>1, <3>2, <3>3, <4>1
      <3>4. CASE sessions'[s] = made + 1 /\ active'[s] = 1
        <4>1. o \notin 0..made
          BY <3>4, <1>1
        <4>2. Holders(o) = {}
          BY <4>1 DEF Holders, RegistryTypeOK
        <4>3. Cardinality(Holders(o)) = 0
          BY <4>2, HoldersFacts
        <4>4. Cardinality({u \in Streams : lease'[u] = o}) = 1
          BY <3>1, <3>2, <4>3
        <4> QED
          BY <2>2, <1>1, <3>4, <4>4
      <3> QED
        BY <1>1, <3>3, <3>4
    <2> QED
      BY <2>1, <2>2
  <1>5. LeasesAreCurrent'
    <2> SUFFICES ASSUME NEW u \in Streams, lease'[u] # None
                 PROVE  \E r \in SessionIds : sessions'[r] = lease'[u]
      BY DEF LeasesAreCurrent
    <2>1. CASE u = t
      BY <2>1, <1>1 DEF RegistryTypeOK
    <2>2. CASE u # t
      <3>1. lease'[u] = lease[u]
        BY <2>2, <1>1 DEF RegistryTypeOK
      <3>2. PICK r \in SessionIds : sessions[r] = lease[u]
        BY <3>1 DEF LeasesAreCurrent
      <3>3. sessions[r] # None
        BY <3>1, <3>2
      <3> QED
        BY <1>1, <3>1, <3>2, <3>3
    <2> QED
      BY <2>1, <2>2
  <1>6. UnmadeAreBlank'
    BY <1>1 DEF UnmadeAreBlank, Objects
  <1>7. WithinLimits'
    BY <1>1 DEF WithinLimits
  <1> QED
    BY <1>1, <1>3, <1>4, <1>5, <1>6, <1>7

\* release_stream: the object held is current, so the count of its session
\* is at least one and goes down with the holders.
LEMMA ReleaseStep ==
    ASSUME RegistryInv, NEW t \in Streams, ReleaseStream(t)
    PROVE  RegistryInv'
  <1> USE DEF RegistryInv
  <1>1. PICK s \in SessionIds : sessions[s] = lease[t]
    BY DEF ReleaseStream, LeasesAreCurrent
  <1>2. \A r \in SessionIds : sessions[r] = lease[t] => r = s
    BY <1>1 DEF ReleaseStream, OneIdPerObject, Registered
  <1> DEFINE o == lease[t]
  <1>3. /\ t \in Holders(o)
        /\ Cardinality(Holders(o) \ {t}) = Cardinality(Holders(o)) - 1
        /\ Cardinality(Holders(o)) \in Nat /\ Cardinality(Holders(o)) >= 1
    <2>1. t \in Holders(o)
      BY DEF Holders
    <2>2. Cardinality(Holders(o) \ {t}) = Cardinality(Holders(o)) - 1
      BY <2>1, HoldersFacts, FS_RemoveElement
    <2>3. Cardinality(Holders(o)) \in Nat /\ Cardinality(Holders(o)) # 0
      BY <2>1, HoldersFacts
    <2> QED
      BY <2>1, <2>2, <2>3
  <1>4. active[s] = Cardinality(Holders(o))
    BY <1>1 DEF CountsMatchLeases, ReleaseStream
  <1>5. /\ active' \in [SessionIds -> Nat]
        /\ active'[s] = active[s] - 1
        /\ \A r \in SessionIds \ {s} : active'[r] = active[r]
    BY <1>1, <1>2, <1>3, <1>4 DEF ReleaseStream, RegistryTypeOK
  <1>6. UNCHANGED <<made, sessions, entries, version>> /\ lease' = [lease EXCEPT ![t] = None]
    BY DEF ReleaseStream
  <1>7. RegistryTypeOK'
    BY <1>5, <1>6, RegistryAssumption DEF RegistryTypeOK, None
  <1>8. CountsMatchLeases'
    <2> SUFFICES ASSUME NEW r \in SessionIds
                 PROVE  active'[r] = IF sessions[r] = None THEN 0
                           ELSE Cardinality({u \in Streams : lease'[u] = sessions[r]})
      <3>1. sessions' = sessions
        BY <1>6
      <3>2. CountsMatchLeases' <=>
              \A r \in SessionIds :
                 active'[r] = IF sessions'[r] = None THEN 0
                              ELSE Cardinality({u \in Streams : lease'[u] = sessions'[r]})
        BY Zenon DEF CountsMatchLeases, Holders
      <3> QED
        BY <3>1, <3>2, Zenon
    <2>1. CASE r = s
      <3>1. {u \in Streams : lease'[u] = o} = Holders(o) \ {t}
        BY <1>6 DEF Holders, RegistryTypeOK, ReleaseStream
      <3> QED
        BY <2>1, <1>1, <1>3, <1>4, <1>5, <3>1 DEF ReleaseStream
    <2>2. CASE r # s
      <3>1. sessions[r] # None =>
               {u \in Streams : lease'[u] = sessions[r]} = Holders(sessions[r])
        BY <2>2, <1>2, <1>6 DEF Holders, RegistryTypeOK
      <3> QED
        BY <2>2, <1>5, <3>1 DEF CountsMatchLeases
    <2> QED
      BY <2>1, <2>2
  <1>9. LeasesAreCurrent'
    BY <1>6 DEF LeasesAreCurrent, RegistryTypeOK
  <1>10. OneIdPerObject' /\ UnmadeAreBlank' /\ WithinLimits'
    BY <1>6 DEF OneIdPerObject, UnmadeAreBlank, WithinLimits, Registered
  <1> QED
    BY <1>7, <1>8, <1>9, <1>10

\* delete: with a count of zero, no stream holds the object that goes.
LEMMA DeleteStep ==
    ASSUME RegistryInv, NEW s \in SessionIds, Delete(s)
    PROVE  RegistryInv'
  <1> USE DEF RegistryInv, Delete
  <1>1. Holders(sessions[s]) = {}
    BY HoldersFacts DEF CountsMatchLeases
  <1>2. \A r \in SessionIds \ {s} : sessions'[r] = sessions[r]
    BY DEF RegistryTypeOK
  <1>3. sessions'[s] = None
    BY DEF RegistryTypeOK
  <1>4. RegistryTypeOK'
    BY RegistryAssumption DEF RegistryTypeOK, None
  <1>5. CountsMatchLeases'
    BY <1>2, <1>3 DEF CountsMatchLeases, Holders
  <1>6. LeasesAreCurrent'
    BY <1>1, <1>2 DEF LeasesAreCurrent, Holders
  <1>7. OneIdPerObject'
    BY <1>2, <1>3 DEF OneIdPerObject, Registered
  <1>8. UnmadeAreBlank'
    BY DEF UnmadeAreBlank
  <1>9. WithinLimits'
    <2>1. Registered' \subseteq Registered
      BY <1>2, <1>3 DEF Registered
    <2>2. IsFiniteSet(Registered)
      BY RegistryAssumption, FS_Subset DEF Registered
    <2>3. /\ Cardinality(Registered') <= Cardinality(Registered)
          /\ Cardinality(Registered') \in Nat
          /\ Cardinality(Registered) \in Nat
      BY <2>1, <2>2, FS_Subset, FS_CardinalityType
    <2> QED
      BY <2>3, RegistryAssumption DEF WithinLimits
  <1> QED
    BY <1>4, <1>5, <1>6, <1>7, <1>8, <1>9

\* Every step keeps the inductive invariant.
LEMMA RegistryStepInv == RegistryInv /\ [RegistryNext]_registryVars => RegistryInv'
  <1> SUFFICES ASSUME RegistryInv, [RegistryNext]_registryVars PROVE RegistryInv'
    OBVIOUS
  <1>1. ASSUME NEW s \in SessionIds, Create(s) PROVE RegistryInv'
    BY <1>1, RegisterEmptyStep DEF Create
  <1>2. ASSUME NEW s \in SessionIds, Delete(s) PROVE RegistryInv'
    BY <1>2, DeleteStep
  <1>3. ASSUME NEW s \in SessionIds, NEW e \in EntryIds, AppendEntry(s, e)
        PROVE RegistryInv'
    <2>1. CASE sessions[s] # None
      <3> DEFINE to == entries[sessions[s]] \cup {e}
      <3>1. sessions[s] \in Objects
        BY <2>1, RegistryAssumption DEF RegistryInv, RegistryTypeOK, Objects, None
      <3>2. /\ Rewrite(sessions[s], to) /\ UNCHANGED <<made, sessions, active, lease>>
            /\ Cardinality(entries[sessions[s]]) < MaxEntries
            /\ e \notin entries[sessions[s]]
        BY <1>3, <2>1, <3>1 DEF AppendEntry, Register
      <3>3. entries[sessions[s]] \in SUBSET EntryIds
        BY <3>1 DEF RegistryInv, RegistryTypeOK
      <3>4. to \in SUBSET EntryIds
        BY <3>3
      <3>5. Cardinality(to) <= MaxEntries
        <4>1. IsFiniteSet(entries[sessions[s]])
          BY <3>3, RegistryAssumption, FS_Subset
        <4>2. Cardinality(to) = Cardinality(entries[sessions[s]]) + 1
          BY <3>2, <4>1, FS_AddElement
        <4>3. Cardinality(entries[sessions[s]]) \in Nat
          BY <4>1, FS_CardinalityType
        <4> QED
          BY <3>2, <4>2, <4>3, RegistryAssumption
      <3> QED
        BY <2>1, <3>2, <3>4, <3>5, RewriteStep
    <2>2. CASE sessions[s] = None
      <3>1. Register(s, 0) /\ Rewrite(made + 1, {e}) /\ UNCHANGED lease
        BY <1>3, <2>2 DEF AppendEntry
      <3>2. {e} \in SUBSET EntryIds /\ Cardinality({e}) <= MaxEntries
        BY RegistryAssumption, FS_Singleton
      <3> QED
        BY <3>1, <3>2, RegisterRewriteStep
    <2> QED
      BY <2>1, <2>2
  <1>4. ASSUME NEW s \in SessionIds, NEW e \in EntryIds, DeleteEntry(s, e)
        PROVE RegistryInv'
    <2> DEFINE old == entries[sessions[s]]
    <2>1. sessions[s] \in Objects
      BY <1>4, RegistryAssumption DEF RegistryInv, RegistryTypeOK, Objects, None, DeleteEntry
    <2>2. old \in SUBSET EntryIds /\ Cardinality(old) <= MaxEntries
      BY <2>1 DEF RegistryInv, RegistryTypeOK, WithinLimits
    <2>3. IsFiniteSet(old)
      BY <2>2, RegistryAssumption, FS_Subset
    <2>4. /\ Cardinality(old \ {e}) <= Cardinality(old)
          /\ Cardinality(old \ {e}) \in Nat /\ Cardinality(old) \in Nat
      BY <2>3, FS_Subset, FS_CardinalityType
    <2>5. old \ {e} \in SUBSET EntryIds /\ Cardinality(old \ {e}) <= MaxEntries
      BY <2>2, <2>4, RegistryAssumption
    <2> QED
      BY <1>4, <2>5, RewriteStep DEF DeleteEntry
  <1>5. ASSUME NEW s \in SessionIds, NEW incoming \in SUBSET EntryIds,
               ImportEntries(s, incoming)
        PROVE RegistryInv'
    <2>1. CASE sessions[s] # None
      <3> DEFINE to == entries[sessions[s]] \cup incoming
      <3>1. sessions[s] \in Objects
        BY <2>1, RegistryAssumption DEF RegistryInv, RegistryTypeOK, Objects, None
      <3>2. to \in SUBSET EntryIds
        BY <3>1 DEF RegistryInv, RegistryTypeOK
      <3>3. /\ Rewrite(sessions[s], to) /\ UNCHANGED <<made, sessions, active, lease>>
            /\ Cardinality(to) <= MaxEntries
        BY <1>5, <2>1 DEF ImportEntries, Register
      <3> QED
        BY <2>1, <3>2, <3>3, RewriteStep
    <2>2. CASE sessions[s] = None /\ incoming # {}
      BY <1>5, <2>2, RegisterRewriteStep DEF ImportEntries
    <2>3. CASE sessions[s] = None /\ incoming = {}
      BY <1>5, <2>3, RegisterEmptyStep DEF ImportEntries
    <2> QED
      BY <2>1, <2>2, <2>3
  <1>6. ASSUME NEW t \in Streams, NEW s \in SessionIds, AcquireStream(t, s)
        PROVE RegistryInv'
    BY <1>6, AcquireStep
  <1>7. ASSUME NEW t \in Streams, ReleaseStream(t) PROVE RegistryInv'
    BY <1>7, ReleaseStep
  <1>8. CASE UNCHANGED registryVars
    BY <1>8 DEF registryVars, RegistryInv, RegistryTypeOK, CountsMatchLeases,
                LeasesAreCurrent, OneIdPerObject, UnmadeAreBlank, WithinLimits,
                Registered, Holders
  <1> QED
    BY <1>1, <1>2, <1>3, <1>4, <1>5, <1>6, <1>7, <1>8 DEF RegistryNext

\* The inductive invariant holds in every state.
THEOREM RegistryInvariant == RegistrySpec => []RegistryInv
  <1> QED
    BY RegistryInitInv, RegistryStepInv, PTL DEF RegistrySpec

\* Type correctness of the registry.
THEOREM RegistryTyped == RegistrySpec => []RegistryTypeOK
  <1>1. RegistryInv => RegistryTypeOK
    BY DEF RegistryInv
  <1> QED
    BY <1>1, RegistryInvariant, PTL

\* The active count of a session is the number of streams that hold it, for
\* any number of streams: delete() never takes a session in use.
THEOREM RegistryCounts == RegistrySpec => []CountsMatchLeases
  <1>1. RegistryInv => CountsMatchLeases
    BY DEF RegistryInv
  <1> QED
    BY <1>1, RegistryInvariant, PTL

\* A stream's session object is always the registered one: release_stream
\* never meets a stale lease.
THEOREM RegistryLeases == RegistrySpec => []LeasesAreCurrent
  <1>1. RegistryInv => LeasesAreCurrent
    BY DEF RegistryInv
  <1> QED
    BY <1>1, RegistryInvariant, PTL

\* The limits on sessions and on entries hold for all their values.
THEOREM RegistryLimits == RegistrySpec => []WithinLimits
  <1>1. RegistryInv => WithinLimits
    BY DEF RegistryInv
  <1> QED
    BY <1>1, RegistryInvariant, PTL

\* While a stream holds a session object, the id behind it stays its own and
\* every change of its whitelist raises the version.
THEOREM RegistryVersions == RegistrySpec => LeasedWhitelistIsVersioned
  <1> DEFINE Versioned ==
        \A t \in Streams :
           lease[t] # None /\ lease'[t] = lease[t] =>
              /\ entries'[lease[t]] # entries[lease[t]]
                    => version'[lease[t]] > version[lease[t]]
              /\ version'[lease[t]] >= version[lease[t]]
              /\ \E s \in SessionIds : sessions[s] = lease[t] /\ sessions'[s] = lease[t]
  <1>1. RegistryInv /\ RegistryInv' /\ [RegistryNext]_registryVars
           => [Versioned]_registryVars
    <2> SUFFICES ASSUME RegistryInv, RegistryInv', RegistryNext,
                        NEW t \in Streams, lease[t] # None, lease'[t] = lease[t]
                 PROVE  /\ entries'[lease[t]] # entries[lease[t]]
                              => version'[lease[t]] > version[lease[t]]
                        /\ version'[lease[t]] >= version[lease[t]]
                        /\ \E s \in SessionIds :
                              sessions[s] = lease[t] /\ sessions'[s] = lease[t]
      BY DEF registryVars
    <2> DEFINE o == lease[t]
    <2>1. o \in Objects /\ version[o] \in Nat
      <3>1. o \in Objects
        <4>1. made \in 0..MaxObjects /\ MaxObjects \in Nat
          BY RegistryAssumption DEF RegistryInv, RegistryTypeOK
        <4>2. o \in 0..made /\ o # 0
          BY DEF RegistryInv, RegistryTypeOK, None
        <4> HIDE DEF o
        <4> QED
          BY <4>1, <4>2 DEF Objects
      <3>2. version \in [Objects -> 0..MaxVersion] /\ MaxVersion \in Nat
        BY RegistryAssumption DEF RegistryInv, RegistryTypeOK
      <3> HIDE DEF o
      <3> QED
        BY <3>1, <3>2
    <2>2. PICK s \in SessionIds : sessions[s] = o
      BY DEF RegistryInv, LeasesAreCurrent
    <2>3. PICK r \in SessionIds : sessions'[r] = o
      BY DEF RegistryInv, LeasesAreCurrent
    <2>4. \A p \in Objects : \A to : Rewrite(p, to) =>
             /\ version'[o] >= version[o]
             /\ entries'[o] # entries[o] => version'[o] > version[o]
      BY <2>1 DEF Rewrite, RegistryInv, RegistryTypeOK
    <2>5. (\E p \in Objects : \E to : Rewrite(p, to)) \/ UNCHANGED <<entries, version>>
      <3>1. \A q \in SessionIds : sessions[q] # None => sessions[q] \in Objects
        <4>1. /\ made \in Nat /\ MaxObjects \in Nat /\ made <= MaxObjects
              /\ sessions \in [SessionIds -> 0..made]
          BY RegistryAssumption DEF RegistryInv, RegistryTypeOK
        <4>2. \A q \in SessionIds : sessions[q] \in 0..made
          BY <4>1
        <4> QED
          BY <4>1, <4>2 DEF Objects, None
      <3>2. \A q \in SessionIds : Register(q, 0) => made + 1 \in Objects
        BY RegistryAssumption DEF RegistryInv, RegistryTypeOK, Objects, Register
      <3> QED
        BY <3>1, <3>2 DEF RegistryNext, Create, Delete, AppendEntry, DeleteEntry,
              ImportEntries, AcquireStream, ReleaseStream
    <2>6. version'[o] >= version[o] /\ (entries'[o] # entries[o] => version'[o] > version[o])
      BY <2>1, <2>4, <2>5
    <2>7. sessions'[s] = o
      <3>1. CASE \E q \in SessionIds, n \in {0, 1} : Register(q, n)
        <4>1. PICK q \in SessionIds, n \in {0, 1} : Register(q, n)
          BY <3>1
        <4>2. s # q
          BY <4>1, <2>2 DEF Register
        <4> QED
          BY <4>1, <4>2, <2>2 DEF Register, RegistryInv, RegistryTypeOK
      <3>2. CASE UNCHANGED sessions
        BY <3>2, <2>2
      <3>3. CASE \E q \in SessionIds : Delete(q)
        <4>1. PICK q \in SessionIds : Delete(q)
          BY <3>3
        <4>2. sessions'[r] = sessions[r] \/ r = q
          BY <4>1 DEF Delete, RegistryInv, RegistryTypeOK
        <4>3. sessions'[q] = None
          BY <4>1 DEF Delete, RegistryInv, RegistryTypeOK
        <4>4. sessions[r] = o
          BY <4>2, <4>3, <2>3
        <4>5. r = s
          BY <4>4, <2>2 DEF RegistryInv, OneIdPerObject, Registered
        <4> QED
          BY <4>5, <2>3
      <3> QED
        BY <3>1, <3>2, <3>3 DEF RegistryNext, Create, AppendEntry, DeleteEntry,
              ImportEntries, AcquireStream, ReleaseStream
    <2> QED
      BY <2>2, <2>6, <2>7
  <1>2. RegistrySpec => [][Versioned]_registryVars
    BY <1>1, RegistryInvariant, PTL DEF RegistrySpec
  <1> QED
    BY <1>2 DEF LeasedWhitelistIsVersioned

-----------------------------------------------------------------------------
(* The AdaFace worker *)

Of(o) == {j \in UnderWay : owner[j] = o}

\* The queue is the queued jobs, each once, and a job under way has an owner.
LineIsQueued ==
    /\ IsInjective(line)
    /\ ToSet(line) = {j \in Jobs : job[j] = "queued"}
    /\ \A j \in UnderWay : owner[j] \in Owners

AdaFaceInv == AdaFaceTypeOK /\ LineIsQueued /\ CapacityIsExact

LEMMA UnderWayIsFinite == IsFiniteSet(UnderWay) /\ \A o : IsFiniteSet(Of(o))
  <1>1. IsFiniteSet(UnderWay)
    BY AdaFaceAssumption, FS_Subset DEF UnderWay
  <1>2. \A o : Of(o) \subseteq UnderWay
    BY DEF Of
  <1> QED
    BY <1>1, <1>2, FS_Subset

\* _submit counts a job that was not under way.
LEMMA Entering ==
    ASSUME AdaFaceTypeOK, CapacityIsExact,
           NEW j \in Jobs, NEW o \in Owners, j \notin UnderWay,
           UnderWay' = UnderWay \cup {j}, owner' = [owner EXCEPT ![j] = o],
           inflight' = inflight + 1, byOwner' = [byOwner EXCEPT ![o] = @ + 1]
    PROVE  CapacityIsExact'
  <1>1. Cardinality(UnderWay') = Cardinality(UnderWay) + 1
    BY UnderWayIsFinite, FS_AddElement
  <1>2. Of(o)' = Of(o) \cup {j} /\ j \notin Of(o)
    BY DEF Of, AdaFaceTypeOK
  <1>3. Cardinality(Of(o)') = Cardinality(Of(o)) + 1
    BY <1>2, UnderWayIsFinite, FS_AddElement
  <1>4. \A p \in Owners \ {o} : Of(p)' = Of(p)
    BY DEF Of, AdaFaceTypeOK
  <1>5. inflight = Cardinality(UnderWay) /\ \A p \in Owners : byOwner[p] = Cardinality(Of(p))
    BY DEF CapacityIsExact, Of
  <1>6. \A p \in Owners : byOwner'[p] = Cardinality(Of(p)')
    BY <1>3, <1>4, <1>5 DEF AdaFaceTypeOK
  <1> QED
    BY <1>1, <1>5, <1>6 DEF CapacityIsExact, Of

\* _completed counts one down that was.
LEMMA Leaving ==
    ASSUME AdaFaceTypeOK, CapacityIsExact,
           NEW j \in UnderWay, owner[j] \in Owners,
           UnderWay' = UnderWay \ {j}, owner' = owner, CountedDown(j)
    PROVE  CapacityIsExact' /\ inflight' \in Nat /\ byOwner' \in [Owners -> Nat]
  <1> DEFINE o == owner[j]
  <1>1. /\ Cardinality(UnderWay') = Cardinality(UnderWay) - 1
        /\ Cardinality(UnderWay) \in Nat /\ Cardinality(UnderWay) > 0
    <2>1. Cardinality(UnderWay) \in Nat /\ Cardinality(UnderWay) # 0
      BY UnderWayIsFinite, FS_EmptySet, FS_CardinalityType
    <2>2. Cardinality(UnderWay \ {j}) = Cardinality(UnderWay) - 1
      BY UnderWayIsFinite, FS_RemoveElement
    <2> QED
      BY <2>1, <2>2
  <1>2. Of(o)' = Of(o) \ {j} /\ j \in Of(o)
    BY DEF Of
  <1>3. /\ Cardinality(Of(o)') = Cardinality(Of(o)) - 1
        /\ Cardinality(Of(o)) \in Nat /\ Cardinality(Of(o)) > 0
    <2>1. Cardinality(Of(o)) \in Nat /\ Cardinality(Of(o)) # 0
      BY <1>2, UnderWayIsFinite, FS_EmptySet, FS_CardinalityType
    <2>2. Cardinality(Of(o) \ {j}) = Cardinality(Of(o)) - 1
      BY <1>2, UnderWayIsFinite, FS_RemoveElement
    <2> QED
      BY <1>2, <2>1, <2>2
  <1>4. \A p \in Owners \ {o} : Of(p)' = Of(p)
    BY DEF Of
  <1>5. inflight = Cardinality(UnderWay) /\ \A p \in Owners : byOwner[p] = Cardinality(Of(p))
    BY DEF CapacityIsExact, Of
  <1>6. inflight' = Cardinality(UnderWay')
    BY <1>1, <1>5 DEF CountedDown
  <1>7. byOwner' = [byOwner EXCEPT ![o] = Cardinality(Of(o)')]
    BY <1>3, <1>5 DEF CountedDown, AdaFaceTypeOK
  <1>8. \A p \in Owners : byOwner'[p] = Cardinality(Of(p)')
    BY <1>4, <1>5, <1>7 DEF AdaFaceTypeOK
  <1>9. Cardinality(UnderWay') \in Nat /\ Cardinality(Of(o)') \in Nat
    BY <1>1, <1>3
  <1> QED
    BY <1>6, <1>7, <1>8, <1>9 DEF CapacityIsExact, Of, AdaFaceTypeOK

LEMMA AdaFaceInitInv == AdaFaceInit => AdaFaceInv
  <1> SUFFICES ASSUME AdaFaceInit PROVE AdaFaceInv
    OBVIOUS
  <1> USE DEF AdaFaceInit
  <1>1. AdaFaceTypeOK
    BY DEF AdaFaceTypeOK
  <1>2. UnderWay = {} /\ {j \in Jobs : job[j] = "queued"} = {}
    BY DEF UnderWay
  <1>3. LineIsQueued
    BY <1>2 DEF LineIsQueued, IsInjective, ToSet
  <1>4. \A o \in Owners : Of(o) = {}
    BY <1>2 DEF Of
  <1>5. CapacityIsExact
    BY <1>2, <1>4, FS_EmptySet DEF CapacityIsExact, Of
  <1> QED
    BY <1>1, <1>3, <1>5 DEF AdaFaceInv

LEMMA SubmitStep ==
    ASSUME AdaFaceInv, NEW j \in Jobs, NEW o \in Owners, Submit(j, o)
    PROVE  AdaFaceInv'
  <1> USE DEF AdaFaceInv, Submit
  <1>1. UnderWay' = UnderWay \cup {j} /\ j \notin UnderWay
    BY DEF UnderWay, AdaFaceTypeOK
  <1>2. CapacityIsExact'
    BY <1>1, Entering
  <1>3. line' \in Seq(Jobs) /\ ToSet(line') = ToSet(line) \cup {j}
    BY AppendFacts DEF AdaFaceTypeOK
  <1>4. IsInjective(line')
    BY AppendFacts DEF AdaFaceTypeOK, LineIsQueued
  <1>5. {k \in Jobs : job'[k] = "queued"} = {k \in Jobs : job[k] = "queued"} \cup {j}
    BY DEF AdaFaceTypeOK
  <1>6. \A k \in UnderWay' : owner'[k] \in Owners
    BY <1>1 DEF AdaFaceTypeOK, LineIsQueued, UnderWay
  <1>7. LineIsQueued'
    BY <1>3, <1>4, <1>5, <1>6 DEF LineIsQueued
  <1>8. AdaFaceTypeOK'
    BY <1>3 DEF AdaFaceTypeOK
  <1> QED
    BY <1>2, <1>7, <1>8

\* What the executor's thread takes is the first of the queue, and no other.
LEMMA TailFacts ==
    ASSUME NEW S, NEW q \in Seq(S), q # <<>>, IsInjective(q)
    PROVE  /\ Head(q) \in S /\ Head(q) \in ToSet(q)
           /\ Tail(q) \in Seq(S)
           /\ IsInjective(Tail(q))
           /\ ToSet(Tail(q)) = ToSet(q) \ {Head(q)}
  <1> DEFINE r == Tail(q)
  <1>1. /\ Len(q) \in Nat /\ Len(q) > 0 /\ DOMAIN q = 1..Len(q)
        /\ Head(q) = q[1] /\ Head(q) \in S
        /\ r \in Seq(S) /\ Len(r) = Len(q) - 1
        /\ \A i \in 1..Len(r) : r[i] = q[i + 1]
    BY EmptySeq, LenProperties, HeadTailProperties
  <1> HIDE DEF r
  <1>2. DOMAIN r = 1..Len(r)
    BY <1>1, LenProperties
  <1>3. \A h, i \in 1..Len(q) : q[h] = q[i] => h = i
    BY <1>1 DEF IsInjective
  <1>4. IsInjective(r)
    <2> SUFFICES ASSUME NEW h \in 1..Len(r), NEW i \in 1..Len(r), r[h] = r[i] PROVE h = i
      BY <1>2 DEF IsInjective
    <2>1. h + 1 \in 1..Len(q) /\ i + 1 \in 1..Len(q) /\ q[h + 1] = q[i + 1]
      BY <1>1
    <2>2. h + 1 = i + 1
      BY <2>1, <1>3
    <2> QED
      BY <1>1, <2>2
  <1>5. \A x \in ToSet(r) : x \in ToSet(q) /\ x # Head(q)
    <2> SUFFICES ASSUME NEW i \in 1..Len(r) PROVE r[i] \in ToSet(q) /\ r[i] # Head(q)
      BY <1>2 DEF ToSet
    <2>1. i + 1 \in 1..Len(q) /\ r[i] = q[i + 1] /\ 1 \in 1..Len(q) /\ i + 1 # 1
      BY <1>1
    <2> QED
      BY <1>1, <1>3, <2>1 DEF ToSet
  <1>6. \A x \in ToSet(q) : x # Head(q) => x \in ToSet(r)
    <2> SUFFICES ASSUME NEW i \in 1..Len(q), q[i] # Head(q) PROVE q[i] \in ToSet(r)
      BY <1>1 DEF ToSet
    <2>1. i - 1 \in 1..Len(r) /\ r[i - 1] = q[i]
      BY <1>1
    <2> QED
      BY <1>2, <2>1 DEF ToSet
  <1>7. Head(q) \in ToSet(q)
    BY <1>1 DEF ToSet
  <1> QED
    BY <1>1, <1>4, <1>5, <1>6, <1>7 DEF r

LEMMA StartsStep == ASSUME AdaFaceInv, JobStarts PROVE AdaFaceInv'
  <1> USE DEF AdaFaceInv, JobStarts
  <1> DEFINE j == Head(line)
  <1>1. /\ j \in Jobs /\ j \in ToSet(line)
        /\ line' \in Seq(Jobs) /\ IsInjective(line') /\ ToSet(line') = ToSet(line) \ {j}
    BY TailFacts DEF AdaFaceTypeOK, LineIsQueued
  <1>2. job[j] = "queued" /\ job' = [job EXCEPT ![j] = "running"]
    BY <1>1 DEF LineIsQueued
  <1> HIDE DEF j
  <1>3. UnderWay' = UnderWay
    BY <1>1, <1>2 DEF UnderWay, AdaFaceTypeOK
  <1>4. CapacityIsExact'
    BY <1>3 DEF CapacityIsExact
  <1>5. {k \in Jobs : job'[k] = "queued"} = {k \in Jobs : job[k] = "queued"} \ {j}
    BY <1>1, <1>2 DEF AdaFaceTypeOK
  <1>6. LineIsQueued'
    BY <1>1, <1>3, <1>5 DEF LineIsQueued
  <1>7. AdaFaceTypeOK'
    BY <1>1, <1>2 DEF AdaFaceTypeOK
  <1> QED
    BY <1>4, <1>6, <1>7

LEMMA EndsStep == ASSUME AdaFaceInv, NEW j \in Jobs, JobEnds(j) PROVE AdaFaceInv'
  <1> USE DEF AdaFaceInv, JobEnds, Results
  <1>1. PICK result \in Results : job' = [job EXCEPT ![j] = result]
    OBVIOUS
  <1>2. UnderWay' = UnderWay \ {j} /\ j \in UnderWay
    BY <1>1 DEF UnderWay, AdaFaceTypeOK
  <1>3. CapacityIsExact' /\ inflight' \in Nat /\ byOwner' \in [Owners -> Nat]
    BY <1>2, Leaving DEF LineIsQueued
  <1>4. {k \in Jobs : job'[k] = "queued"} = {k \in Jobs : job[k] = "queued"}
    BY <1>1 DEF AdaFaceTypeOK
  <1>5. LineIsQueued'
    BY <1>2, <1>4 DEF LineIsQueued
  <1>6. AdaFaceTypeOK'
    BY <1>1, <1>3 DEF AdaFaceTypeOK
  <1> QED
    BY <1>3, <1>5, <1>6

LEMMA ArrivesStep == ASSUME AdaFaceInv, NEW j \in Jobs, CancelArrives(j) PROVE AdaFaceInv'
  <1> USE DEF AdaFaceInv, CancelArrives
  <1>1. UnderWay' = UnderWay \ {j} /\ j \in UnderWay
    BY DEF UnderWay, AdaFaceTypeOK
  <1>2. CapacityIsExact' /\ inflight' \in Nat /\ byOwner' \in [Owners -> Nat]
    BY <1>1, Leaving DEF LineIsQueued
  <1>3. /\ line' \in Seq(Jobs) /\ IsInjective(line')
        /\ ToSet(line') = ToSet(line) \ {j}
    BY RemoveFirstFacts DEF AdaFaceTypeOK, LineIsQueued
  <1>4. {k \in Jobs : job'[k] = "queued"} = {k \in Jobs : job[k] = "queued"} \ {j}
    BY DEF AdaFaceTypeOK
  <1>5. LineIsQueued'
    BY <1>1, <1>3, <1>4 DEF LineIsQueued
  <1>6. AdaFaceTypeOK'
    BY <1>2, <1>3 DEF AdaFaceTypeOK
  <1> QED
    BY <1>2, <1>5, <1>6

LEMMA CloseStep == ASSUME AdaFaceInv, CloseWorker PROVE AdaFaceInv'
  <1> USE DEF AdaFaceInv, CloseWorker
  <1> DEFINE left == {j \in Jobs : job[j] = "running"}
  <1>1. UnderWay' = left /\ left \subseteq UnderWay
    BY DEF UnderWay, AdaFaceTypeOK
  <1>2. \A o \in Owners : Of(o)' = {j \in left : owner[j] = o}
    BY <1>1 DEF Of
  <1>3. CapacityIsExact'
    BY <1>1, <1>2 DEF CapacityIsExact, Of
  <1>4. Cardinality(left) \in Nat /\ \A o : Cardinality({j \in left : owner[j] = o}) \in Nat
    <2>1. IsFiniteSet(left) /\ \A o : {j \in left : owner[j] = o} \subseteq left
      BY <1>1, UnderWayIsFinite, FS_Subset
    <2> QED
      BY <2>1, FS_Subset, FS_CardinalityType
  <1>5. LineIsQueued'
    BY <1>1 DEF LineIsQueued, IsInjective, ToSet, AdaFaceTypeOK
  <1>6. AdaFaceTypeOK'
    <2>1. inflight' \in Nat /\ byOwner' \in [Owners -> Nat]
      BY <1>4
    <2>2. job' \in [Jobs -> {"none", "queued", "running", "cancelled"} \cup Results]
      BY DEF AdaFaceTypeOK
    <2>3. line' \in Seq(Jobs)
      OBVIOUS
    <2> QED
      BY <2>1, <2>2, <2>3 DEF AdaFaceTypeOK
  <1> QED
    BY <1>3, <1>5, <1>6

LEMMA AdaFaceSame == ASSUME AdaFaceInv, UNCHANGED adaFaceVars PROVE AdaFaceInv'
  BY DEF AdaFaceInv, AdaFaceTypeOK, LineIsQueued, CapacityIsExact, UnderWay, adaFaceVars

LEMMA CancelStep == ASSUME AdaFaceInv, NEW j \in Jobs, Cancel(j) PROVE AdaFaceInv'
  BY DEF AdaFaceInv, AdaFaceTypeOK, LineIsQueued, CapacityIsExact, UnderWay, Cancel

-----------------------------------------------------------------------------
(* The calls *)

\* A call under way has an owner to submit for; what it did to the registry
\* follows from where it is, until its answer says so.
Reliable(r) ==
    /\ at[r] \in {"decoding", "embedding"} => asked[r] \in SessionIds
    /\ at[r] \in {"off", "checking", "sent", "decoding", "embedding", "aborted"}
          => applied[r] = 0
    /\ at[r] = "ok" => applied[r] = 1
    /\ at[r] # "over" => answer[r] = "none"
    /\ answer[r] = "done" => applied[r] = 1
    /\ answer[r] = "refused" => applied[r] = 0

CallsInv == EnrollmentTypeOK /\ \A r \in Requests : Reliable(r)

EnrollmentInv == RegistryInv /\ AdaFaceInv /\ CallsInv

\* Every step of a call is an operation of the registry or none.
LEMMA CallsAreOperations ==
    ASSUME CallsInv, EnrollmentNext
    PROVE  [RegistryNext]_registryVars
  <1> USE DEF RegistryNext
  <1>1. CASE exercise = "registry"
    BY <1>1 DEF EnrollmentNext
  <1>2. CASE exercise = "calls"
    <2> SUFFICES ASSUME CallsNext PROVE [RegistryNext]_registryVars
      BY <1>2 DEF EnrollmentNext
    <2>1. ASSUME NEW r \in Requests, ChangeHandled(r) PROVE RegistryNext
      BY <2>1 DEF ChangeHandled, Changes
    <2>2. ASSUME NEW r \in Requests, Enrolled(r) PROVE RegistryNext
      BY <2>2 DEF Enrolled, CallsInv, Reliable
    <2>3. ASSUME StreamSteps PROVE RegistryNext
      BY <2>3, EnrollmentAssumption DEF StreamSteps
    <2>4. ASSUME NEW r \in Requests,
                 \/ RequestArrives(r) \/ CallMade(r) \/ CallNotMade(r) \/ Replied(r) \/ CallLost(r)
                 \/ NothingChanged(r) \/ AddBegins(r) \/ ImageDecoded(r) \/ AddRefused(r)
                 \/ NotEnrolled(r) \/ TimesOut(r)
          PROVE  UNCHANGED registryVars
      BY <2>4 DEF RequestArrives, CallMade, CallNotMade, Replied, CallLost, NothingChanged,
                  AddBegins, ImageDecoded, AddRefused, NotEnrolled, TimesOut
    <2>5. ASSUME \/ GatewayCloses \/ WorkerSteps
                 \/ \E j \in FaceJobs : FaceForgotten(j) \/ \E s \in SessionIds : FaceAsked(j, s)
          PROVE  UNCHANGED registryVars
      BY <2>5 DEF GatewayCloses, WorkerSteps, FaceForgotten, FaceAsked
    <2> QED
      BY <2>1, <2>2, <2>3, <2>4, <2>5, Zenon DEF CallsNext
  <1> QED
    BY <1>1, <1>2 DEF EnrollmentNext

\* The steps that the calls, the streams and the thread take on AdaFace.
LEMMA CallsKeepAdaFace ==
    ASSUME CallsInv, AdaFaceInv, EnrollmentNext
    PROVE  AdaFaceInv'
  <1>1. CASE exercise = "registry"
    BY <1>1, AdaFaceSame DEF EnrollmentNext
  <1>2. CASE exercise = "calls"
    <2> SUFFICES ASSUME CallsNext PROVE AdaFaceInv'
      BY <1>2 DEF EnrollmentNext
    <2>1. ASSUME NEW r \in Requests, ImageDecoded(r) PROVE AdaFaceInv'
      BY <2>1, SubmitStep, EnrollmentAssumption DEF ImageDecoded, Moves, CallsInv, Reliable
    <2>2. ASSUME NEW r \in Requests,
                 \/ RequestArrives(r) \/ CallMade(r) \/ CallNotMade(r) \/ Replied(r) \/ CallLost(r)
                 \/ ChangeHandled(r) \/ NothingChanged(r) \/ AddBegins(r) \/ AddRefused(r)
                 \/ Enrolled(r) \/ NotEnrolled(r) \/ TimesOut(r)
          PROVE  UNCHANGED adaFaceVars
      BY <2>2 DEF RequestArrives, CallMade, CallNotMade, Replied, CallLost, ChangeHandled,
                  NothingChanged, AddBegins, AddRefused, Refused, Enrolled, NotEnrolled, TimesOut
    <2>3. ASSUME StreamSteps \/ GatewayCloses PROVE UNCHANGED adaFaceVars
      BY <2>3 DEF StreamSteps, GatewayCloses
    <2>4. ASSUME NEW j \in FaceJobs, NEW s \in SessionIds, FaceAsked(j, s) PROVE AdaFaceInv'
      BY <2>4, SubmitStep, EnrollmentAssumption DEF FaceAsked
    <2>5. ASSUME NEW j \in FaceJobs, FaceForgotten(j) PROVE AdaFaceInv'
      BY <2>5, CancelStep, EnrollmentAssumption DEF FaceForgotten
    <2>6. ASSUME WorkerSteps PROVE AdaFaceInv'
      BY <2>6, StartsStep, EndsStep, ArrivesStep, CloseStep DEF WorkerSteps
    <2> QED
      BY <2>1, <2>2, <2>3, <2>4, <2>5, <2>6, AdaFaceSame, Zenon DEF CallsNext
  <1> QED
    BY <1>1, <1>2 DEF EnrollmentNext

\* A step of one request leaves the others where they are.
LEMMA OneRequest ==
    ASSUME CallsInv, NEW r \in Requests, EnrollmentTypeOK',
           \A q \in Requests \ {r} : /\ at'[q] = at[q] /\ asked'[q] = asked[q]
                                     /\ applied'[q] = applied[q] /\ answer'[q] = answer[q],
           Reliable(r)'
    PROVE  CallsInv'
  BY DEF CallsInv, Reliable

LEMMA CallsSame == ASSUME CallsInv, UNCHANGED callVars PROVE CallsInv'
  BY DEF CallsInv, Reliable, EnrollmentTypeOK, callVars

LEMMA CallsStep ==
    ASSUME CallsInv, EnrollmentNext
    PROVE  CallsInv'
  <1> USE DEF Moves, Answers, Returns, Applies
  <1>1. CASE exercise = "registry"
    BY <1>1, CallsSame DEF EnrollmentNext
  <1>2. CASE exercise = "calls"
    <2> SUFFICES ASSUME CallsNext PROVE CallsInv'
      BY <1>2 DEF EnrollmentNext
    <2>1. ASSUME NEW r \in Requests,
                 \/ RequestArrives(r) \/ CallMade(r) \/ CallNotMade(r) \/ Replied(r) \/ CallLost(r)
          PROVE  CallsInv'
      <3>1. EnrollmentTypeOK'
        BY <2>1 DEF RequestArrives, CallMade, CallNotMade, Replied, CallLost, CallsInv, EnrollmentTypeOK
      <3>2. Reliable(r)'
        BY <2>1 DEF RequestArrives, CallMade, CallNotMade, Replied, CallLost, CallsInv, EnrollmentTypeOK, Reliable
      <3> QED
        BY <2>1, <3>1, <3>2, OneRequest
           DEF RequestArrives, CallMade, CallNotMade, Replied, CallLost, CallsInv, EnrollmentTypeOK
    <2>2. ASSUME NEW r \in Requests,
                 \/ ChangeHandled(r) \/ NothingChanged(r) \/ Enrolled(r) \/ NotEnrolled(r) \/ TimesOut(r)
                 \/ AddRefused(r)
          PROVE  CallsInv'
      <3>1. PICK ok \in BOOLEAN :
              /\ Returns(r, ok)
              /\ applied' = [applied EXCEPT ![r] = IF ok THEN 1 ELSE 0]
              /\ at[r] \in {"sent", "decoding", "embedding"}
        <4>1. applied[r] = 0 /\ applied \in [Requests -> 0..1]
          BY <2>2 DEF ChangeHandled, NothingChanged, Enrolled, NotEnrolled, TimesOut, AddRefused,
                      CallsInv, EnrollmentTypeOK, Reliable
        <4>2. CASE ChangeHandled(r) \/ Enrolled(r)
          <5>1. applied' = [applied EXCEPT ![r] = 1]
            BY <4>1, <4>2 DEF ChangeHandled, Enrolled
          <5> QED
            BY <4>2, <5>1 DEF ChangeHandled, Enrolled
        <4>3. CASE NotEnrolled(r) \/ TimesOut(r) \/ AddRefused(r)
          <5>1. applied' = [applied EXCEPT ![r] = 0]
            BY <4>1, <4>3 DEF NotEnrolled, TimesOut, AddRefused
          <5> QED
            BY <4>3, <5>1 DEF NotEnrolled, TimesOut, AddRefused
        <4>4. CASE NothingChanged(r)
          BY <4>4 DEF NothingChanged
        <4> QED
          BY <2>2, <4>2, <4>3, <4>4
      <3>2. EnrollmentTypeOK'
        BY <3>1 DEF CallsInv, EnrollmentTypeOK
      <3>3. Reliable(r)'
        BY <3>1 DEF CallsInv, EnrollmentTypeOK, Reliable
      <3> QED
        BY <3>1, <3>2, <3>3, OneRequest DEF CallsInv, EnrollmentTypeOK
    <2>3. ASSUME NEW r \in Requests, AddBegins(r) \/ ImageDecoded(r) PROVE CallsInv'
      <3>1. EnrollmentTypeOK'
        BY <2>3 DEF AddBegins, ImageDecoded, CallsInv, EnrollmentTypeOK
      <3>2. Reliable(r)'
        BY <2>3 DEF AddBegins, ImageDecoded, CallsInv, EnrollmentTypeOK, Reliable
      <3> QED
        BY <2>3, <3>1, <3>2, OneRequest DEF AddBegins, ImageDecoded, CallsInv, EnrollmentTypeOK
    <2>4. ASSUME GatewayCloses PROVE CallsInv'
      BY <2>4 DEF GatewayCloses, CallsInv, EnrollmentTypeOK, Reliable
    <2>5. ASSUME \/ StreamSteps \/ WorkerSteps
                 \/ \E j \in FaceJobs : FaceForgotten(j) \/ \E s \in SessionIds : FaceAsked(j, s)
          PROVE  CallsInv'
      BY <2>5, CallsSame DEF StreamSteps, WorkerSteps, FaceForgotten, FaceAsked
    <2> QED
      BY <2>1, <2>2, <2>3, <2>4, <2>5, Zenon DEF CallsNext
  <1> QED
    BY <1>1, <1>2 DEF EnrollmentNext

\* The inductive invariant of registry, AdaFace and calls together.
THEOREM EnrollmentInvariant == EnrollmentSpec => []EnrollmentInv
  <1>1. EnrollmentInit => EnrollmentInv
    <2> SUFFICES ASSUME EnrollmentInit PROVE EnrollmentInv
      OBVIOUS
    <2>1. RegistryInv /\ AdaFaceInv
      BY RegistryInitInv, AdaFaceInitInv DEF EnrollmentInit
    <2>2. CallsInv
      BY DEF EnrollmentInit, CallsInv, EnrollmentTypeOK, Reliable
    <2> QED
      BY <2>1, <2>2 DEF EnrollmentInv
  <1>2. EnrollmentInv /\ [EnrollmentNext]_enrollmentVars => EnrollmentInv'
    <2>1. ASSUME EnrollmentInv, EnrollmentNext PROVE EnrollmentInv'
      BY <2>1, CallsAreOperations, RegistryStepInv, CallsKeepAdaFace, CallsStep DEF EnrollmentInv
    <2>2. ASSUME EnrollmentInv, UNCHANGED enrollmentVars PROVE EnrollmentInv'
      BY <2>2, RegistryStepInv, AdaFaceSame, CallsSame DEF EnrollmentInv, enrollmentVars
    <2> QED
      BY <2>1, <2>2
  <1> QED
    BY <1>1, <1>2, PTL DEF EnrollmentSpec

\* Refinement: from a client's call down to the registry, nothing is done to
\* sessions and whitelists but the registry's own operations, one at a time.
THEOREM EnrollmentUsesTheRegistry == EnrollmentSpec => RegistrySpec
  <1>1. EnrollmentInit => RegistryInit
    BY DEF EnrollmentInit
  <1>2. EnrollmentInv /\ [EnrollmentNext]_enrollmentVars => [RegistryNext]_registryVars
    BY CallsAreOperations DEF EnrollmentInv, enrollmentVars
  <1> QED
    BY <1>1, <1>2, EnrollmentInvariant, PTL DEF EnrollmentSpec, RegistrySpec

\* AdaFace's counters are the jobs under way, in all and of each session, for
\* any capacity and any number of jobs.
THEOREM EnrollmentCapacity == EnrollmentSpec => []CapacityIsExact
  <1>1. EnrollmentInv => CapacityIsExact
    BY DEF EnrollmentInv, AdaFaceInv
  <1> QED
    BY <1>1, EnrollmentInvariant, PTL

\* Success means that the call was done, once, a refusal that it was not,
\* whatever timeouts, deletions and late embeddings came between.
THEOREM EnrollmentAnswers == EnrollmentSpec => []AnswersAreTrue
  <1>1. EnrollmentInv => AnswersAreTrue
    BY DEF EnrollmentInv, CallsInv, Reliable, EnrollmentTypeOK, AnswersAreTrue
  <1> QED
    BY <1>1, EnrollmentInvariant, PTL
=============================================================================
