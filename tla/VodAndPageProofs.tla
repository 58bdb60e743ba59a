---------------------------- MODULE VodAndPageProofs ----------------------------
(***************************************************************************)
(* Proofs about VodService, for any clients, ids, limits and starts, and about *)
(* the browser's page, for any window, sequences, runs, sessions and files.     *)
(*                                                                         *)
(* The service: a record is processing as long as its task has not ended; such *)
(* a record is neither pruned nor replaced, and what ends a task, or changes    *)
(* what a record says later, wakes the streams that sleep on it.  The page:     *)
(* each method of App keeps its fields sound, that is, requests in flight are   *)
(* the last that were sent and no result overtakes another, so that a handler    *)
(* keeps them sound whichever methods it calls.                             *)
(***************************************************************************)
EXTENDS VodService, BrowserSessions, BrowserForms, FiniteSetTheorems, SequenceTheorems, TLAPS

Unfinished == Live \cup {"stillborn"}

\* A record is processing exactly as long as its task has not ended.
StateFollowsTask ==
    \A h \in DOMAIN job : job[h].state = Processing <=> job[h].task \in Unfinished

\* No start and no pruning takes a task that has not ended out of _jobs.
UnfinishedAreListed ==
    \A h \in DOMAIN job : job[h].task \in Unfinished => jobs[job[h].id] = h

Running == {h \in DOMAIN job : IsLive(h)}

\* A call names a handle, and CancelVodJob cleans up when the task has ended.
CallsHaveHandles ==
    \A c \in Callers : rpc[c].op # "none" =>
        /\ rpc[c].on \in DOMAIN job
        /\ rpc[c].op = "cleanup" => job[rpc[c].on].task \in {"none", "over"}

\* What a stream has sent is the state of its handle, unless the revision is
\* new; and it sleeps on the newest one only, of a job that goes on.
WatchersKeepUp ==
    \A w \in Watchers : watch[w].at # "no" =>
        /\ watch[w].on \in DOMAIN job
        /\ watch[w].sent # "none"
        /\ watch[w].seen => watch[w].sent = job[watch[w].on].state
        /\ watch[w].at = "waiting" => watch[w].seen /\ watch[w].sent = Processing

ServiceInv ==
    /\ ServiceTypeOK
    /\ StateFollowsTask
    /\ UnfinishedAreListed
    /\ Cardinality(Running) <= MaxJobs
    /\ CallsHaveHandles
    /\ WatchersKeepUp

-----------------------------------------------------------------------------
(* Records *)

LEMMA TypeFacts ==
    ASSUME ServiceTypeOK
    PROVE  /\ made \in Nat /\ MaxStarts \in Nat /\ DOMAIN job = 1..made
           /\ job \in Seq(Handle) /\ Len(job) = made
           /\ \A h \in DOMAIN job : job[h] \in Handle
           /\ IsFiniteSet(Running)
  <1>1. made \in Nat /\ MaxStarts \in Nat /\ job \in [1..made -> Handle]
    BY ServiceAssumption DEF ServiceTypeOK
  <1>2. job \in Seq(Handle) /\ Len(job) = made
    BY <1>1
  <1>3. IsFiniteSet(1..made)
    BY <1>1, FS_Interval
  <1>4. IsFiniteSet(Running)
    BY <1>1, <1>3, FS_Subset DEF Running
  <1> QED
    BY <1>1, <1>2, <1>4

\* Pruning drops finished records only.
LEMMA PrunedFacts ==
    ASSUME NEW js, NEW hs, NEW st, NEW i \in JobIds
    PROVE  /\ Pruned(js, hs, st)[i] \in {js[i], None}
           /\ js[i] # None /\ hs[js[i]].state \notin Prunable => Pruned(js, hs, st)[i] = js[i]
           /\ Pruned(js, hs, st) = [k \in JobIds |-> Pruned(js, hs, st)[k]]
  <1> DEFINE Age(k) == CHOOSE n \in DOMAIN st : st[n] = js[k]
             Finished(ids) == {k \in ids : hs[js[k]].state \in Prunable}
             MayGo(ids) == {k \in Finished(ids) : hs[js[k]].task \notin Live /\ ~Watched(js[k])}
             Held == {k \in JobIds : js[k] # None}
             Kept == Held \ {k \in MayGo(Held) : Age(k) <= aged}
             excess == Cardinality(Finished(Kept)) - MaxRetained
             Evicted == {k \in MayGo(Kept) :
                            Cardinality({n \in MayGo(Kept) : Age(n) < Age(k)}) < excess}
  <1>1. Pruned(js, hs, st) = [k \in JobIds |-> IF k \in Kept \ Evicted THEN js[k] ELSE None]
    BY DEF Pruned
  <1>2. i \notin Finished(Held) /\ i \in Held => i \in Kept \ Evicted
    <2>1. MayGo(Held) \subseteq Finished(Held) /\ Kept \subseteq Held
      OBVIOUS
    <2>2. Evicted \subseteq Finished(Held)
      OBVIOUS
    <2> QED
      BY <2>1, <2>2
  <1> HIDE DEF Kept, Evicted
  <1> QED
    BY <1>1, <1>2

LEMMA RecordsFacts ==
    ASSUME ServiceTypeOK
    PROVE  /\ Records \in [JobIds -> 0..made]
           /\ \A i \in JobIds : Records[i] # None => Records[i] = jobs[i] /\ Records[i] \in DOMAIN job
           /\ \A i \in JobIds : jobs[i] # None /\ job[jobs[i]].state = Processing
                                    => Records[i] = jobs[i]
  <1>1. \A i \in JobIds : Records[i] \in {jobs[i], None}
    BY PrunedFacts DEF Records
  <1>2. Records = [i \in JobIds |-> Records[i]]
    <2>1. CASE JobIds = {}
      BY <2>1 DEF Records, Pruned
    <2>2. CASE JobIds # {}
      BY <2>2, PrunedFacts DEF Records
    <2> QED
      BY <2>1, <2>2
  <1>3. jobs \in [JobIds -> 0..made] /\ 0 \in 0..made /\ DOMAIN job = 1..made /\ made \in Nat
    BY TypeFacts DEF ServiceTypeOK
  <1>4. Records \in [JobIds -> 0..made]
    BY <1>1, <1>2, <1>3 DEF None
  <1>5. \A i \in JobIds : jobs[i] # None /\ job[jobs[i]].state = Processing => Records[i] = jobs[i]
    BY PrunedFacts DEF Records, Prunable, Processing, Terminal
  <1> QED
    BY <1>1, <1>3, <1>4, <1>5 DEF None

\* Steps that make no handle: no task begins, and the record says so.
LEMMA JobsKeep ==
    ASSUME ServiceInv, made' = made, DOMAIN job' = DOMAIN job, jobs' \in {jobs, Records},
           \A h \in DOMAIN job :
              /\ job'[h].id = job[h].id
              /\ job'[h].task \in Unfinished => job[h].task \in Unfinished
              /\ job'[h].task \in Live => job[h].task \in Live
              /\ job'[h].state = Processing <=> job'[h].task \in Unfinished
    PROVE  StateFollowsTask' /\ UnfinishedAreListed' /\ Cardinality(Running)' <= MaxJobs
  <1>1. StateFollowsTask'
    BY DEF StateFollowsTask, Unfinished, Live
  <1>2. UnfinishedAreListed'
    <2> SUFFICES ASSUME NEW h \in DOMAIN job, job'[h].task \in Unfinished
                 PROVE  jobs'[job[h].id] = h
      BY DEF UnfinishedAreListed, Unfinished, Live
    <2>1. jobs[job[h].id] = h /\ job[h].state = Processing
      BY DEF ServiceInv, UnfinishedAreListed, StateFollowsTask
    <2>2. job[h].id \in JobIds /\ h # None
      BY TypeFacts DEF ServiceInv, Handle, None
    <2>3. Records[job[h].id] = h
      BY <2>1, <2>2, RecordsFacts DEF ServiceInv
    <2> QED
      BY <2>1, <2>3
  <1>3. Cardinality(Running)' <= MaxJobs
    <2>1. Running' \subseteq Running
      BY DEF Running, IsLive, Live
    <2>2. IsFiniteSet(Running)
      BY TypeFacts DEF ServiceInv
    <2>3. /\ Cardinality(Running') <= Cardinality(Running)
          /\ Cardinality(Running') \in Nat /\ Cardinality(Running) \in Nat
      BY <2>1, <2>2, FS_Subset, FS_CardinalityType
    <2>4. Cardinality(Running) <= MaxJobs /\ MaxJobs \in Nat
      BY ServiceAssumption DEF ServiceInv
    <2> QED
      BY <2>3, <2>4
  <1> QED
    BY <1>1, <1>2, <1>3

\* A start finds room, and its id's record is not of a task that goes on.
LEMMA JobsGrow ==
    ASSUME ServiceInv, NEW i \in JobIds, MayStart(i), made' = made + 1, made < MaxStarts,
           NEW new \in Handle, job' = Append(job, new), new.id = i,
           new.state = Processing <=> new.task \in Unfinished,
           NEW st, jobs' = Pruned([Records EXCEPT ![i] = made'], job', st)
    PROVE  /\ StateFollowsTask' /\ UnfinishedAreListed' /\ Cardinality(Running)' <= MaxJobs
           /\ job' \in [1..made' -> Handle] /\ jobs' \in [JobIds -> 0..made']
           /\ made' \in 0..MaxStarts
           /\ \A h \in DOMAIN job : h \in DOMAIN job' /\ job'[h] = job[h]
           /\ made' \in DOMAIN job' /\ job'[made'] = new
  <1>1. /\ made \in Nat /\ DOMAIN job = 1..made /\ job \in Seq(Handle) /\ Len(job) = made
        /\ MaxStarts \in Nat
    BY TypeFacts DEF ServiceInv
  <1>2. /\ job' \in Seq(Handle) /\ Len(job') = made + 1
        /\ \A h \in 1..made : job'[h] = job[h]
        /\ job'[made + 1] = new
    BY <1>1
  <1>3. DOMAIN job' = 1..(made + 1) /\ job' \in [1..made' -> Handle]
    BY <1>2, LenProperties
  <1>4. \A h \in DOMAIN job : h \in DOMAIN job' /\ job'[h] = job[h]
    BY <1>1, <1>2, <1>3
  <1>5. made' \in DOMAIN job' /\ job'[made'] = new
    BY <1>1, <1>2, <1>3
  <1>6. \A h \in DOMAIN job' : h \in DOMAIN job \/ h = made'
    BY <1>1, <1>3
  <1> DEFINE js == [Records EXCEPT ![i] = made']
  <1>7. Records \in [JobIds -> 0..made]
    BY RecordsFacts DEF ServiceInv
  <1>8. /\ js \in [JobIds -> 0..made'] /\ js[i] = made'
        /\ \A k \in JobIds \ {i} : js[k] = Records[k]
    BY <1>1, <1>7
  <1>9. /\ \A k \in JobIds : jobs'[k] \in {js[k], None}
        /\ \A k \in JobIds : js[k] # None /\ job'[js[k]].state \notin Prunable => jobs'[k] = js[k]
        /\ jobs' = [k \in JobIds |-> jobs'[k]]
    <2>1. jobs' = Pruned(js, job', st)
      OBVIOUS
    <2> HIDE DEF js
    <2>2. \A k \in JobIds : jobs'[k] \in {js[k], None}
      BY <2>1, PrunedFacts
    <2>3. ASSUME NEW k \in JobIds, js[k] # None, job'[js[k]].state \notin Prunable
          PROVE  jobs'[k] = js[k]
      <3> DEFINE hs == job'
      <3>1. hs[js[k]].state \notin Prunable /\ jobs' = Pruned(js, hs, st)
        BY <2>1, <2>3
      <3> HIDE DEF hs
      <3> QED
        BY <2>3, <3>1, PrunedFacts
    <2>4. jobs' = [k \in JobIds |-> jobs'[k]]
      <3> DEFINE hs == job'
      <3>1. jobs' = Pruned(js, hs, st)
        BY <2>1
      <3> HIDE DEF hs
      <3>2. Pruned(js, hs, st) = [k \in JobIds |-> Pruned(js, hs, st)[k]]
        BY PrunedFacts
      <3> QED
        BY <3>1, <3>2
    <2> QED
      BY <2>2, <2>3, <2>4
  <1> HIDE DEF js
  <1>10. jobs' \in [JobIds -> 0..made']
    <2>1. \A k \in JobIds : jobs'[k] \in 0..made'
      <3>1. \A k \in JobIds : js[k] \in 0..made'
        BY <1>8
      <3>2. None \in 0..made'
        BY <1>1 DEF None
      <3> QED
        BY <1>9, <3>1, <3>2
    <2> QED
      BY <1>9, <2>1
  <1>11. StateFollowsTask'
    BY <1>4, <1>5, <1>6 DEF ServiceInv, StateFollowsTask, Unfinished, Live
  <1>12. UnfinishedAreListed'
    <2> SUFFICES ASSUME NEW h \in DOMAIN job', job'[h].task \in Unfinished
                 PROVE  jobs'[job'[h].id] = h
      BY DEF UnfinishedAreListed, Unfinished, Live
    <2>1. job'[h].state = Processing /\ Processing \notin Prunable
      BY <1>11 DEF StateFollowsTask, Unfinished, Live, Processing, Prunable, Terminal
    <2>2. CASE h = made'
      BY <1>1, <1>5, <1>8, <1>9, <2>1, <2>2 DEF None
    <2>3. CASE h \in DOMAIN job
      <3>1. job'[h] = job[h] /\ job[h].id \in JobIds /\ h # None
        BY <1>1, <1>4, <2>3, TypeFacts DEF ServiceInv, Handle, None
      <3>2. jobs[job[h].id] = h /\ job[h].state = Processing
        BY <2>1, <2>3, <3>1 DEF ServiceInv, UnfinishedAreListed
      <3>3. Records[job[h].id] = h
        BY <3>1, <3>2, RecordsFacts DEF ServiceInv
      <3>4. job[h].id # i
        BY <3>1, <3>2, <3>3 DEF MayStart, Active
      <3>5. js[job[h].id] = h
        BY <1>8, <3>1, <3>3, <3>4
      <3>6. jobs'[job[h].id] = h
        BY <1>9, <2>1, <3>1, <3>5
      <3> QED
        BY <3>1, <3>6
    <2> QED
      BY <1>6, <2>2, <2>3
  <1>13. Cardinality(Running)' <= MaxJobs
    <2> DEFINE IdOf == [h \in Running |-> job[h].id]
    <2>1. \A h \in Running : /\ h \in DOMAIN job /\ job[h].id \in JobIds /\ h # None
                             /\ jobs[job[h].id] = h /\ job[h].state = Processing
      BY <1>1, TypeFacts
         DEF ServiceInv, Running, IsLive, Unfinished, UnfinishedAreListed, StateFollowsTask,
             Handle, None
    <2>2. \A h \in Running : Records[job[h].id] = h
      BY <2>1, RecordsFacts DEF ServiceInv
    <2>3. \A h \in Running : job[h].id \in Active
      BY <2>1, <2>2 DEF Active
    <2>4. IdOf \in Injection(Running, Active)
      <3>1. IdOf \in [Running -> Active]
        BY <2>3
      <3>2. \A g, h \in Running : IdOf[g] = IdOf[h] => g = h
        BY <2>1
      <3> QED
        BY <3>1, <3>2 DEF Injection, IsInjective
    <2>5. IsFiniteSet(Active) /\ IsFiniteSet(Running)
      BY TypeFacts, ServiceAssumption, FS_Subset DEF Active, ServiceInv
    <2>6. Cardinality(Running) <= Cardinality(Active)
      BY <2>4, <2>5, FS_Injection
    <2>7. Running' \subseteq Running \cup {made'}
      BY <1>4, <1>6 DEF Running, IsLive
    <2>8. /\ IsFiniteSet(Running \cup {made'})
          /\ Cardinality(Running \cup {made'}) <= Cardinality(Running) + 1
      <3>1. Cardinality(Running) \in Nat
        BY <2>5, FS_CardinalityType
      <3>2. /\ IsFiniteSet(Running \cup {made'})
            /\ Cardinality(Running \cup {made'}) =
                  IF made' \in Running THEN Cardinality(Running) ELSE Cardinality(Running) + 1
        BY <2>5, FS_AddElement
      <3> QED
        BY <3>1, <3>2
    <2>9. Cardinality(Running') <= Cardinality(Running \cup {made'})
      BY <2>7, <2>8, FS_Subset
    <2>10. /\ Cardinality(Running) \in Nat /\ Cardinality(Active) \in Nat
           /\ Cardinality(Running \cup {made'}) \in Nat /\ Cardinality(Running') \in Nat
      BY <2>5, <2>7, <2>8, FS_CardinalityType, FS_Subset
    <2>11. Cardinality(Active) < MaxJobs /\ MaxJobs \in Nat
      BY ServiceAssumption DEF MayStart
    <2> QED
      BY <2>6, <2>8, <2>9, <2>10, <2>11
  <1>14. made' \in 0..MaxStarts
    BY <1>1
  <1> QED
    BY <1>3, <1>4, <1>5, <1>10, <1>11, <1>12, <1>13, <1>14

LEMMA StampedType ==
    ASSUME ServiceTypeOK, NEW h \in 1..made, NEW state
    PROVE  /\ Stamped(h, state) \in Seq(1..made)
           /\ aged \in 0..Len(Stamped(h, state))
  <1>1. stamped \in Seq(1..made) /\ aged \in 0..Len(stamped)
    BY DEF ServiceTypeOK
  <1>2. /\ Append(stamped, h) \in Seq(1..made)
        /\ Len(Append(stamped, h)) = Len(stamped) + 1
    BY <1>1
  <1>3. Len(stamped) \in Nat
    BY <1>1
  <1>4. aged \in 0..(Len(stamped) + 1)
    BY <1>1, <1>3
  <1> QED
    BY <1>1, <1>2, <1>4 DEF Stamped

-----------------------------------------------------------------------------
(* Streams and calls *)

\* A handle's notify() wakes its sleepers, and makes the others look again.
LEMMA WatchersNotified ==
    ASSUME ServiceInv, NEW h \in DOMAIN job, watch' = Notified(h), DOMAIN job' = DOMAIN job,
           \A g \in DOMAIN job \ {h} : job'[g].state = job[g].state
    PROVE  WatchersKeepUp' /\ watch' \in [Watchers -> Watch]
  <1>1. \A w \in Watchers : watch[w] \in Watch
    BY DEF ServiceInv, ServiceTypeOK
  <1>2. ASSUME NEW w \in Watchers
        PROVE  /\ watch'[w] \in Watch
               /\ watch[w].on # h => watch'[w] = watch[w]
               /\ watch[w].on = h =>
                     /\ watch'[w].on = h /\ watch'[w].sent = watch[w].sent
                     /\ ~watch'[w].seen /\ watch'[w].at # "waiting"
                     /\ watch'[w].at # "no" => watch[w].at # "no"
    <2>1. CASE watch[w].on # h
      BY <1>1, <2>1 DEF Notified
    <2>2. CASE watch[w].on = h
      <3>1. watch'[w] = [watch[w] EXCEPT !.seen = FALSE,
                             !.at = IF watch[w].at = "waiting" THEN "woken" ELSE watch[w].at]
        BY <2>2 DEF Notified
      <3>2. watch[w] \in Watch
        BY <1>1
      <3> QED
        BY <2>2, <3>1, <3>2 DEF Watch
    <2> QED
      BY <2>1, <2>2
  <1>3. watch' \in [Watchers -> Watch]
    BY <1>2 DEF Notified
  <1>4. WatchersKeepUp'
    <2> SUFFICES ASSUME NEW w \in Watchers, watch'[w].at # "no"
                 PROVE  /\ watch'[w].on \in DOMAIN job'
                        /\ watch'[w].sent # "none"
                        /\ watch'[w].seen => watch'[w].sent = job'[watch'[w].on].state
                        /\ watch'[w].at = "waiting" => watch'[w].seen /\ watch'[w].sent = Processing
      BY DEF WatchersKeepUp, Processing
    <2>1. CASE watch[w].on # h
      BY <1>2, <2>1 DEF ServiceInv, WatchersKeepUp
    <2>2. CASE watch[w].on = h
      BY <1>2, <2>2 DEF ServiceInv, WatchersKeepUp
    <2> QED
      BY <2>1, <2>2
  <1> QED
    BY <1>3, <1>4

\* While no record says anything else, a stream has only its own steps.
LEMMA WatchersStay ==
    ASSUME ServiceInv, DOMAIN job \subseteq DOMAIN job',
           \A h \in DOMAIN job : job'[h].state = job[h].state,
           \A w \in Watchers : \/ watch'[w] = watch[w]
                               \/ watch'[w].at = "no"
                               \/ /\ watch'[w].on \in DOMAIN job
                                  /\ watch'[w].sent = job[watch'[w].on].state
                                  /\ watch'[w].at # "waiting"
                               \/ /\ watch[w].at # "no" /\ watch[w].seen
                                  /\ watch[w].sent = Processing
                                  /\ watch'[w] = [watch[w] EXCEPT !.at = "waiting"]
    PROVE  WatchersKeepUp'
  <1> SUFFICES ASSUME NEW w \in Watchers, watch'[w].at # "no"
               PROVE  /\ watch'[w].on \in DOMAIN job'
                      /\ watch'[w].sent # "none"
                      /\ watch'[w].seen => watch'[w].sent = job'[watch'[w].on].state
                      /\ watch'[w].at = "waiting" => watch'[w].seen /\ watch'[w].sent = Processing
    BY DEF WatchersKeepUp, Processing
  <1>1. \A h \in DOMAIN job : job[h].state \in {Processing} \cup Terminal
    BY TypeFacts DEF ServiceInv, Handle
  <1>2. CASE watch'[w] = watch[w]
    BY <1>2 DEF ServiceInv, WatchersKeepUp
  <1>3. CASE /\ watch'[w].on \in DOMAIN job
             /\ watch'[w].sent = job[watch'[w].on].state
             /\ watch'[w].at # "waiting"
    BY <1>1, <1>3 DEF Processing, Terminal
  <1>4. CASE /\ watch[w].at # "no" /\ watch[w].seen
             /\ watch[w].sent = Processing
             /\ watch'[w] = [watch[w] EXCEPT !.at = "waiting"]
    <2>1. watch[w] \in Watch
      BY DEF ServiceInv, ServiceTypeOK
    <2>2. /\ watch'[w].on = watch[w].on /\ watch'[w].sent = Processing
          /\ watch'[w].seen = watch[w].seen
      BY <1>4, <2>1 DEF Watch
    <2> QED
      BY <1>4, <2>2 DEF ServiceInv, WatchersKeepUp, Processing
  <1> QED
    BY <1>2, <1>3, <1>4

LEMMA CallsKeep ==
    ASSUME ServiceInv, DOMAIN job \subseteq DOMAIN job',
           \A h \in DOMAIN job :
              job[h].task \in {"none", "over"} => job'[h].task \in {"none", "over"},
           \A c \in Callers :
              \/ rpc'[c] = rpc[c]
              \/ rpc'[c].op = "none"
              \/ /\ rpc'[c].on \in DOMAIN job'
                 /\ rpc'[c].op = "cleanup" => job'[rpc'[c].on].task \in {"none", "over"}
    PROVE  CallsHaveHandles'
  BY DEF ServiceInv, CallsHaveHandles

-----------------------------------------------------------------------------
(* Steps *)

\* A task comes to its end.
LEMMA EndsInv ==
    ASSUME ServiceInv, NEW h \in DOMAIN job, NEW state \in Terminal, Ends(h, state)
    PROVE  ServiceInv'
  <1>1. /\ UNCHANGED <<made, jobs, aged, rpc, phase>>
        /\ stamped' = Stamped(h, state) /\ watch' = Notified(h)
    BY DEF Ends
  <1>2. job \in [1..made -> Handle] /\ DOMAIN job = 1..made
    BY TypeFacts DEF ServiceInv, ServiceTypeOK
  <1>3. /\ job' = [job EXCEPT ![h] = job'[h]]
        /\ job'[h] = [job[h] EXCEPT !.state = state, !.task = "over",
                                    !.stop = FALSE, !.cancelling = FALSE, !.admitted = TRUE]
    BY <1>2 DEF Ends
  <1>4. /\ job'[h] \in Handle /\ job'[h].id = job[h].id
        /\ job'[h].state = state /\ job'[h].task = "over"
    <2>1. job[h] \in Handle /\ state \in {Processing} \cup Terminal
      BY <1>2
    <2> QED
      BY <1>3, <2>1 DEF Handle
  <1>5. /\ job' \in [1..made -> Handle] /\ DOMAIN job' = DOMAIN job
        /\ \A g \in DOMAIN job \ {h} : job'[g] = job[g]
    BY <1>2, <1>3, <1>4
  <1>6. ServiceTypeOK'
    <2>1. stamped' \in Seq(1..made) /\ aged \in 0..Len(stamped')
      BY <1>1, <1>2, StampedType DEF ServiceInv
    <2>2. watch' \in [Watchers -> Watch]
      BY <1>1, <1>5, WatchersNotified
    <2> QED
      BY <1>1, <1>5, <2>1, <2>2 DEF ServiceInv, ServiceTypeOK
  <1>7. StateFollowsTask' /\ UnfinishedAreListed' /\ Cardinality(Running)' <= MaxJobs
    <2>1. ASSUME NEW g \in DOMAIN job
          PROVE  /\ job'[g].id = job[g].id
                 /\ job'[g].task \in Unfinished => job[g].task \in Unfinished
                 /\ job'[g].task \in Live => job[g].task \in Live
                 /\ job'[g].state = Processing <=> job'[g].task \in Unfinished
      <3>1. CASE g = h
        BY <1>4, <3>1 DEF Unfinished, Live, Processing, Terminal
      <3>2. CASE g # h
        BY <1>5, <3>2 DEF ServiceInv, StateFollowsTask
      <3> QED
        BY <3>1, <3>2
    <2> QED
      BY <1>1, <1>5, <2>1, JobsKeep
  <1>8. CallsHaveHandles'
    <2>1. \A g \in DOMAIN job :
              job[g].task \in {"none", "over"} => job'[g].task \in {"none", "over"}
      BY <1>4, <1>5
    <2> QED
      BY <1>1, <1>5, <2>1, CallsKeep
  <1>9. WatchersKeepUp'
    BY <1>1, <1>5, WatchersNotified
  <1> QED
    BY <1>6, <1>7, <1>8, <1>9 DEF ServiceInv

\* A task begins, is validated, or is found to have been cancelled before.
LEMMA TaskInv ==
    ASSUME ServiceInv, NEW h \in DOMAIN job, FirstStep(h) \/ Validated(h) \/ NeverBegins(h)
    PROVE  ServiceInv'
  <1>1. UNCHANGED <<jobs, made, stamped, aged, watch, rpc, phase>>
    BY DEF FirstStep, Validated, NeverBegins
  <1>2. job \in [1..made -> Handle] /\ DOMAIN job = 1..made
    BY TypeFacts DEF ServiceInv, ServiceTypeOK
  <1>3. /\ job[h].task \in Live
        /\ job' = [job EXCEPT ![h] = job'[h]]
        /\ job'[h] \in Handle
        /\ job'[h].id = job[h].id /\ job'[h].state = job[h].state
        /\ job'[h].task \in Unfinished
        /\ job'[h].task \in Live => job[h].task \in Live
    <2>1. job[h] \in Handle
      BY <1>2
    <2>2. CASE FirstStep(h)
      <3>1. job'[h] = [job[h] EXCEPT !.task = "validating"] /\ job[h].task = "new"
            /\ job' = [job EXCEPT ![h] = job'[h]]
        BY <1>2, <2>2 DEF FirstStep
      <3> QED
        BY <2>1, <3>1 DEF Handle, Live, Unfinished
    <2>3. CASE Validated(h)
      <3>1. job'[h] = [job[h] EXCEPT !.task = "running", !.admitted = TRUE]
            /\ job[h].task = "validating" /\ job' = [job EXCEPT ![h] = job'[h]]
        BY <1>2, <2>3 DEF Validated
      <3> QED
        BY <2>1, <3>1 DEF Handle, Live, Unfinished
    <2>4. CASE NeverBegins(h)
      <3>1. job'[h] = [job[h] EXCEPT !.task = "stillborn"] /\ job[h].task = "new"
            /\ job' = [job EXCEPT ![h] = job'[h]]
        BY <1>2, <2>4 DEF NeverBegins
      <3> QED
        BY <2>1, <3>1 DEF Handle, Live, Unfinished
    <2> QED
      BY <2>2, <2>3, <2>4
  <1>4. /\ job' \in [1..made -> Handle] /\ DOMAIN job' = DOMAIN job
        /\ \A g \in DOMAIN job \ {h} : job'[g] = job[g]
    BY <1>2, <1>3
  <1>5. ServiceTypeOK'
    BY <1>1, <1>4 DEF ServiceInv, ServiceTypeOK
  <1>6. ASSUME NEW g \in DOMAIN job
        PROVE  /\ job'[g].id = job[g].id
               /\ job'[g].task \in Unfinished => job[g].task \in Unfinished
               /\ job'[g].task \in Live => job[g].task \in Live
               /\ job'[g].state = Processing <=> job'[g].task \in Unfinished
               /\ job'[g].state = job[g].state
               /\ job[g].task \in {"none", "over"} => job'[g].task \in {"none", "over"}
    <2>1. CASE g = h
      BY <1>3, <2>1 DEF ServiceInv, StateFollowsTask, Unfinished, Live
    <2>2. CASE g # h
      BY <1>4, <2>2 DEF ServiceInv, StateFollowsTask
    <2> QED
      BY <2>1, <2>2
  <1>7. StateFollowsTask' /\ UnfinishedAreListed' /\ Cardinality(Running)' <= MaxJobs
    BY <1>1, <1>4, <1>6, JobsKeep
  <1>8. CallsHaveHandles'
    BY <1>1, <1>4, <1>6, CallsKeep
  <1>9. WatchersKeepUp'
    BY <1>1, <1>4, <1>6, WatchersStay
  <1> QED
    BY <1>5, <1>7, <1>8, <1>9 DEF ServiceInv

\* A step that leaves ids, states and tasks of the handles, and their streams,
\* alone: a call asks a task to pause or cancels it, and may have pruned.
LEMMA AsksInv ==
    ASSUME ServiceInv, made' = made, jobs' \in {jobs, Records},
           DOMAIN job' = DOMAIN job,
           \A h \in DOMAIN job :
              \/ job'[h] = job[h]
              \/ job'[h] = [job[h] EXCEPT !.stop = TRUE]
              \/ \E b \in BOOLEAN : job'[h] = [job[h] EXCEPT !.cancelling = b],
           job' = [h \in DOMAIN job |-> job'[h]],
           stamped' = stamped, aged' \in 0..Len(stamped),
           watch' \in [Watchers -> Watch],
           \A w \in Watchers : \/ watch'[w] = watch[w]
                               \/ watch'[w].at = "no"
                               \/ /\ watch'[w].on \in DOMAIN job
                                  /\ watch'[w].sent = job[watch'[w].on].state
                                  /\ watch'[w].at # "waiting"
                               \/ /\ watch[w].at # "no" /\ watch[w].seen
                                  /\ watch[w].sent = Processing
                                  /\ watch'[w] = [watch[w] EXCEPT !.at = "waiting"],
           rpc' \in [Callers -> [op : Calls, on : 0..made]],
           \A c \in Callers :
              \/ rpc'[c] = rpc[c]
              \/ rpc'[c].op = "none"
              \/ /\ rpc'[c].on \in DOMAIN job
                 /\ rpc'[c].op = "cleanup" => job[rpc'[c].on].task \in {"none", "over"},
           phase' \in {"serving", "stopped"}
    PROVE  ServiceInv'
  <1>1. \A h \in DOMAIN job : job[h] \in Handle
    BY TypeFacts DEF ServiceInv
  <1>2. ASSUME NEW h \in DOMAIN job
        PROVE  /\ job'[h] \in Handle
               /\ job'[h].id = job[h].id /\ job'[h].state = job[h].state
               /\ job'[h].task = job[h].task
    <2>1. job[h] \in Handle
      BY <1>1
    <2>2. CASE job'[h] = job[h]
      BY <2>1, <2>2
    <2>3. CASE job'[h] = [job[h] EXCEPT !.stop = TRUE]
      BY <2>1, <2>3 DEF Handle
    <2>4. CASE \E b \in BOOLEAN : job'[h] = [job[h] EXCEPT !.cancelling = b]
      BY <2>1, <2>4 DEF Handle
    <2> QED
      BY <2>2, <2>3, <2>4
  <1>3. ServiceTypeOK'
    <2>1. jobs' \in [JobIds -> 0..made]
      BY RecordsFacts DEF ServiceInv, ServiceTypeOK
    <2>2. job' \in [1..made -> Handle]
      <3>1. DOMAIN job = 1..made
        BY TypeFacts DEF ServiceInv
      <3> QED
        BY <1>2, <3>1
    <2> QED
      BY <2>1, <2>2 DEF ServiceInv, ServiceTypeOK
  <1>4. StateFollowsTask' /\ UnfinishedAreListed' /\ Cardinality(Running)' <= MaxJobs
    <2>1. \A h \in DOMAIN job :
              /\ job'[h].id = job[h].id
              /\ job'[h].task \in Unfinished => job[h].task \in Unfinished
              /\ job'[h].task \in Live => job[h].task \in Live
              /\ job'[h].state = Processing <=> job'[h].task \in Unfinished
      BY <1>2 DEF ServiceInv, StateFollowsTask
    <2> QED
      BY <2>1, JobsKeep
  <1>5. CallsHaveHandles'
    <2>1. \A h \in DOMAIN job :
              job[h].task \in {"none", "over"} => job'[h].task \in {"none", "over"}
      BY <1>2
    <2>2. \A c \in Callers :
              \/ rpc'[c] = rpc[c]
              \/ rpc'[c].op = "none"
              \/ /\ rpc'[c].on \in DOMAIN job'
                 /\ rpc'[c].op = "cleanup" => job'[rpc'[c].on].task \in {"none", "over"}
      BY <1>2
    <2> QED
      BY <2>1, <2>2, CallsKeep
  <1>6. WatchersKeepUp'
    BY <1>2, WatchersStay
  <1> QED
    BY <1>3, <1>4, <1>5, <1>6 DEF ServiceInv

LEMMA StartsInv ==
    ASSUME ServiceInv, NEW c \in Callers, NEW i \in JobIds,
           StartVodJob(c, i) \/ StartWithoutWhitelist(c, i)
    PROVE  ServiceInv'
  <1>1. made \in Nat /\ DOMAIN job = 1..made
    BY TypeFacts DEF ServiceInv
  <1>2. CASE StartVodJob(c, i)
    <2> DEFINE new == NewHandle(i, Processing, "new", FALSE)
    <2>1. /\ new \in Handle /\ new.id = i
          /\ new.state = Processing <=> new.task \in Unfinished
      BY DEF NewHandle, Handle, Live, Unfinished
    <2>2. /\ MayStart(i) /\ made < MaxStarts /\ made' = made + 1
          /\ job' = Append(job, new)
          /\ jobs' = Pruned([Records EXCEPT ![i] = made'], job', stamped)
          /\ rpc' = [rpc EXCEPT ![c] = [op |-> "start", on |-> made']]
          /\ UNCHANGED <<stamped, aged, watch, phase>>
      BY <1>2 DEF StartVodJob
    <2> HIDE DEF new
    <2>3. /\ StateFollowsTask' /\ UnfinishedAreListed' /\ Cardinality(Running)' <= MaxJobs
          /\ job' \in [1..made' -> Handle] /\ jobs' \in [JobIds -> 0..made']
          /\ made' \in 0..MaxStarts
          /\ \A h \in DOMAIN job : h \in DOMAIN job' /\ job'[h] = job[h]
          /\ made' \in DOMAIN job' /\ job'[made'] = new
      BY <2>1, <2>2, JobsGrow
    <2>4. rpc' \in [Callers -> [op : Calls, on : 0..made']]
      <3>1. rpc \in [Callers -> [op : Calls, on : 0..made']]
        BY <1>1, <2>2 DEF ServiceInv, ServiceTypeOK
      <3>2. [op |-> "start", on |-> made'] \in [op : Calls, on : 0..made']
        BY <1>1, <2>2 DEF Calls
      <3> QED
        BY <2>2, <3>1, <3>2
    <2>5. ServiceTypeOK'
      <3>1. stamped \in Seq(1..made')
        BY <1>1, <2>2, SeqMonotonic DEF ServiceInv, ServiceTypeOK
      <3> QED
        BY <2>2, <2>3, <2>4, <3>1 DEF ServiceInv, ServiceTypeOK
    <2>6. CallsHaveHandles'
      <3>1. \A d \in Callers : rpc'[d] = rpc[d] \/ rpc'[d] = [op |-> "start", on |-> made']
        BY <2>2 DEF ServiceInv, ServiceTypeOK
      <3> QED
        BY <2>3, <3>1, CallsKeep
    <2>7. WatchersKeepUp'
      BY <2>2, <2>3, WatchersStay
    <2> QED
      BY <2>3, <2>5, <2>6, <2>7 DEF ServiceInv
  <1>3. CASE StartWithoutWhitelist(c, i)
    <2> DEFINE new == NewHandle(i, "failed", "none", TRUE)
    <2>1. /\ new \in Handle /\ new.id = i
          /\ new.state = Processing <=> new.task \in Unfinished
      BY DEF NewHandle, Handle, Live, Unfinished, Terminal, Processing
    <2>2. /\ MayStart(i) /\ made < MaxStarts /\ made' = made + 1
          /\ job' = Append(job, new)
          /\ jobs' = Pruned([Records EXCEPT ![i] = made'], job', stamped')
          /\ stamped' = Append(stamped, made')
          /\ UNCHANGED <<aged, watch, rpc, phase>>
      BY <1>3 DEF StartWithoutWhitelist
    <2> HIDE DEF new
    <2>3. /\ StateFollowsTask' /\ UnfinishedAreListed' /\ Cardinality(Running)' <= MaxJobs
          /\ job' \in [1..made' -> Handle] /\ jobs' \in [JobIds -> 0..made']
          /\ made' \in 0..MaxStarts
          /\ \A h \in DOMAIN job : h \in DOMAIN job' /\ job'[h] = job[h]
          /\ made' \in DOMAIN job' /\ job'[made'] = new
      <3> DEFINE st == stamped'
      <3>1. jobs' = Pruned([Records EXCEPT ![i] = made'], job', st)
        BY <2>2
      <3> HIDE DEF st
      <3> QED
        BY <2>1, <2>2, <3>1, JobsGrow
    <2>4. rpc' \in [Callers -> [op : Calls, on : 0..made']]
      BY <1>1, <2>2 DEF ServiceInv, ServiceTypeOK
    <2>5. ServiceTypeOK'
      <3>1. stamped \in Seq(1..made') /\ made' \in 1..made'
        BY <1>1, <2>2, SeqMonotonic DEF ServiceInv, ServiceTypeOK
      <3>2. stamped' \in Seq(1..made') /\ Len(stamped') = Len(stamped) + 1
        BY <2>2, <3>1
      <3>3. aged \in 0..Len(stamped) /\ Len(stamped) \in Nat
        BY <3>1 DEF ServiceInv, ServiceTypeOK
      <3>4. aged' \in 0..Len(stamped')
        BY <2>2, <3>2, <3>3
      <3> QED
        BY <2>2, <2>3, <2>4, <3>2, <3>4 DEF ServiceInv, ServiceTypeOK
    <2>6. CallsHaveHandles'
      BY <2>2, <2>3, CallsKeep
    <2>7. WatchersKeepUp'
      BY <2>2, <2>3, WatchersStay
    <2> QED
      BY <2>3, <2>5, <2>6, <2>7 DEF ServiceInv
  <1> QED
    BY <1>2, <1>3

\* CancelVodJob marks the record of a task that has ended.
LEMMA CancelDoneInv ==
    ASSUME ServiceInv, NEW c \in Callers, CancelDone(c)
    PROVE  ServiceInv'
  <1> DEFINE h == rpc[c].on
  <1>1. /\ rpc[c].op = "cleanup"
        /\ job' = [job EXCEPT ![h].state = "cancelled"]
        /\ stamped' = Stamped(h, "cancelled") /\ watch' = Notified(h)
        /\ rpc' = [rpc EXCEPT ![c] = NoCall]
        /\ UNCHANGED <<jobs, made, aged, phase>>
    BY DEF CancelDone
  <1>2. h \in DOMAIN job /\ job[h].task \in {"none", "over"}
    BY <1>1 DEF ServiceInv, CallsHaveHandles
  <1> HIDE DEF h
  <1>3. job \in [1..made -> Handle] /\ DOMAIN job = 1..made
    BY TypeFacts DEF ServiceInv, ServiceTypeOK
  <1>4. /\ job'[h] = [job[h] EXCEPT !.state = "cancelled"]
        /\ \A g \in DOMAIN job \ {h} : job'[g] = job[g]
        /\ DOMAIN job' = DOMAIN job
    BY <1>1, <1>2, <1>3
  <1>5. /\ job'[h] \in Handle /\ job'[h].id = job[h].id
        /\ job'[h].state = "cancelled" /\ job'[h].task = job[h].task
    BY <1>2, <1>3, <1>4 DEF Handle, Terminal
  <1>6. job' \in [1..made -> Handle]
    BY <1>1, <1>3, <1>4, <1>5
  <1>7. ServiceTypeOK'
    <2>1. stamped' \in Seq(1..made) /\ aged \in 0..Len(stamped')
      BY <1>1, <1>2, <1>3, StampedType DEF ServiceInv
    <2>2. watch' \in [Watchers -> Watch]
      BY <1>1, <1>2, <1>4, WatchersNotified
    <2>3. rpc' \in [Callers -> [op : Calls, on : 0..made]]
      <3>1. NoCall \in [op : Calls, on : 0..made]
        BY TypeFacts DEF NoCall, Calls, None, ServiceInv
      <3> QED
        BY <1>1, <3>1 DEF ServiceInv, ServiceTypeOK
    <2> QED
      BY <1>1, <1>6, <2>1, <2>2, <2>3 DEF ServiceInv, ServiceTypeOK
  <1>8. StateFollowsTask' /\ UnfinishedAreListed' /\ Cardinality(Running)' <= MaxJobs
    <2>1. ASSUME NEW g \in DOMAIN job
          PROVE  /\ job'[g].id = job[g].id
                 /\ job'[g].task \in Unfinished => job[g].task \in Unfinished
                 /\ job'[g].task \in Live => job[g].task \in Live
                 /\ job'[g].state = Processing <=> job'[g].task \in Unfinished
      <3>1. CASE g = h
        BY <1>2, <1>5, <3>1 DEF Unfinished, Live, Processing
      <3>2. CASE g # h
        BY <1>4, <3>2 DEF ServiceInv, StateFollowsTask
      <3> QED
        BY <3>1, <3>2
    <2> QED
      BY <1>1, <1>4, <2>1, JobsKeep
  <1>9. CallsHaveHandles'
    <2>1. \A g \in DOMAIN job :
              job[g].task \in {"none", "over"} => job'[g].task \in {"none", "over"}
      BY <1>4, <1>5
    <2>2. \A d \in Callers : rpc'[d] = rpc[d] \/ rpc'[d].op = "none"
      BY <1>1 DEF NoCall, ServiceInv, ServiceTypeOK
    <2> QED
      BY <1>4, <2>1, <2>2, CallsKeep
  <1>10. WatchersKeepUp'
    BY <1>1, <1>2, <1>4, WatchersNotified
  <1> QED
    BY <1>7, <1>8, <1>9, <1>10 DEF ServiceInv

LEMMA ProgressInv ==
    ASSUME ServiceInv, NEW h \in DOMAIN job, Progress(h)
    PROVE  ServiceInv'
  <1>1. watch' = Notified(h) /\ UNCHANGED <<jobs, made, job, stamped, aged, rpc, phase>>
    BY DEF Progress
  <1>2. WatchersKeepUp' /\ watch' \in [Watchers -> Watch]
    BY <1>1, WatchersNotified
  <1>3. ServiceTypeOK'
    BY <1>1, <1>2 DEF ServiceInv, ServiceTypeOK
  <1>4. StateFollowsTask' /\ UnfinishedAreListed' /\ Cardinality(Running)' <= MaxJobs
        /\ CallsHaveHandles'
    BY <1>1 DEF ServiceInv, StateFollowsTask, UnfinishedAreListed, Running, IsLive,
                CallsHaveHandles, Unfinished, Live
  <1> QED
    BY <1>2, <1>3, <1>4 DEF ServiceInv

\* The steps of a stream.
LEMMA WatchInv ==
    ASSUME ServiceInv, NEW w \in Watchers,
           \/ Sent(w) \/ Woken(w) \/ WatchCancelled(w)
           \/ \E i \in JobIds : WatchVodJob(w, i)
    PROVE  ServiceInv'
  <1>1. UNCHANGED <<made, job, stamped, aged, rpc, phase>> /\ jobs' \in {jobs, Records}
    BY DEF Sent, Woken, WatchCancelled, WatchVodJob
  <1>2. watch \in [Watchers -> Watch] /\ DOMAIN job = 1..made /\ made \in Nat
    BY TypeFacts DEF ServiceInv, ServiceTypeOK
  <1>3. watch' = [watch EXCEPT ![w] = watch'[w]]
    BY <1>2 DEF Sent, Woken, WatchCancelled, WatchVodJob
  <1>4. ASSUME NEW h \in DOMAIN job
        PROVE  /\ Snapshot(w, h) \in Watch
               /\ Snapshot(w, h).on = h /\ Snapshot(w, h).sent = job[h].state
               /\ Snapshot(w, h).at = "sending"
    <2>1. job[h].state \in {Processing} \cup Terminal /\ h \in Handles
      BY <1>2, TypeFacts DEF ServiceInv, ServiceTypeOK, Handle, Handles
    <2> QED
      BY <2>1 DEF Snapshot, Watch
  <1>5. Idle \in Watch /\ Idle.at = "no"
    BY DEF Idle, Watch
  <1>6. /\ watch'[w] \in Watch
        /\ \/ watch'[w].at = "no"
           \/ /\ watch'[w].on \in DOMAIN job
              /\ watch'[w].sent = job[watch'[w].on].state
              /\ watch'[w].at # "waiting"
           \/ /\ watch[w].at # "no" /\ watch[w].seen
              /\ watch[w].sent = Processing
              /\ watch'[w] = [watch[w] EXCEPT !.at = "waiting"]
    <2>0. watch[w].at # "no" => watch[w].on \in DOMAIN job /\ watch[w].sent # "none"
      BY DEF ServiceInv, WatchersKeepUp
    <2>1. CASE Sent(w)
      <3>1. CASE watch[w].sent \in Terminal
        BY <1>2, <1>5, <2>1, <3>1 DEF Sent
      <3>2. CASE watch[w].sent \notin Terminal /\ watch[w].seen
        <4>1. watch'[w] = [watch[w] EXCEPT !.at = "waiting"] /\ watch[w].at = "sending"
          BY <1>2, <2>1, <3>2 DEF Sent
        <4>2. watch[w].sent = Processing
          BY <1>2, <2>0, <3>2, <4>1 DEF Watch
        <4> QED
          BY <1>2, <3>2, <4>1, <4>2 DEF Watch
      <3>3. CASE watch[w].sent \notin Terminal /\ ~watch[w].seen
        <4>1. watch'[w] = Snapshot(w, watch[w].on) /\ watch[w].at = "sending"
          BY <1>2, <2>1, <3>3 DEF Sent
        <4> QED
          BY <1>4, <2>0, <4>1
      <3> QED
        BY <3>1, <3>2, <3>3
    <2>2. CASE Woken(w)
      <3>1. watch'[w] = Snapshot(w, watch[w].on) /\ watch[w].at = "woken"
        BY <1>2, <2>2 DEF Woken
      <3> QED
        BY <1>4, <2>0, <3>1
    <2>3. CASE WatchCancelled(w)
      BY <1>2, <1>5, <2>3 DEF WatchCancelled
    <2>4. ASSUME NEW i \in JobIds, WatchVodJob(w, i)
          PROVE  watch'[w] = Snapshot(w, Records[i]) /\ Records[i] \in DOMAIN job
      BY <1>2, <2>4, RecordsFacts DEF WatchVodJob, ServiceInv
    <2> QED
      BY <1>4, <2>1, <2>2, <2>3, <2>4
  <1>7. watch' \in [Watchers -> Watch]
    BY <1>2, <1>3, <1>6
  <1>8. \A v \in Watchers : v = w \/ watch'[v] = watch[v]
    BY <1>2, <1>3
  <1>9. /\ job' = [h \in DOMAIN job |-> job'[h]]
        /\ aged' \in 0..Len(stamped)
        /\ rpc' \in [Callers -> [op : Calls, on : 0..made]]
        /\ phase' \in {"serving", "stopped"}
    BY <1>1 DEF ServiceInv, ServiceTypeOK
  <1> QED
    BY <1>1, <1>6, <1>7, <1>8, <1>9, AsksInv

\* The steps of a call, once there is one, and what asks or cancels tasks.
LEMMA CallInv ==
    ASSUME ServiceInv, NEW c \in Callers,
           \/ Answered(c) \/ CancelCleans(c) \/ Disconnect(c)
           \/ \E i \in JobIds : PauseVodJob(c, i) \/ CancelVodJob(c, i)
    PROVE  ServiceInv'
  <1>1. UNCHANGED <<made, stamped, aged, watch, phase>> /\ jobs' \in {jobs, Records}
    BY DEF Answered, CancelCleans, Disconnect, PauseVodJob, CancelVodJob
  <1>2. /\ job \in [1..made -> Handle] /\ DOMAIN job = 1..made /\ made \in Nat
        /\ rpc \in [Callers -> [op : Calls, on : 0..made]]
    BY TypeFacts DEF ServiceInv, ServiceTypeOK
  <1>3. NoCall \in [op : Calls, on : 0..made] /\ NoCall.op = "none"
    BY <1>2 DEF NoCall, Calls, None
  <1>4. \A h \in DOMAIN job : job[h].cancelling \in BOOLEAN
    BY <1>2 DEF Handle
  <1> DEFINE AskedOnly ==
        /\ DOMAIN job' = DOMAIN job
        /\ \A h \in DOMAIN job :
              \/ job'[h] = job[h]
              \/ job'[h] = [job[h] EXCEPT !.stop = TRUE]
              \/ \E b \in BOOLEAN : job'[h] = [job[h] EXCEPT !.cancelling = b]
        /\ job' = [h \in DOMAIN job |-> job'[h]]
             CallOnly ==
        /\ rpc' \in [Callers -> [op : Calls, on : 0..made]]
        /\ \A d \in Callers :
              \/ rpc'[d] = rpc[d]
              \/ rpc'[d].op = "none"
              \/ /\ rpc'[d].on \in DOMAIN job
                 /\ rpc'[d].op = "cleanup" => job[rpc'[d].on].task \in {"none", "over"}
  <1>5. ASSUME NEW h \in DOMAIN job, NEW b \in BOOLEAN, job' = [job EXCEPT ![h].cancelling = b]
        PROVE  AskedOnly
    BY <1>2, <1>5
  <1>6. ASSUME NEW v \in [op : Calls, on : 0..made], rpc' = [rpc EXCEPT ![c] = v],
               \/ v.op = "none"
               \/ /\ v.on \in DOMAIN job
                  /\ v.op = "cleanup" => job[v.on].task \in {"none", "over"}
        PROVE  CallOnly
    BY <1>2, <1>6
  <1>7. AskedOnly /\ CallOnly
    <2>1. CASE Answered(c)
      BY <1>2, <1>3, <1>6, <2>1 DEF Answered
    <2>2. CASE CancelCleans(c)
      <3> DEFINE v == [rpc[c] EXCEPT !.op = "cleanup"]
      <3>1. /\ rpc' = [rpc EXCEPT ![c] = v] /\ job' = job /\ rpc[c].op = "cancel"
            /\ job[rpc[c].on].task \in {"none", "over"}
        BY <1>2, <2>2 DEF CancelCleans
      <3>2. v \in [op : Calls, on : 0..made] /\ v.on = rpc[c].on
        BY <1>2 DEF Calls
      <3>3. rpc[c].on \in DOMAIN job
        BY <3>1 DEF ServiceInv, CallsHaveHandles
      <3> HIDE DEF v
      <3> QED
        BY <1>2, <1>6, <3>1, <3>2, <3>3
    <2>3. CASE Disconnect(c)
      <3> DEFINE h == rpc[c].on
                 takesTask == \/ rpc[c].op = "start" /\ ~job[h].admitted
                              \/ rpc[c].op \in {"pause", "cancel"}
                 b == job[h].cancelling \/ (takesTask /\ IsLive(h))
      <3>1. /\ job' = [job EXCEPT ![h].cancelling = b]
            /\ rpc' = IF rpc[c].op = "cancel" THEN rpc ELSE [rpc EXCEPT ![c] = NoCall]
            /\ rpc[c] # NoCall
        BY <2>3 DEF Disconnect
      <3>2. CASE rpc[c].op # "none"
        <4>1. h \in DOMAIN job
          BY <3>2 DEF ServiceInv, CallsHaveHandles
        <4>2. b \in BOOLEAN
          BY <1>4, <4>1
        <4> HIDE DEF h, b
        <4>3. AskedOnly
          BY <1>5, <3>1, <4>1, <4>2
        <4>4. CallOnly
          BY <1>2, <1>3, <1>6, <3>1
        <4> QED
          BY <4>3, <4>4
      <3>3. CASE rpc[c].op = "none"
        <4>1. CallOnly
          BY <1>2, <1>3, <1>6, <3>1
        <4>2. CASE h \in DOMAIN job
          <5>1. b \in BOOLEAN
            BY <1>4, <4>2
          <5> HIDE DEF h, b
          <5> QED
            BY <1>5, <3>1, <4>1, <4>2, <5>1
        <4>3. CASE h \notin DOMAIN job
          <5>1. job' = job
            BY <1>2, <3>1, <4>3
          <5> QED
            BY <1>2, <4>1, <5>1
        <4> QED
          BY <4>2, <4>3
      <3> QED
        BY <3>2, <3>3
    <2>4. ASSUME NEW i \in JobIds, PauseVodJob(c, i) PROVE AskedOnly /\ CallOnly
      <3> DEFINE v == [op |-> "pause", on |-> Records[i]]
      <3>1. /\ Records[i] # None /\ job' = [job EXCEPT ![Records[i]].stop = TRUE]
            /\ rpc' = [rpc EXCEPT ![c] = v]
        BY <2>4 DEF PauseVodJob
      <3>2. Records[i] \in DOMAIN job
        BY <3>1, RecordsFacts DEF ServiceInv
      <3>3. AskedOnly
        BY <1>2, <3>1, <3>2
      <3>4. v \in [op : Calls, on : 0..made] /\ v.op # "cleanup" /\ v.on \in DOMAIN job
        BY <1>2, <3>2 DEF Calls
      <3> HIDE DEF v
      <3>5. CallOnly
        BY <1>6, <3>1, <3>4
      <3> QED
        BY <3>3, <3>5
    <2>5. ASSUME NEW i \in JobIds, CancelVodJob(c, i) PROVE AskedOnly /\ CallOnly
      <3> DEFINE h == Records[i]
                 v == [op |-> "cancel", on |-> h]
                 b == job[h].cancelling \/ IsLive(h)
      <3>1. /\ h # None /\ job' = [job EXCEPT ![h].cancelling = b]
            /\ rpc' = [rpc EXCEPT ![c] = v]
        BY <2>5 DEF CancelVodJob
      <3>2. h \in DOMAIN job
        BY <3>1, RecordsFacts DEF ServiceInv
      <3>3. v \in [op : Calls, on : 0..made] /\ v.op # "cleanup" /\ v.on \in DOMAIN job
        BY <1>2, <3>2 DEF Calls
      <3>4. b \in BOOLEAN
        BY <1>4, <3>2
      <3> HIDE DEF h, v, b
      <3> QED
        BY <1>5, <1>6, <3>1, <3>2, <3>3, <3>4
    <2> QED
      BY <2>1, <2>2, <2>3, <2>4, <2>5
  <1>8. watch' \in [Watchers -> Watch] /\ aged' \in 0..Len(stamped) /\ phase' \in {"serving", "stopped"}
    BY <1>1 DEF ServiceInv, ServiceTypeOK
  <1> QED
    BY <1>1, <1>7, <1>8, AsksInv

\* Pruning, time and shutdown.
LEMMA ServerInv ==
    ASSUME ServiceInv,
           Prunes \/ TtlPasses \/ Drain \/ ServerStops \/ \E i \in JobIds : Close(i)
    PROVE  ServiceInv'
  <1>1. UNCHANGED <<made, stamped, watch, rpc>> /\ jobs' \in {jobs, Records}
    BY DEF Prunes, TtlPasses, Drain, ServerStops, Close
  <1>2. /\ job \in [1..made -> Handle] /\ DOMAIN job = 1..made /\ made \in Nat
        /\ stamped \in Seq(1..made) /\ aged \in 0..Len(stamped)
        /\ jobs \in [JobIds -> 0..made]
    BY TypeFacts DEF ServiceInv, ServiceTypeOK
  <1>3. /\ DOMAIN job' = DOMAIN job
        /\ \A h \in DOMAIN job :
              \/ job'[h] = job[h]
              \/ job'[h] = [job[h] EXCEPT !.stop = TRUE]
              \/ \E b \in BOOLEAN : job'[h] = [job[h] EXCEPT !.cancelling = b]
        /\ job' = [h \in DOMAIN job |-> job'[h]]
    <2>1. CASE Prunes \/ TtlPasses \/ ServerStops
      BY <1>2, <2>1 DEF Prunes, TtlPasses, ServerStops
    <2>2. CASE Drain
      BY <1>2, <2>2 DEF Drain
    <2>3. ASSUME NEW i \in JobIds, Close(i)
          PROVE  jobs[i] \in DOMAIN job /\ job' = [job EXCEPT ![jobs[i]].cancelling = TRUE]
      BY <1>2, <2>3 DEF Close, None
    <2> QED
      BY <1>2, <2>1, <2>2, <2>3
  <1>4. aged' \in 0..Len(stamped)
    <2>1. Len(stamped) \in Nat
      BY <1>2
    <2>2. aged' = aged \/ (aged < Len(stamped) /\ aged' = aged + 1)
      BY DEF Prunes, TtlPasses, Drain, ServerStops, Close
    <2>3. aged \in 0..Len(stamped)
      BY <1>2
    <2> QED
      BY <2>1, <2>2, <2>3
  <1>5. /\ phase' \in {"serving", "stopped"}
        /\ watch' \in [Watchers -> Watch] /\ rpc' \in [Callers -> [op : Calls, on : 0..made]]
    BY <1>1 DEF ServiceInv, ServiceTypeOK, Prunes, TtlPasses, Drain, ServerStops, Close
  <1> QED
    BY <1>1, <1>3, <1>4, <1>5, AsksInv

LEMMA ServiceInitial == ServiceInit => ServiceInv
  <1> SUFFICES ASSUME ServiceInit PROVE ServiceInv
    OBVIOUS
  <1>1. job = << >> /\ DOMAIN job = {} /\ DOMAIN job = 1..0 /\ Len(stamped) = 0
    BY DEF ServiceInit
  <1>2. ServiceTypeOK
    <2>1. job \in [1..made -> Handle] /\ stamped \in Seq(1..made)
      BY <1>1 DEF ServiceInit
    <2> QED
      BY <1>1, <2>1, ServiceAssumption
         DEF ServiceInit, ServiceTypeOK, Watch, Idle, NoCall, None, Calls
  <1>3. Running = {} /\ Cardinality(Running) <= MaxJobs
    <2>1. Running = {}
      BY <1>1 DEF Running
    <2> QED
      BY <2>1, FS_EmptySet, ServiceAssumption
  <1>4. StateFollowsTask /\ UnfinishedAreListed /\ CallsHaveHandles /\ WatchersKeepUp
    BY <1>1 DEF ServiceInit, StateFollowsTask, UnfinishedAreListed, CallsHaveHandles,
                WatchersKeepUp, NoCall, Idle
  <1> QED
    BY <1>2, <1>3, <1>4 DEF ServiceInv

\* The inductive invariant of the service.
THEOREM ServiceInvariant == ServiceSpec => []ServiceInv
  <1>1. ServiceInv /\ [ServiceNext]_serviceVars => ServiceInv'
    <2> SUFFICES ASSUME ServiceInv, [ServiceNext]_serviceVars PROVE ServiceInv'
      OBVIOUS
    <2>1. ASSUME NEW h \in DOMAIN job, JobSteps(h) \/ Progress(h) PROVE ServiceInv'
      <3>1. CASE FirstStep(h) \/ Validated(h) \/ NeverBegins(h)
        BY <3>1, TaskInv
      <3>2. CASE JobCancelled(h) \/ AdmissionDone(h)
        <4>1. Ends(h, "cancelled") /\ "cancelled" \in Terminal
          BY <3>2 DEF JobCancelled, AdmissionDone, Terminal
        <4> QED
          BY <4>1, EndsInv
      <3>3. ASSUME NEW state \in Terminal, JobEnds(h, state) PROVE ServiceInv'
        BY <3>3, EndsInv DEF JobEnds
      <3>4. CASE Progress(h)
        BY <3>4, ProgressInv
      <3> QED
        BY <2>1, <3>1, <3>2, <3>3, <3>4 DEF JobSteps
    <2>2. ASSUME NEW w \in Watchers,
                 Sent(w) \/ Woken(w) \/ WatchCancelled(w) \/ \E i \in JobIds : WatchVodJob(w, i)
          PROVE  ServiceInv'
      BY <2>2, WatchInv
    <2>3. ASSUME NEW c \in Callers,
                 \/ Answered(c) \/ CancelCleans(c) \/ CancelDone(c) \/ Disconnect(c)
                 \/ \E i \in JobIds :
                       StartVodJob(c, i) \/ StartWithoutWhitelist(c, i)
                       \/ PauseVodJob(c, i) \/ CancelVodJob(c, i)
          PROVE  ServiceInv'
      BY <2>3, CallInv, CancelDoneInv, StartsInv
    <2>4. CASE GetVodJob \/ ListVodJobs \/ StartRefused \/ TtlPasses \/ Drain \/ ServerStops
               \/ \E i \in JobIds : Close(i)
      BY <2>4, ServerInv DEF GetVodJob, ListVodJobs, StartRefused
    <2>5. CASE UNCHANGED serviceVars
      BY <2>5 DEF serviceVars, ServiceInv, ServiceTypeOK, StateFollowsTask, UnfinishedAreListed,
                  Running, IsLive, CallsHaveHandles, WatchersKeepUp, Unfinished, Live
    <2> QED
      BY <2>1, <2>2, <2>3, <2>4, <2>5 DEF ServiceNext
  <1> QED
    BY ServiceInitial, <1>1, PTL DEF ServiceSpec

\* No task runs out of reach of its record, nor beyond vod_max_jobs.
THEOREM ServiceListsItsJobs == ServiceSpec => []RunningJobsAreListed
  <1>1. ServiceInv => RunningJobsAreListed
    BY DEF ServiceInv, StateFollowsTask, UnfinishedAreListed, Unfinished, Running,
           RunningJobsAreListed
  <1> QED
    BY <1>1, ServiceInvariant, PTL

\* A stream that sleeps has nothing to miss.
THEOREM ServiceWakesWatchers == ServiceSpec => []SleepersMissNothing
  <1>1. ServiceInv => SleepersMissNothing
    BY DEF ServiceInv, WatchersKeepUp, SleepersMissNothing
  <1> QED
    BY <1>1, ServiceInvariant, PTL

-----------------------------------------------------------------------------
(* The page: what is known of its fields.                                       *)

\* Nothing is under way on a page that does not stream.
Drained(a) ==
    /\ a.inFlight = {} /\ ~a.pending /\ ~a.renderRequest
    /\ a.active = 0 /\ a.waiting = 0

\* The newest result that is not replaced.
Newest(a) == IF a.waiting # 0 THEN a.waiting ELSE IF a.active # 0 THEN a.active ELSE a.committed

\* A request that was sent and whose answer was not passed is in flight.
InTurn(a) ==
    /\ a.terminal < a.next
    /\ \A s \in a.inFlight : s < a.next
    /\ \A s \in 1..MaxSequence : a.terminal < s /\ s < a.next => s \in a.inFlight

\* A result overtakes none: rendered, being decoded, waiting, in flight.
Ranked(a) ==
    /\ a.renderRequest => a.waiting # 0 /\ a.active = 0
    /\ a.active # 0 => a.active > a.committed
    /\ a.waiting # 0 => a.waiting > a.committed /\ a.waiting > a.active

Sound(a) ==
    /\ a \in App
    /\ a.stage # "idle" => a.run \in Runs /\ Newest(a) = a.terminal /\ InTurn(a)
    /\ ~IsRunning(a) => Drained(a)
    /\ Ranked(a)

StreamInv ==
    /\ Sound(app)
    /\ blobs \in [Runs -> Nat]
    /\ decodes \subseteq Runs \X (1..MaxSequence)
    /\ timers = Flights(app)
    /\ shown \in (Runs \X (1..MaxSequence)) \cup {Black}
    /\ NothingStaleIsShown

\* What deleteSession knows of the session it deletes.
PageInv ==
    /\ deleting \in [id: Sessions \cup {0}, at: {"none", "request", "creating", "status"}]
    /\ deleting.at = "none" <=> deleting.id = 0
    /\ DeletesSpareTheStream

\* The rows are those of the files that are chosen or, while no choice crosses
\* them, of the files that are sent.
RowsShow(files) ==
    Len(rows) = Len(files) /\ \A i \in DOMAIN files : rows[i].file = files[i]

FormShape ==
    /\ chosen \in Seq(1..Faces) /\ sending \in Seq(1..Faces) /\ rows \in Seq(Row)
    /\ faces \in 0..Faces /\ at \in Nat

RowsInv ==
    /\ FormShape
    /\ chosen # <<>> => RowsShow(chosen)
    /\ sending # <<>> => at \in 1..Len(sending)
    /\ sending # <<>> /\ "faces" \notin crossed => RowsShow(sending)
    /\ "faces" \notin crossed =>
          \A i \in DOMAIN rows : rows[i].says = "success" => rows[i].file \in enrolled

\* The file that is chosen is the original, and so is, while no choice crosses
\* it, the one that is sent.
PicturesInv ==
    /\ picture # 0 => original = picture
    /\ inferring # 0 /\ "image" \notin crossed => original = inferring
    /\ visible /\ "image" \notin crossed => original = result

-----------------------------------------------------------------------------
(* The methods of the page's App keep it sound.                                *)

USE DEF Runs, Black, Stopped, IsRunning, IsRun

LEMMA FailedIsSound ==
    ASSUME NEW a, Sound(a)
    PROVE  Sound(Failed(a)) /\ Failed(a).stage = "idle" /\ Flights(Failed(a)) = {}
  <1> DEFINE f == Failed(a)
  <1>1. 0 \in 0..MaxSequence /\ a \in App
    BY WindowAssumption DEF Sound
  <1>2. f \in App /\ f.stage = "idle" /\ f.inFlight = {} /\ ~f.pending /\ ~f.renderRequest
        /\ f.active = 0 /\ f.waiting = 0
    BY <1>1 DEF App, Failed
  <1> HIDE DEF f
  <1>3. Ranked(f) /\ Drained(f) /\ ~IsRunning(f) /\ Flights(f) = {}
    BY <1>2 DEF Ranked, Drained, Flights
  <1> QED  BY <1>2, <1>3 DEF Sound, f

LEMMA PumpIsSound ==
    ASSUME NEW a \in App, InTurn(a), IsRunning(a)
    PROVE  LET p == Pump(a)
           IN /\ p \in App /\ InTurn(p) /\ Flights(a) \subseteq Flights(p)
              /\ \A s \in p.inFlight : s \in a.inFlight \/ s = a.next
              /\ \A f \in {"stage", "run", "terminal", "renderRequest", "active", "waiting",
                           "committed"} : p[f] = a[f]
  <1> DEFINE p == Pump(a)
  <1>1. a.inFlight \in SUBSET (1..MaxSequence) /\ a.next \in 1..(MaxSequence + 1)
        /\ a.terminal \in 0..MaxSequence
    BY DEF App
  <1>2. CASE p = a
    BY <1>2
  <1>3. CASE p # a
    <2>1. /\ a.next <= MaxSequence
          /\ p = [a EXCEPT !.inFlight = @ \cup {a.next}, !.next = @ + 1, !.pending = FALSE]
      BY <1>3 DEF Pump
    <2> DEFINE ext == a.inFlight \cup {a.next}
               nx == a.next + 1
    <2>2. ext \in SUBSET (1..MaxSequence) /\ nx \in 1..(MaxSequence + 1)
      BY <1>1, <2>1, WindowAssumption
    <2>3. p = [a EXCEPT !.inFlight = ext, !.next = nx, !.pending = FALSE]
      BY <2>1
    <2> HIDE DEF p, ext, nx
    <2>4. /\ p \in App /\ p.inFlight = ext /\ p.next = nx
          /\ \A f \in {"stage", "run", "terminal", "renderRequest", "active", "waiting",
                       "committed"} : p[f] = a[f]
      BY <2>2, <2>3 DEF App
    <2>5. InTurn(p)
      <3>1. p.terminal = a.terminal
        BY <2>4
      <3>2. p.terminal < p.next
        BY <1>1, <2>4, <3>1, WindowAssumption DEF InTurn, nx
      <3>3. \A s \in p.inFlight : s < p.next
        BY <1>1, <2>4, WindowAssumption DEF InTurn, nx, ext
      <3>4. \A s \in 1..MaxSequence : p.terminal < s /\ s < p.next => s \in p.inFlight
        BY <1>1, <2>4, <3>1, WindowAssumption DEF InTurn, nx, ext
      <3> QED  BY <3>2, <3>3, <3>4 DEF InTurn
    <2>6. p.run = a.run
      BY <2>4
    <2> QED  BY <2>4, <2>5, <2>6 DEF p, ext, Flights
  <1> QED  BY <1>2, <1>3

LEMMA ScheduleIsSound ==
    ASSUME NEW a, Sound(a)
    PROVE  LET s == ScheduleRender(a)
           IN /\ Sound(s) /\ Flights(s) = Flights(a)
              /\ \A f \in {"stage", "run", "active", "waiting", "committed", "inFlight", "next",
                           "terminal"} : s[f] = a[f]
  <1> DEFINE s == ScheduleRender(a)
  <1>1. CASE s = a
    BY <1>1
  <1>2. CASE s # a
    <2>1. /\ s = [a EXCEPT !.renderRequest = TRUE]
          /\ IsRunning(a) /\ a.active = 0 /\ a.waiting # 0
      BY <1>2 DEF ScheduleRender
    <2>a. a \in App
      BY DEF Sound
    <2>2. s \in App /\ \A f \in {"stage", "run", "active", "waiting", "committed", "inFlight", "next",
                                 "terminal"} : s[f] = a[f]
      <3> HIDE DEF s
      <3>0. s = [a EXCEPT !.renderRequest = TRUE]
        BY <2>1
      <3>1. s \in App
        BY <3>0, <2>a DEF App
      <3>2. s.stage = a.stage /\ s.run = a.run /\ s.active = a.active /\ s.waiting = a.waiting
        BY <3>0, <2>a DEF App
      <3>3. s.committed = a.committed /\ s.inFlight = a.inFlight /\ s.next = a.next
            /\ s.terminal = a.terminal
        BY <3>0, <2>a DEF App
      <3> QED  BY <3>1, <3>2, <3>3
    <2> HIDE DEF s
    <2>3. Sound(s) /\ Flights(s) = Flights(a)
      BY <2>1, <2>2 DEF Sound, Newest, Drained, InTurn, Ranked, Flights
    <2> QED  BY <2>2, <2>3 DEF s
  <1> QED  BY <1>1, <1>2

\* What maybeFinishVideo and finishVideoInput do: nothing, or the end is noted.
StreamEnds(a, b) ==
    /\ Sound(b) /\ Flights(b) = Flights(a)
    /\ b.run = a.run /\ b.stage \in {a.stage, "complete"} /\ (b.stage # a.stage => IsRunning(a))

LEMMA MaybeFinishIsSound ==
    ASSUME NEW a, Sound(a)
    PROVE  StreamEnds(a, MaybeFinishVideo(a))
  <1> DEFINE s == MaybeFinishVideo(a)
  <1>1. CASE s = a
    BY <1>1 DEF StreamEnds
  <1>2. CASE s # a
    <2>1. /\ s = [a EXCEPT !.stage = "complete"]
          /\ IsRunning(a) /\ Drained(a)
      BY <1>2 DEF MaybeFinishVideo, Drained
    <2>2. s \in App /\ s.stage = "complete"
          /\ \A f \in {"run", "active", "waiting", "committed", "inFlight", "next", "terminal",
                       "pending", "renderRequest"} :
                    s[f] = a[f]
      BY <2>1 DEF App, Sound
    <2> HIDE DEF s
    <2>3. Sound(s) /\ Flights(s) = Flights(a)
      BY <2>1, <2>2 DEF Sound, Newest, Drained, InTurn, Ranked, Flights
    <2> QED  BY <2>1, <2>2, <2>3 DEF s, StreamEnds
  <1> QED  BY <1>1, <1>2

LEMMA FinishInputIsSound ==
    ASSUME NEW a, Sound(a)
    PROVE  StreamEnds(a, FinishVideoInput(a))
  <1>1. CASE FinishVideoInput(a) = a
    BY <1>1 DEF StreamEnds
  <1>2. CASE FinishVideoInput(a) # a
    <2> DEFINE e == [a EXCEPT !.videoEnded = TRUE]
    <2>1. FinishVideoInput(a) = MaybeFinishVideo(e)
      BY <1>2 DEF FinishVideoInput
    <2>2. e \in App
          /\ \A f \in {"stage", "run", "active", "waiting", "committed", "inFlight", "next",
                       "terminal", "pending", "renderRequest"} :
                    e[f] = a[f]
      BY DEF App, Sound
    <2> HIDE DEF e
    <2>3. Sound(e) /\ Flights(e) = Flights(a)
      BY <2>2 DEF Sound, Newest, Drained, InTurn, Ranked, Flights
    <2>4. StreamEnds(e, MaybeFinishVideo(e))
      BY <2>3, MaybeFinishIsSound
    <2> QED  BY <2>1, <2>2, <2>3, <2>4 DEF StreamEnds
  <1> QED  BY <1>1, <1>2

-----------------------------------------------------------------------------
(* The steps of the streaming half.                                            *)

LEMMA FailClosedKeeps ==
    ASSUME StreamInv, FailClosed
    PROVE  /\ Sound(app)' /\ timers' = Flights(app') /\ shown' = Black
           /\ app'.stage = "idle"
  <1>1. Sound(Failed(app)) /\ Failed(app).stage = "idle" /\ Flights(Failed(app)) = {}
    BY FailedIsSound DEF StreamInv
  <1> QED  BY <1>1 DEF FailClosed, StreamInv, Sound

LEMMA FailClosedIsSafe ==
    ASSUME StreamInv, FailClosed,
           blobs' \in [Runs -> Nat], decodes' \subseteq Runs \X (1..MaxSequence)
    PROVE  StreamInv'
  BY FailClosedKeeps DEF StreamInv, NothingStaleIsShown, Sound

LEMMA StartKeeps ==
    ASSUME StreamInv, NEW mode \in {"camera", "video"}, Start(mode)
    PROVE  StreamInv'
  <1>0. app \in App /\ app.stage \in Stopped /\ app.run < MaxRuns
    BY DEF Start, StreamInv, Sound
  <1>1. Drained(app) /\ app.run + 1 \in Runs /\ app.run + 1 \in 0..MaxRuns
    <2>1. Drained(app)
      BY <1>0 DEF StreamInv, Sound
    <2>2. app.run \in 0..MaxRuns
      BY <1>0 DEF App
    <2> QED  BY <1>0, <2>1, <2>2, WindowAssumption
  <1> DEFINE r == Reset(app.run + 1, mode)
  <1>2. r \in App /\ r.stage = "checking" /\ r.run \in Runs /\ r.next = 1 /\ r.inFlight = {}
        /\ r.terminal = 0 /\ ~r.pending /\ ~r.renderRequest /\ r.active = 0 /\ r.waiting = 0
        /\ r.committed = 0
    <2>1. 0 \in 0..MaxSequence /\ 1 \in 1..(MaxSequence + 1)
      BY WindowAssumption
    <2> QED  BY <1>1, <2>1 DEF App, Reset
  <1> HIDE DEF r
  <1>4. Newest(r) = r.terminal
    BY <1>2 DEF Newest
  <1>5. InTurn(r) /\ Ranked(r) /\ Drained(r) /\ Flights(r) = {}
    BY <1>2 DEF InTurn, Ranked, Drained, Flights
  <1>6. Sound(r)
    BY <1>2, <1>4, <1>5 DEF Sound
  <1>7. Flights(app) = {}
    BY <1>1 DEF Drained, Flights
  <1>8. app' = r /\ shown' = Black /\ UNCHANGED <<blobs, decodes, timers>>
    BY DEF Start, r
  <1> QED  BY <1>5, <1>6, <1>7, <1>8 DEF StreamInv, NothingStaleIsShown

\* A step of the handlers that leaves the canvas as it is.
LEMMA QuietIsSafe ==
    ASSUME StreamInv, Sound(app'), timers' = Flights(app'),
           blobs' \in [Runs -> Nat], decodes' \subseteq Runs \X (1..MaxSequence),
           shown' = shown, app'.run = app.run,
           app.stage \in {"running", "complete"} => app'.stage \in {"running", "complete"}
    PROVE  StreamInv'
  BY DEF StreamInv, NothingStaleIsShown

\* Fields that soundness does not look at, while the page streams or not.
LEMMA FlagsAreFree ==
    ASSUME NEW a, Sound(a), NEW b \in App,
           \A f \in {"run", "stage", "inFlight", "next", "terminal", "renderRequest", "active", "waiting",
                     "committed"} : b[f] = a[f],
           b.pending => a.pending \/ IsRunning(a)
    PROVE  Sound(b) /\ Flights(b) = Flights(a)
  BY DEF Sound, Newest, Drained, InTurn, Ranked, Flights

LEMMA SocketStepsKeep ==
    ASSUME StreamInv, SocketSteps
    PROVE  StreamInv'
  <1>0. Sound(app) /\ app \in App
    BY DEF StreamInv, Sound
  <1>1. CASE StartGoesOn
    <2>1. /\ app' \in App /\ app'.stage \in {"input", "connecting"}
          /\ \A f \in {"run", "inFlight", "next", "terminal", "renderRequest", "active", "waiting",
                       "committed", "pending"} : app'[f] = app[f]
          /\ app.stage \in {"checking", "input"}
      BY <1>0, <1>1 DEF StartGoesOn, App
    <2>2. Sound(app') /\ Flights(app') = Flights(app)
      BY <1>0, <2>1 DEF Sound, Newest, Drained, InTurn, Ranked, Flights
    <2> QED  BY <1>1, <2>1, <2>2, QuietIsSafe DEF StartGoesOn, StreamInv
  <1>2. CASE StartFails
    BY <1>2, FailClosedIsSafe DEF StartFails, StreamInv
  <1>3. CASE SocketOpens
    <2> DEFINE o == [app EXCEPT !.stage = "running"]
    <2>1. /\ o \in App /\ o.stage = "running" /\ app.stage = "connecting"
          /\ \A f \in {"run", "inFlight", "next", "terminal", "renderRequest", "active", "waiting",
                       "committed", "pending"} : o[f] = app[f]
      BY <1>0, <1>3 DEF SocketOpens, App
    <2>2. app' = FinishVideoInput(o) \/ app' = o
      BY <1>3 DEF SocketOpens
    <2> HIDE DEF o
    <2>3. Sound(o) /\ Flights(o) = Flights(app)
      BY <1>0, <2>1 DEF Sound, Newest, Drained, InTurn, Ranked, Flights
    <2>4. StreamEnds(o, FinishVideoInput(o)) /\ StreamEnds(o, o)
      BY <2>3, FinishInputIsSound DEF StreamEnds
    <2>5. StreamEnds(o, app')
      BY <2>2, <2>4
    <2> QED  BY <1>3, <2>1, <2>3, <2>5, QuietIsSafe DEF SocketOpens, StreamInv, StreamEnds
  <1>4. CASE SocketFails
    BY <1>4, FailClosedIsSafe DEF SocketFails, StreamInv
  <1> QED  BY <1>1, <1>2, <1>3, <1>4 DEF SocketSteps

LEMMA EncodedKeeps ==
    ASSUME StreamInv, NEW r \in Runs, Encoded(r)
    PROVE  StreamInv'
  <1>0. Sound(app) /\ app \in App
    BY DEF StreamInv, Sound
  <1>1. blobs' \in [Runs -> Nat] /\ decodes' \subseteq Runs \X (1..MaxSequence)
    <2>1. blobs[r] - 1 \in Nat
      BY DEF Encoded, StreamInv
    <2> QED  BY <2>1 DEF Encoded, StreamInv
  <1> DEFINE c == [app EXCEPT !.encoding = FALSE]
             f == [c EXCEPT !.pending = TRUE]
             p == Pump(f)
             e == IF Exhausts(p) THEN p ELSE MaybeFinishVideo(p)
  <1>2. /\ c \in App /\ f \in App
        /\ \A x \in {"run", "stage", "inFlight", "next", "terminal", "renderRequest", "active", "waiting",
                     "committed"} : c[x] = app[x] /\ f[x] = app[x]
        /\ c.pending = app.pending
    BY <1>0 DEF App
  <1>3. IF IsRun(app, r) THEN Becomes(e) ELSE app' = c /\ UNCHANGED <<timers, shown>>
    BY DEF Encoded
  <1> HIDE DEF c, f
  <1>4. Sound(c) /\ Flights(c) = Flights(app)
    BY <1>0, <1>2, FlagsAreFree
  <1>5. CASE ~IsRun(app, r)
    BY <1>1, <1>2, <1>3, <1>4, <1>5, QuietIsSafe DEF StreamInv
  <1>6. CASE IsRun(app, r)
    <2>1. Sound(f) /\ Flights(f) = Flights(app) /\ IsRunning(f)
      BY <1>0, <1>2, <1>6, FlagsAreFree
    <2>2. /\ p \in App /\ InTurn(p) /\ Flights(f) \subseteq Flights(p)
          /\ \A x \in {"stage", "run", "terminal", "renderRequest", "active", "waiting",
                       "committed"} : p[x] = f[x]
      BY <2>1, PumpIsSound DEF Sound
    <2> HIDE DEF p
    <2>3. Sound(p)
      BY <2>1, <2>2 DEF Sound, Newest, Ranked
    <2>4. StreamEnds(p, e)
      BY <2>3, MaybeFinishIsSound DEF StreamEnds
    <2>5. Sound(e) /\ Flights(app) \subseteq Flights(e) /\ e.run = app.run
          /\ e.stage \in {"running", "complete"}
      BY <1>2, <2>1, <2>2, <2>4 DEF StreamEnds
    <2> HIDE DEF e
    <2>6. CASE Exhausts(e)
      BY <1>1, <1>3, <1>6, <2>6, FailClosedIsSafe DEF Becomes
    <2>7. CASE ~Exhausts(e)
      <3>1. app' = e /\ timers' = timers \cup (Flights(e) \ Flights(app)) /\ shown' = shown
        BY <1>3, <1>6, <2>7 DEF Becomes
      <3>2. timers' = Flights(e)
        BY <2>5, <3>1 DEF StreamInv
      <3> QED  BY <1>1, <2>5, <3>1, <3>2, QuietIsSafe
    <2> QED  BY <2>6, <2>7
  <1> QED  BY <1>5, <1>6

LEMMA ReceiveKeeps ==
    ASSUME StreamInv, Receive
    PROVE  StreamInv'
  <1>1. /\ Sound(app) /\ app \in App /\ IsRunning(app) /\ InTurn(app) /\ Ranked(app)
        /\ Newest(app) = app.terminal
        /\ app.inFlight \in SUBSET (1..MaxSequence) /\ app.next \in 1..(MaxSequence + 1)
        /\ app.terminal \in 0..MaxSequence /\ app.waiting \in 0..MaxSequence
        /\ app.active \in 0..MaxSequence /\ app.committed \in 0..MaxSequence
    <2>1. Sound(app) /\ app \in App /\ IsRunning(app)
      BY DEF StreamInv, Sound, Receive
    <2> QED  BY <2>1 DEF Sound, App
  <1> DEFINE rest(s) == [app EXCEPT !.inFlight = @ \ {s}, !.terminal = s]
  <1>2. PICK s \in app.inFlight :
          /\ s > app.terminal
          /\ IF Exhausts(Pump(rest(s)))
             THEN FailClosed
             ELSE /\ app' = ScheduleRender([Pump(rest(s)) EXCEPT !.waiting = s])
                  /\ timers' = (timers \ {<<app.run, s>>})
                               \cup (Flights(Pump(rest(s))) \ Flights(app))
                  /\ UNCHANGED shown
    BY DEF Receive
  <1>3. s \in 1..MaxSequence /\ s \in 0..MaxSequence /\ s < app.next
    BY <1>1, WindowAssumption DEF InTurn
  <1> DEFINE m == rest(s)
             freed == Pump(m)
             w == [freed EXCEPT !.waiting = s]
  <1>4. /\ m \in App /\ m.inFlight = app.inFlight \ {s} /\ m.next = app.next /\ m.terminal = s
        /\ \A x \in {"run", "stage", "renderRequest", "active", "waiting", "committed"} :
              m[x] = app[x]
    BY <1>1, <1>3 DEF App
  <1>5. IF Exhausts(freed)
        THEN FailClosed
        ELSE /\ app' = ScheduleRender(w)
             /\ timers' = (timers \ {<<app.run, s>>}) \cup (Flights(freed) \ Flights(app))
             /\ UNCHANGED shown
    BY <1>2
  <1> HIDE DEF m, rest
  <1>6. InTurn(m)
    <2>1. m.terminal < m.next
      BY <1>3, <1>4
    <2>2. \A x \in m.inFlight : x < m.next
      BY <1>1, <1>4 DEF InTurn
    <2>3. ASSUME NEW x \in 1..MaxSequence, m.terminal < x, x < m.next
          PROVE  x \in m.inFlight
      <3>1. app.terminal < x /\ x < app.next /\ x # s
        BY <1>1, <1>2, <1>3, <1>4, <2>3
      <3> QED  BY <1>1, <1>4, <3>1 DEF InTurn
    <2> QED  BY <2>1, <2>2, <2>3 DEF InTurn
  <1>7. /\ freed \in App /\ InTurn(freed) /\ Flights(m) \subseteq Flights(freed)
        /\ \A x \in freed.inFlight : x \in m.inFlight \/ x = m.next
        /\ freed.terminal = s
        /\ \A x \in {"stage", "run", "renderRequest", "active", "waiting", "committed"} :
              freed[x] = app[x]
    <2>1. IsRunning(m)
      BY <1>1, <1>4
    <2> QED  BY <1>4, <1>6, <2>1, PumpIsSound
  <1> HIDE DEF freed
  <1>8. /\ w \in App /\ w.waiting = s
        /\ \A x \in {"run", "stage", "terminal", "renderRequest", "active", "committed",
                     "inFlight", "next"} : w[x] = freed[x]
    BY <1>3, <1>7 DEF App
  <1> HIDE DEF w
  <1>9. Newest(w) = w.terminal /\ InTurn(w) /\ Flights(w) = Flights(freed)
    BY <1>3, <1>7, <1>8 DEF Newest, InTurn, Flights
  <1>10. Ranked(w)
    <2>1. app.committed <= app.terminal /\ app.active <= app.terminal
      BY <1>1 DEF Newest, Ranked
    <2>2. s > app.committed /\ s > app.active /\ s # 0
      BY <1>1, <1>2, <1>3, <2>1
    <2> QED  BY <1>1, <1>7, <1>8, <2>2 DEF Ranked
  <1>11. Sound(w)
    <2>1. w.run \in Runs /\ IsRunning(w)
      BY <1>1, <1>7, <1>8 DEF Sound
    <2> QED  BY <1>8, <1>9, <1>10, <2>1 DEF Sound
  <1>12. CASE Exhausts(freed)
    BY <1>5, <1>12, FailClosedIsSafe DEF Receive, StreamInv
  <1>13. CASE ~Exhausts(freed)
    <2>1. /\ Sound(app') /\ Flights(app') = Flights(freed)
          /\ app'.run = app.run /\ app'.stage = app.stage
      BY <1>5, <1>7, <1>8, <1>9, <1>11, <1>13, ScheduleIsSound
    <2>2. s \notin freed.inFlight /\ freed.run = app.run
      BY <1>3, <1>4, <1>7
    <2>3. Flights(m) = Flights(app) \ {<<app.run, s>>}
      BY <1>4 DEF Flights
    <2>4. timers = Flights(app)
          /\ timers' = (timers \ {<<app.run, s>>}) \cup (Flights(freed) \ Flights(app))
      BY <1>5, <1>13 DEF StreamInv
    <2>5. <<app.run, s>> \notin Flights(freed)
      BY <2>2 DEF Flights
    <2>6. timers' = Flights(app')
      BY <1>7, <2>1, <2>3, <2>4, <2>5
    <2> QED  BY <1>5, <1>13, <2>1, <2>6, QuietIsSafe DEF Receive, StreamInv
  <1> QED  BY <1>12, <1>13

LEMMA FinishKeeps ==
    ASSUME NEW a, Sound(a), NEW d \in Runs \X (1..MaxSequence),
           ~(a.run = d[1] /\ a.active = d[2] /\ IsRunning(a))
    PROVE  StreamEnds(a, Finish(a, d))
  <1> DEFINE b == IF a.run = d[1] /\ a.active = d[2] THEN [a EXCEPT !.active = 0] ELSE a
             s == ScheduleRender(b)
  <1>1. b = a
    <2>1. a.run = d[1] /\ a.active = d[2] => a.active = 0
      BY DEF Sound, Drained
    <2>2. d[2] # 0
      OBVIOUS
    <2> QED  BY <2>1, <2>2
  <1>2. Finish(a, d) = MaybeFinishVideo(s)
    BY DEF Finish
  <1> HIDE DEF b
  <1>3. Sound(s) /\ Flights(s) = Flights(a) /\ s.run = a.run /\ s.stage = a.stage
    BY <1>1, ScheduleIsSound
  <1>4. StreamEnds(s, MaybeFinishVideo(s))
    BY <1>3, MaybeFinishIsSound
  <1> QED  BY <1>2, <1>3, <1>4 DEF StreamEnds

LEMMA DecodedKeeps ==
    ASSUME StreamInv, NEW d \in decodes, Decoded(d)
    PROVE  StreamInv'
  <1>0. /\ Sound(app) /\ app \in App /\ d \in Runs \X (1..MaxSequence)
        /\ blobs' \in [Runs -> Nat] /\ decodes' \subseteq Runs \X (1..MaxSequence)
        /\ UNCHANGED timers
    BY DEF StreamInv, Sound, Decoded
  <1>1. CASE CanCommit(d)
    <2> DEFINE c == [app EXCEPT !.committed = d[2]]
               b == [c EXCEPT !.active = 0]
               s == ScheduleRender(b)
    <2>1. /\ IsRunning(app) /\ app.run = d[1] /\ app.active = d[2] /\ d[2] \in 1..MaxSequence
          /\ app.stage = "running"
      BY <1>0, <1>1 DEF CanCommit
    <2>a. d[2] \in 0..MaxSequence /\ 0 \in 0..MaxSequence
      BY <2>1, WindowAssumption
    <2>2. /\ c \in App /\ b \in App /\ c.run = d[1] /\ c.active = d[2]
          /\ b.committed = d[2] /\ b.active = 0
          /\ \A x \in {"run", "stage", "inFlight", "next", "terminal", "renderRequest",
                        "waiting"} : b[x] = app[x]
      BY <1>0, <2>1, <2>a DEF App
    <2>3. app' = Finish(c, d) /\ shown' = d
      BY <1>1 DEF Decoded
    <2>4. app' = MaybeFinishVideo(s)
      BY <2>2, <2>3 DEF Finish
    <2> HIDE DEF c, b
    <2>5. Newest(b) = Newest(app) /\ b.terminal = app.terminal /\ InTurn(b) /\ Flights(b) = Flights(app)
      BY <1>0, <2>1, <2>2 DEF Newest, InTurn, Flights, Sound
    <2>6. Ranked(b)
      BY <1>0, <2>1, <2>2 DEF Ranked, Sound, App
    <2>7. Sound(b)
      BY <1>0, <2>1, <2>2, <2>5, <2>6 DEF Sound
    <2>8. Sound(s) /\ Flights(s) = Flights(app) /\ s.run = app.run /\ s.stage = "running"
      BY <2>1, <2>2, <2>5, <2>7, ScheduleIsSound
    <2>9. StreamEnds(s, app')
      BY <2>4, <2>8, MaybeFinishIsSound
    <2>10. Sound(app') /\ timers' = Flights(app') /\ app'.run = d[1] /\ app'.stage \in {"running", "complete"}
      BY <1>0, <2>1, <2>8, <2>9 DEF StreamEnds, StreamInv
    <2> QED  BY <1>0, <2>3, <2>10 DEF StreamInv, NothingStaleIsShown
  <1>2. CASE ~CanCommit(d)
    <2>1. ~(app.run = d[1] /\ app.active = d[2] /\ IsRunning(app))
      BY <1>0, <1>2 DEF CanCommit, Sound, Ranked
    <2>2. StreamEnds(app, Finish(app, d)) /\ app' = Finish(app, d) /\ UNCHANGED shown
      BY <1>0, <1>2, <2>1, FinishKeeps DEF Decoded
    <2> QED  BY <1>0, <2>2, QuietIsSafe DEF StreamEnds, StreamInv
  <1> QED  BY <1>1, <1>2

LEMMA FrameStepsKeep ==
    ASSUME StreamInv, FrameSteps
    PROVE  StreamInv'
  <1>0. Sound(app) /\ app \in App
    BY DEF StreamInv, Sound
  <1>1. CASE Capture
    <2>1. app.run \in Runs /\ blobs[app.run] + 1 \in Nat
      BY <1>0, <1>1 DEF Capture, StreamInv, Sound
    <2>2. /\ app' \in App
          /\ \A f \in {"run", "stage", "inFlight", "next", "terminal", "renderRequest", "active", "waiting",
                       "committed", "pending"} : app'[f] = app[f]
      BY <1>0, <1>1 DEF Capture, App
    <2>3. Sound(app') /\ Flights(app') = Flights(app)
      BY <1>0, <2>2, FlagsAreFree
    <2>4. blobs' \in [Runs -> Nat]
      BY <1>1, <2>1 DEF Capture, StreamInv
    <2> QED  BY <1>1, <2>2, <2>3, <2>4, QuietIsSafe DEF Capture, StreamInv
  <1>2. CASE SourceEnds
    <2> DEFINE e == [app EXCEPT !.sourceEnded = TRUE]
    <2>1. /\ e \in App
          /\ \A f \in {"run", "stage", "inFlight", "next", "terminal", "renderRequest", "active", "waiting",
                       "committed", "pending"} : e[f] = app[f]
      BY <1>0 DEF App
    <2>2. app' = FinishVideoInput(e)
      BY <1>2 DEF SourceEnds
    <2> HIDE DEF e
    <2>3. Sound(e) /\ Flights(e) = Flights(app)
      BY <1>0, <2>1, FlagsAreFree
    <2>4. StreamEnds(e, app')
      BY <2>2, <2>3, FinishInputIsSound
    <2> QED  BY <1>2, <2>1, <2>3, <2>4, QuietIsSafe DEF SourceEnds, StreamInv, StreamEnds
  <1>3. CASE Receive
    BY <1>3, ReceiveKeeps
  <1>4. CASE ReceiveFails
    BY <1>4, FailClosedIsSafe DEF ReceiveFails, StreamInv
  <1>5. CASE RenderNext
    <2>1. /\ app.renderRequest /\ app.waiting \in 1..MaxSequence /\ app.active = 0
          /\ IsRunning(app) /\ app.run \in Runs /\ Ranked(app) /\ Newest(app) = app.terminal
          /\ InTurn(app)
          /\ app.waiting > app.committed
      <3>1. app.renderRequest /\ app.waiting \in 0..MaxSequence
        BY <1>0, <1>5 DEF RenderNext, App
      <3>2. IsRunning(app) /\ app.waiting # 0 /\ Ranked(app)
        BY <1>0, <3>1 DEF Sound, Drained, Ranked
      <3> QED  BY <1>0, <3>1, <3>2, WindowAssumption DEF Sound, Ranked
    <2>2. /\ app' \in App /\ ~app'.renderRequest /\ app'.active = app.waiting /\ app'.waiting = 0
          /\ \A f \in {"run", "stage", "inFlight", "next", "terminal", "committed", "pending"} :
                app'[f] = app[f]
      <3>1. 0 \in 0..MaxSequence
        BY WindowAssumption
      <3> QED  BY <1>0, <1>5, <3>1 DEF RenderNext, App
    <2>3. Newest(app') = Newest(app) /\ app'.terminal = app.terminal /\ InTurn(app')
          /\ Flights(app') = Flights(app) /\ Ranked(app')
      <3>1. Newest(app') = Newest(app)
        BY <2>1, <2>2 DEF Newest
      <3>2. app'.terminal = app.terminal /\ InTurn(app') /\ Flights(app') = Flights(app)
        BY <2>1, <2>2 DEF InTurn, Flights
      <3>3. Ranked(app')
        BY <2>1, <2>2 DEF Ranked
      <3> QED  BY <3>1, <3>2, <3>3
    <2>4. Sound(app')
      BY <2>1, <2>2, <2>3 DEF Sound
    <2>5. decodes' \subseteq Runs \X (1..MaxSequence)
      BY <1>5, <2>1 DEF RenderNext, StreamInv
    <2> QED  BY <1>5, <2>2, <2>3, <2>4, <2>5, QuietIsSafe DEF RenderNext, StreamInv
  <1>6. ASSUME NEW r \in Runs, Encoded(r)
        PROVE  StreamInv'
    BY <1>6, EncodedKeeps
  <1>7. ASSUME NEW r \in Runs, EncodeFails(r)
        PROVE  StreamInv'
    <2> DEFINE f == Failed(app)
    <2>1. Sound(f) /\ f.stage = "idle" /\ Flights(f) = {}
      BY <1>0, FailedIsSound
    <2>2. app' = [f EXCEPT !.encoding = FALSE] /\ timers' = timers \ Flights(app) /\ shown' = Black
      BY <1>7 DEF EncodeFails
    <2> HIDE DEF f
    <2>3. /\ app' \in App
          /\ \A x \in {"run", "stage", "inFlight", "next", "terminal", "renderRequest", "active", "waiting",
                       "committed", "pending"} : app'[x] = f[x]
      BY <2>1, <2>2 DEF App, Sound
    <2>4. Sound(app') /\ Flights(app') = {}
      BY <2>1, <2>3, FlagsAreFree
    <2>5. blobs[r] - 1 \in Nat
      BY <1>7 DEF EncodeFails, StreamInv
    <2>6. blobs' \in [Runs -> Nat]
      BY <1>7, <2>5 DEF EncodeFails, StreamInv
    <2> QED  BY <1>7, <2>2, <2>4, <2>6 DEF EncodeFails, StreamInv, NothingStaleIsShown
  <1>8. ASSUME NEW t \in timers, ResponseTimeout(t)
        PROVE  StreamInv'
    <2>1. Sound(Failed(app)) /\ Failed(app).stage = "idle" /\ Flights(Failed(app)) = {}
      BY <1>0, FailedIsSound
    <2> QED  BY <1>8, <2>1 DEF ResponseTimeout, StreamInv, NothingStaleIsShown
  <1>9. ASSUME NEW d \in decodes, Decoded(d)
        PROVE  StreamInv'
    BY <1>9, DecodedKeeps
  <1>10. ASSUME NEW d \in decodes, DecodeFails(d)
         PROVE  StreamInv'
    <2>0. /\ d \in Runs \X (1..MaxSequence) /\ blobs' \in [Runs -> Nat]
          /\ decodes' \subseteq Runs \X (1..MaxSequence)
      BY <1>10 DEF DecodeFails, StreamInv
    <2>1. CASE IsRun(app, d[1])
      BY <1>10, <2>0, <2>1, FailClosedIsSafe DEF DecodeFails
    <2>2. CASE ~IsRun(app, d[1])
      <3>1. StreamEnds(app, Finish(app, d)) /\ app' = Finish(app, d) /\ UNCHANGED <<timers, shown>>
        BY <1>0, <1>10, <2>0, <2>2, FinishKeeps DEF DecodeFails
      <3> QED  BY <2>0, <3>1, QuietIsSafe DEF StreamEnds, StreamInv
    <2> QED  BY <2>1, <2>2
  <1> QED  BY <1>1, <1>2, <1>3, <1>4, <1>5, <1>6, <1>7, <1>8, <1>9, <1>10 DEF FrameSteps

USE DEF Quiet

LEMMA RequestsSpareTheStream ==
    ASSUME Requests
    PROVE  UNCHANGED streamVars
  BY DEF Requests, NewSession, Refresh, Press, Refreshed, PressFails, SessionDeleted,
         DeleteFails, Enroll, RemoveEntry, Managed, ManageFails, Manages, Select, StatusAnswered,
         StatusFails, NewSessionCreated, RefreshCreates, DeleteSession, DeleteCreates

LEMMA StreamUnchanged ==
    ASSUME StreamInv, UNCHANGED streamVars
    PROVE  StreamInv'
  BY DEF StreamInv, streamVars, Sound, Newest, Drained, InTurn, Ranked, Flights,
         NothingStaleIsShown

(* The inductive invariant of the streaming half: every request after the last   *)
(* answer is in flight, no result is overtaken, and timers are the flights'      *)
(* (app.js:1425-1800).                                                           *)
THEOREM PageStreamInvariant == PageSpec => []StreamInv
  <1>1. SessionsInit => StreamInv
    <2> SUFFICES ASSUME SessionsInit
                 PROVE  StreamInv
      OBVIOUS
    <2> DEFINE r == [Reset(0, "camera") EXCEPT !.stage = "idle"]
    <2>1. 0 \in 0..MaxSequence /\ 1 \in 1..(MaxSequence + 1) /\ 0 \in 0..MaxRuns
      BY WindowAssumption
    <2>2. r \in App /\ r.stage = "idle" /\ r.next = 1 /\ r.inFlight = {}
          /\ r.terminal = 0 /\ ~r.pending /\ ~r.renderRequest /\ r.active = 0 /\ r.waiting = 0
      BY <2>1 DEF Reset, App
    <2>3. app = r /\ blobs = [x \in Runs |-> 0] /\ decodes = {} /\ timers = {} /\ shown = Black
      BY DEF SessionsInit, StreamInit
    <2> HIDE DEF r
    <2>5. InTurn(r) /\ Ranked(r) /\ Drained(r) /\ Flights(r) = {}
      BY <2>2 DEF InTurn, Ranked, Drained, Flights
    <2>6. Sound(r)
      BY <2>2, <2>5 DEF Sound
    <2> QED  BY <2>3, <2>5, <2>6 DEF StreamInv, NothingStaleIsShown
  <1>2. StreamInv /\ [PageNext]_pageVars => StreamInv'
    <2> SUFFICES ASSUME StreamInv, [PageNext]_pageVars
                 PROVE  StreamInv'
      OBVIOUS
    <2>1. ASSUME NEW mode \in {"camera", "video"}, StartStreaming(mode)
          PROVE  StreamInv'
      BY <2>1, StartKeeps DEF StartStreaming
    <2>2. CASE Streams
      BY <2>2, SocketStepsKeep, FrameStepsKeep DEF Streams
    <2>3. CASE Requests
      BY <2>3, RequestsSpareTheStream, StreamUnchanged
    <2>4. CASE UNCHANGED pageVars
      BY <2>4, StreamUnchanged DEF pageVars
    <2> QED  BY <2>1, <2>2, <2>3, <2>4 DEF PageNext
  <1> QED  BY <1>1, <1>2, PTL DEF PageSpec

(* What is on the canvas is of the run that streams or has completed.           *)
THEOREM NothingStaleHolds == PageSpec => []NothingStaleIsShown
  <1>1. StreamInv => NothingStaleIsShown
    BY DEF StreamInv
  <1> QED  BY <1>1, PageStreamInvariant, PTL

(* A timer that is set is a request in flight's of the run that streams.         *)
THEOREM TimersHold == PageSpec => []TimersBelongToFlights
  <1>1. StreamInv => TimersBelongToFlights
    BY DEF StreamInv, TimersBelongToFlights
  <1> QED  BY <1>1, PageStreamInvariant, PTL

(* A completed video shows the last frame that was sent.                        *)
THEOREM CompletedHolds == PageSpec => []CompletedShowsTheLast
  <1>1. StreamInv => CompletedShowsTheLast
    <2> SUFFICES ASSUME StreamInv, app.stage = "complete"
                 PROVE  app.committed = app.next - 1
      BY DEF CompletedShowsTheLast
    <2>1. /\ Drained(app) /\ Newest(app) = app.terminal /\ InTurn(app)
          /\ app.next \in 1..(MaxSequence + 1) /\ app.terminal \in 0..MaxSequence
      BY DEF StreamInv, Sound, App
    <2>2. app.terminal + 1 \in 1..MaxSequence => ~(app.terminal + 1 < app.next)
      BY <2>1 DEF Drained, InTurn
    <2>3. app.terminal = app.next - 1
      BY <2>1, <2>2, WindowAssumption DEF InTurn
    <2> QED  BY <2>1, <2>3 DEF Drained, Newest
  <1> QED  BY <1>1, PageStreamInvariant, PTL

-----------------------------------------------------------------------------
(* The sessions and the forms.                                                 *)

(* A session is never deleted while the page streams it, nor streamed while it   *)
(* is deleted (app.js:1425, app.js:1483).                                        *)
THEOREM DeletesSpareTheStreamHolds == PageSpec => []DeletesSpareTheStream
  <1>1. SessionsInit => PageInv
    BY SessionsAssumption DEF SessionsInit, PageInv, NoDelete, DeletesSpareTheStream
  <1>2. PageInv /\ [PageNext]_pageVars => PageInv'
    <2> SUFFICES ASSUME PageInv, [PageNext]_pageVars
                 PROVE  PageInv'
      OBVIOUS
    <2> USE DEF PageInv, DeletesSpareTheStream
    <2>1. ASSUME NEW mode \in {"camera", "video"}, StartStreaming(mode)
          PROVE  PageInv'
      BY <2>1 DEF StartStreaming, ControlsLocked, ManagementLocked
    <2>2. CASE Streams
      BY <2>2 DEF Streams
    <2>3. ASSUME NEW s \in Sessions, DeleteSession(s)
          PROVE  PageInv'
      BY <2>3, SessionsAssumption DEF DeleteSession
    <2>4. CASE SessionDeleted
      BY <2>4 DEF SessionDeleted
    <2>5. ASSUME NEW s \in Sessions, DeleteCreates(s)
          PROVE  PageInv'
      BY <2>5 DEF DeleteCreates
    <2>6. CASE DeleteFails
      BY <2>6 DEF DeleteFails, NoDelete
    <2>7. CASE UNCHANGED streaming /\ (deleting' = deleting \/ deleting' = NoDelete)
      BY <2>7 DEF NoDelete
    <2>8. ASSUME NEW q \in asked, StatusAnswered(q) \/ StatusFails(q)
          PROVE  UNCHANGED streaming /\ (deleting' = deleting \/ deleting' = NoDelete)
      BY <2>8 DEF StatusAnswered, StatusFails, HandlerEnds, PressEnds
    <2>9. ASSUME NEW p \in Presses,
                 \/ NewSession(p) \/ Refresh(p) \/ Refreshed(p) \/ PressFails(p)
                 \/ \E s \in Sessions : NewSessionCreated(p, s) \/ RefreshCreates(p, s)
          PROVE  UNCHANGED <<deleting, streaming>>
      BY <2>9 DEF NewSession, Refresh, Press, Refreshed, PressFails, PressEnds,
                  NewSessionCreated, RefreshCreates
    <2>10. ASSUME \/ Enroll \/ RemoveEntry \/ Managed \/ ManageFails
                  \/ \E s \in Sessions : Select(s)
           PROVE  UNCHANGED <<deleting, streaming>>
      BY <2>10 DEF Enroll, RemoveEntry, Managed, ManageFails, Manages, Select
    <2>11. CASE Requests
      BY <2>3, <2>4, <2>5, <2>6, <2>7, <2>8, <2>9, <2>10, <2>11 DEF Requests
    <2>12. CASE UNCHANGED pageVars
      BY <2>7, <2>12 DEF pageVars, sessionVars
    <2> QED  BY <2>1, <2>2, <2>11, <2>12 DEF PageNext
  <1>3. PageInv => DeletesSpareTheStream
    BY DEF PageInv
  <1> QED  BY <1>1, <1>2, <1>3, PTL DEF PageSpec

(* Whichever handlers await the status of a session, their answers replace the  *)
(* entries that are shown by those of the session that is selected then, or not  *)
(* at all (app.js:1256).                                                        *)
THEOREM LateAnswersHold == PageSpec => LateAnswersAreNotShown
  <1> DEFINE Shown == entriesOf' # entriesOf => entriesOf' \in {0, selected'}
  <1>1. [PageNext]_pageVars => [Shown]_entriesOf
    <2> SUFFICES ASSUME [PageNext]_pageVars
                 PROVE  Shown
      OBVIOUS
    <2>1. CASE UNCHANGED entriesOf
      BY <2>1
    <2>2. ASSUME NEW q \in asked, StatusAnswered(q)
          PROVE  Shown
      <3>1. CASE selected = q.of
        <4>1. entriesOf' = selected /\ selected \in known'
          BY <2>2, <3>1 DEF StatusAnswered
        <4>2. selected' = selected
          BY <2>2, <4>1 DEF StatusAnswered, HandlerEnds, PressEnds, Render
        <4> QED  BY <4>1, <4>2
      <3>2. CASE selected # q.of
        BY <2>2, <3>2 DEF StatusAnswered
      <3> QED  BY <3>1, <3>2
    <2>3. ASSUME NEW s \in Sessions, Select(s)
          PROVE  Shown
      BY <2>3 DEF Select
    <2>4. ASSUME NEW mode \in {"camera", "video"}, StartStreaming(mode)
          PROVE  UNCHANGED entriesOf
      BY <2>4 DEF StartStreaming
    <2>5. CASE Streams
      BY <2>1, <2>5 DEF Streams
    <2>6. ASSUME NEW q \in asked, StatusFails(q)
          PROVE  UNCHANGED entriesOf
      BY <2>6 DEF StatusFails
    <2>7. ASSUME \/ SessionDeleted \/ DeleteFails \/ Enroll \/ RemoveEntry \/ Managed \/ ManageFails
                 \/ \E s \in Sessions : DeleteSession(s) \/ DeleteCreates(s)
          PROVE  UNCHANGED entriesOf
      BY <2>7 DEF SessionDeleted, DeleteFails, Enroll, RemoveEntry, Managed, ManageFails, Manages,
                  DeleteSession, DeleteCreates
    <2>8. ASSUME NEW p \in Presses,
                 \/ NewSession(p) \/ Refresh(p) \/ Refreshed(p) \/ PressFails(p)
                 \/ \E s \in Sessions : NewSessionCreated(p, s) \/ RefreshCreates(p, s)
          PROVE  UNCHANGED entriesOf
      BY <2>8 DEF NewSession, Refresh, Press, Refreshed, PressFails, NewSessionCreated,
                  RefreshCreates
    <2>9. CASE Requests
      BY <2>1, <2>2, <2>3, <2>6, <2>7, <2>8, <2>9 DEF Requests
    <2>10. CASE UNCHANGED pageVars
      BY <2>1, <2>10 DEF pageVars, sessionVars
    <2> QED  BY <2>1, <2>4, <2>5, <2>9, <2>10 DEF PageNext
  <1> QED  BY <1>1, PTL DEF PageSpec, LateAnswersAreNotShown

LEMMA PicturesStep ==
    ASSUME PicturesInv, [FormsNext]_formVars
    PROVE  PicturesInv'
  <1> USE DEF PicturesInv, faceVars, pictureVars
  <1>1. CASE ChooseImage
    BY <1>1 DEF ChooseImage, Chooses, Hides
  <1>2. ASSUME NEW isFile \in BOOLEAN, ChooseNoImage(isFile)
        PROVE  PicturesInv'
    BY <1>2 DEF ChooseNoImage, Chooses, Hides
  <1>3. CASE RunInference \/ InferenceShown \/ InferenceFails
    BY <1>3 DEF RunInference, InferenceShown, InferenceFails
  <1>4. ASSUME NEW n \in 0..AtOnce, ChooseFaces(n)
        PROVE  PicturesInv'
    BY <1>4 DEF ChooseFaces, Chooses
  <1>5. CASE EnrollChosen \/ FacePrepared \/ FaceUploaded \/ FaceFails \/ EnrollmentEnds \/ Removal
    BY <1>5 DEF EnrollChosen, FacePrepared, FaceUploaded, FaceFails, EnrollmentEnds, Removal
  <1>6. CASE UNCHANGED formVars
    BY <1>6 DEF formVars
  <1> QED  BY <1>1, <1>2, <1>3, <1>4, <1>5, <1>6 DEF FormsNext

\* A step that changes what rows say and nothing else of them.
SameFiles ==
    /\ DOMAIN rows' = DOMAIN rows /\ rows' \in Seq(Row)
    /\ \A i \in DOMAIN rows : rows'[i].file = rows[i].file

LEMMA WordsKeepFiles ==
    ASSUME rows \in Seq(Row), SameFiles, NEW files, RowsShow(files)
    PROVE  /\ Len(rows') = Len(files)
           /\ \A i \in DOMAIN files : files \in Seq(1..Faces) => rows'[i].file = files[i]
  BY DEF RowsShow, SameFiles

LEMMA SaysKeepsFiles ==
    ASSUME rows \in Seq(Row), NEW i \in DOMAIN rows,
           NEW w \in {"ready", "preparing", "uploading", "success", "error"},
           rows' = [rows EXCEPT ![i].says = w]
    PROVE  /\ SameFiles
           /\ \A j \in DOMAIN rows : rows'[j].says = IF j = i THEN w ELSE rows[j].says
  <1>1. rows \in [1..Len(rows) -> Row] /\ DOMAIN rows = 1..Len(rows) /\ Len(rows) \in Nat
    OBVIOUS
  <1>2. rows[i] \in Row /\ [rows[i] EXCEPT !.says = w] \in Row
        /\ [rows[i] EXCEPT !.says = w].file = rows[i].file
        /\ [rows[i] EXCEPT !.says = w].says = w
    BY <1>1 DEF Row
  <1> DEFINE row == [rows[i] EXCEPT !.says = w]
  <1>3. rows' = [rows EXCEPT ![i] = row]
    OBVIOUS
  <1> HIDE DEF row
  <1>4. row \in Row /\ row.file = rows[i].file /\ row.says = w
    BY <1>2 DEF row
  <1>5. rows' \in [1..Len(rows) -> Row]
        /\ \A j \in 1..Len(rows) : rows'[j] = IF j = i THEN row ELSE rows[j]
    BY <1>1, <1>3, <1>4
  <1>6. rows' \in Seq(Row)
    BY <1>1, <1>5, IsASeq
  <1> QED  BY <1>1, <1>4, <1>5, <1>6 DEF SameFiles

LEMMA SaysStep ==
    ASSUME RowsInv, sending # <<>>, handing = "preparing" \/ handing = "uploading",
           NEW w \in {"preparing", "uploading"}, Says(w),
           UNCHANGED <<faces, chosen, sending, at, enrolled, crossed>>
    PROVE  RowsInv'
  <1>1. CASE at \in DOMAIN rows
    <2>1. /\ SameFiles
          /\ \A j \in DOMAIN rows : rows'[j].says = IF j = at THEN w ELSE rows[j].says
      BY <1>1, SaysKeepsFiles DEF Says, RowsInv, FormShape
    <2> QED  BY <2>1, WordsKeepFiles DEF RowsInv, FormShape, SameFiles, RowsShow
  <1>2. CASE at \notin DOMAIN rows
    BY <1>2 DEF Says, RowsInv, FormShape, RowsShow
  <1> QED  BY <1>1, <1>2

LEMMA NextFaceKeepsFiles ==
    ASSUME RowsInv, sending # <<>>, NEW w \in {"success", "error"}, NextFace(w)
    PROVE  /\ SameFiles /\ at' \in 1..Len(sending)
           /\ \A i \in DOMAIN rows :
                 rows'[i].says = "success" => rows[i].says = "success" \/ (i = at /\ w = "success")
  <1>1. rows \in [1..Len(rows) -> Row] /\ DOMAIN rows = 1..Len(rows) /\ Len(rows) \in Nat
        /\ at \in 1..Len(sending) /\ Len(sending) \in Nat
    BY DEF RowsInv, FormShape
  <1>2. \A i \in DOMAIN rows : rows[i] \in Row
                /\ Goes(w, i) \in {"ready", "preparing", "uploading", "success", "error"}
    BY <1>1 DEF Goes, Row
  <1>3. rows' = [i \in DOMAIN rows |-> [rows[i] EXCEPT !.says = Goes(w, i)]]
    BY DEF NextFace
  <1>4. \A i \in DOMAIN rows : /\ rows'[i] \in Row /\ rows'[i].file = rows[i].file
                               /\ rows'[i].says = Goes(w, i)
    <2> SUFFICES ASSUME NEW i \in DOMAIN rows
                 PROVE  /\ rows'[i] \in Row /\ rows'[i].file = rows[i].file
                        /\ rows'[i].says = Goes(w, i)
      OBVIOUS
    <2>1. rows'[i] = [rows[i] EXCEPT !.says = Goes(w, i)]
      BY <1>3
    <2> DEFINE g == Goes(w, i)
    <2>2. g \in {"ready", "preparing", "uploading", "success", "error"} /\ rows[i] \in Row
          /\ rows'[i] = [rows[i] EXCEPT !.says = g]
      BY <1>2, <2>1
    <2> HIDE DEF g
    <2>3. rows'[i] \in Row /\ rows'[i].file = rows[i].file /\ rows'[i].says = g
      BY <2>2 DEF Row
    <2> QED  BY <2>3 DEF g
  <1>5. DOMAIN rows' = DOMAIN rows /\ rows' \in Seq(Row)
    <2>1. DOMAIN rows' = DOMAIN rows /\ rows' \in [1..Len(rows) -> Row]
      BY <1>1, <1>3, <1>4
    <2> QED  BY <1>1, <2>1, IsASeq
  <1>6. at' \in 1..Len(sending)
    BY <1>1 DEF NextFace
  <1>7. \A i \in DOMAIN rows :
           Goes(w, i) = "success" => rows[i].says = "success" \/ (i = at /\ w = "success")
    BY DEF Goes
  <1> QED  BY <1>4, <1>5, <1>6, <1>7 DEF SameFiles

LEMMA RowsStep ==
    ASSUME RowsInv, [FormsNext]_formVars
    PROVE  RowsInv'
  <1> USE DEF pictureVars
  <1>1. ASSUME NEW n \in 0..AtOnce, ChooseFaces(n)
        PROVE  RowsInv'
    <2>1. n \in Nat /\ faces \in Nat /\ faces + n <= Faces /\ faces + n \in 0..Faces
          /\ \A i \in 1..n : faces + i \in 1..Faces
      BY <1>1, FormsAssumption DEF ChooseFaces, RowsInv, FormShape
    <2>2. chosen' = [i \in 1..n |-> faces + i] /\ chosen' \in Seq(1..Faces)
      BY <1>1, <2>1, IsASeq DEF ChooseFaces
    <2>3. /\ rows' = [i \in 1..n |-> [file |-> faces + i, says |-> "ready"]]
          /\ rows' \in Seq(Row)
      <3>1. \A i \in 1..n : [file |-> faces + i, says |-> "ready"] \in Row
        BY <2>1 DEF Row
      <3>2. rows' = [i \in 1..n |-> [file |-> faces + i, says |-> "ready"]]
        BY <1>1 DEF ChooseFaces
      <3>3. rows' \in [1..n -> Row]
        BY <3>1, <3>2
      <3>4. rows' \in Seq(Row)
        BY <2>1, <3>3, IsASeq
      <3> QED  BY <3>2, <3>4
    <2>4. Len(chosen') = n /\ Len(rows') = n
      BY <2>1, <2>2, <2>3
    <2>5. \A i \in 1..n : rows'[i].file = chosen'[i] /\ rows'[i].says = "ready"
      BY <2>2, <2>3
    <2>6. RowsShow(chosen)'
      BY <2>1, <2>2, <2>4, <2>5 DEF RowsShow
    <2>7. "faces" \notin crossed' => sending = <<>>
      BY <1>1 DEF ChooseFaces, Chooses
    <2>8. \A i \in DOMAIN rows' : rows'[i].says # "success"
      BY <2>1, <2>3, <2>5
    <2> QED  BY <1>1, <2>1, <2>2, <2>3, <2>6, <2>7, <2>8 DEF ChooseFaces, RowsInv, FormShape
  <1>2. CASE EnrollChosen
    <2>1. chosen # <<>> /\ RowsShow(chosen) /\ chosen \in Seq(1..Faces) /\ rows \in Seq(Row)
          /\ sending = <<>>
      BY <1>2 DEF EnrollChosen, RowsInv, FormShape
    <2>2. 1 \in DOMAIN rows /\ 1 \in 1..Len(chosen)
      BY <2>1 DEF RowsShow
    <2>3. /\ SameFiles
          /\ \A j \in DOMAIN rows : rows'[j].says = IF j = 1 THEN "preparing" ELSE rows[j].says
      BY <1>2, <2>1, <2>2, SaysKeepsFiles DEF EnrollChosen
    <2>4. sending' = chosen /\ chosen' = chosen /\ at' = 1
          /\ UNCHANGED <<faces, enrolled, crossed>>
      BY <1>2 DEF EnrollChosen
    <2>5. RowsShow(chosen)' /\ RowsShow(sending)'
      BY <2>1, <2>3, <2>4, WordsKeepFiles DEF RowsShow
    <2> QED  BY <2>1, <2>2, <2>3, <2>4, <2>5 DEF RowsInv, FormShape, SameFiles
  <1>3. CASE FacePrepared
    BY <1>3, SaysStep DEF FacePrepared
  <1>4. CASE FaceUploaded
    <2>1. /\ SameFiles /\ at' \in 1..Len(sending)
          /\ \A i \in DOMAIN rows : rows'[i].says = "success" => rows[i].says = "success" \/ i = at
      BY <1>4, NextFaceKeepsFiles DEF FaceUploaded
    <2>2. UNCHANGED <<faces, chosen, sending, crossed>> /\ sending # <<>>
          /\ enrolled' = enrolled \cup {sending[at]}
      BY <1>4 DEF FaceUploaded
    <2>3. "faces" \notin crossed /\ at \in DOMAIN rows => rows[at].file = sending[at]
      BY <2>2 DEF RowsInv, FormShape, RowsShow
    <2>4. "faces" \notin crossed' => \A i \in DOMAIN rows' : rows'[i].says = "success" => rows'[i].file \in enrolled'
      BY <2>1, <2>2, <2>3 DEF RowsInv, SameFiles
    <2>5. /\ chosen' # <<>> => RowsShow(chosen)'
          /\ sending' # <<>> /\ "faces" \notin crossed' => RowsShow(sending)'
      BY <2>1, <2>2, WordsKeepFiles DEF RowsInv, FormShape, RowsShow
    <2> QED  BY <2>1, <2>2, <2>4, <2>5 DEF RowsInv, FormShape, SameFiles
  <1>5. CASE FaceFails
    <2>1. /\ SameFiles /\ at' \in 1..Len(sending)
          /\ \A i \in DOMAIN rows : rows'[i].says = "success" => rows[i].says = "success"
      BY <1>5, NextFaceKeepsFiles DEF FaceFails
    <2>2. UNCHANGED <<faces, chosen, sending, crossed>> /\ sending # <<>> /\ enrolled \subseteq enrolled'
      BY <1>5 DEF FaceFails
    <2>3. "faces" \notin crossed' => \A i \in DOMAIN rows' : rows'[i].says = "success" => rows'[i].file \in enrolled'
      BY <2>1, <2>2 DEF RowsInv, SameFiles
    <2>4. /\ chosen' # <<>> => RowsShow(chosen)'
          /\ sending' # <<>> /\ "faces" \notin crossed' => RowsShow(sending)'
      BY <2>1, <2>2, WordsKeepFiles DEF RowsInv, FormShape, RowsShow
    <2> QED  BY <2>1, <2>2, <2>3, <2>4 DEF RowsInv, FormShape, SameFiles
  <1>6. CASE EnrollmentEnds
    BY <1>6 DEF EnrollmentEnds, RowsInv, FormShape, RowsShow
  <1>7. CASE Removal
    BY <1>7 DEF Removal, RowsInv, FormShape, RowsShow
  <1>8. ASSUME \/ ChooseImage \/ (\E isFile \in BOOLEAN : ChooseNoImage(isFile))
               \/ RunInference \/ InferenceShown \/ InferenceFails \/ UNCHANGED formVars
        PROVE  UNCHANGED faceVars /\ ("faces" \notin crossed' => "faces" \notin crossed)
    BY <1>8 DEF ChooseImage, ChooseNoImage, RunInference, InferenceShown, InferenceFails, formVars, Chooses
  <1>9. CASE UNCHANGED faceVars /\ ("faces" \notin crossed' => "faces" \notin crossed)
    BY <1>9 DEF faceVars, RowsInv, FormShape, RowsShow
  <1> QED  BY <1>1, <1>2, <1>3, <1>4, <1>5, <1>6, <1>7, <1>8, <1>9 DEF FormsNext

(* What the page says of a file is true of that file, for any number of images,  *)
(* of faces and of faces chosen at once (app.js:964, app.js:1038).               *)
THEOREM SaysTrueHolds == FormsSpec => []SaysTrue
  <1>1. FormsInit => PicturesInv /\ RowsInv
    BY FormsAssumption DEF FormsInit, PicturesInv, RowsInv, FormShape
  <1>2. PicturesInv /\ RowsInv /\ [FormsNext]_formVars => PicturesInv' /\ RowsInv'
    BY PicturesStep, RowsStep
  <1>3. PicturesInv /\ RowsInv => SaysTrue
    BY DEF PicturesInv, RowsInv, SaysTrue
  <1> QED  BY <1>1, <1>2, <1>3, PTL DEF FormsSpec
=============================================================================
