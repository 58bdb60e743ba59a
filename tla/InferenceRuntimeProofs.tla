----------------------- MODULE InferenceRuntimeProofs -----------------------
(***************************************************************************)
(* Proofs about PriorityLane and about the runtime over it, for any sets of *)
(* callers: the lane's inductive invariant and what follows from it, that   *)
(* the lane implements LaneContract, and that both still hold when the      *)
(* callers run on the executor.  Then the swap lab, for any clients, queue  *)
(* and batch: the order of its jobs (SwapLab), and the numberings of the    *)
(* composition of a frame (SwapPass), with what slicing a batch by the size *)
(* of the engine and joining the rows gives back.                           *)
(***************************************************************************)
EXTENDS InferenceRuntime, SwapLab, SwapPass, QueueFacts, FiniteSetTheorems

-----------------------------------------------------------------------------
(* Facts about the queues of the lane                                       *)

\* _next_waiter's trimming: the first future that is not cancelled is at
\* the head of what is left, and only cancelled futures are dropped.
LEMMA DropCancelledFacts ==
  ASSUME NEW S, NEW q \in Seq(S), IsInjective(q)
  PROVE  /\ DropCancelled(q) \in Seq(S)
         /\ IsInjective(DropCancelled(q))
         /\ ToSet(DropCancelled(q)) \subseteq ToSet(q)
         /\ \A t \in ToSet(q) : waiter[t] # "cancelled" => t \in ToSet(DropCancelled(q))
<1> DEFINE d == DropCancelled(q)
           m == Min(AliveAt(q))
<1>1. /\ Len(q) \in Nat
      /\ \A i \in 1..Len(q) : q[i] \in S
      /\ DOMAIN q = 1..Len(q)
      /\ \A i, j \in 1..Len(q) : q[i] = q[j] => i = j
  BY LenProperties, ElementOfSeq DEF IsInjective
<1>2. CASE ~SomeAlive(q)
  <2>1. d = <<>> /\ \A j \in 1..Len(q) : waiter[q[j]] = "cancelled"
    BY <1>2 DEF DropCancelled, SomeAlive, AliveAt
  <2>2. <<>> \in Seq(S) /\ ToSet(<<>>) = {} /\ IsInjective(<<>>)
    BY EmptySeq DEF ToSet, IsInjective
  <2>3. \A t \in ToSet(q) : waiter[t] = "cancelled"
    BY <1>1, <2>1 DEF ToSet
  <2> QED
    BY <2>1, <2>2, <2>3
<1>3. CASE SomeAlive(q)
  <2>1. m \in 1..Len(q) /\ \A i \in AliveAt(q) : m <= i
    <3>1. AliveAt(q) \in SUBSET Nat /\ AliveAt(q) # {}
      BY <1>1, <1>3 DEF AliveAt, SomeAlive
    <3>2. m \in AliveAt(q) /\ \A i \in AliveAt(q) : m <= i
      BY <3>1, MinIsLeast
    <3> QED
      BY <3>2 DEF AliveAt
  <2>2. d = SubSeq(q, m, Len(q))
    BY <1>3 DEF DropCancelled
  <2> HIDE DEF m
  <2>3. /\ d \in Seq(S)
        /\ Len(d) = Len(q) - m + 1
        /\ \A i \in 1..(Len(q) - m + 1) : d[i] = q[m + i - 1]
    BY <1>1, <2>1, <2>2, SubSeqProperties
  <2> HIDE DEF d
  <2>4. Len(d) \in Nat /\ DOMAIN d = 1..Len(d)
    BY <2>3, LenProperties
  <2>5. \A i \in 1..Len(d) : m + i - 1 \in 1..Len(q) /\ d[i] = q[m + i - 1]
    BY <1>1, <2>1, <2>3
  <2>6. ASSUME NEW j \in 1..Len(q), waiter[q[j]] # "cancelled"
        PROVE  \E i \in 1..Len(d) : d[i] = q[j]
    <3>1. m <= j
      BY <2>1, <2>6 DEF AliveAt
    <3>2. j - m + 1 \in 1..Len(d) /\ m + (j - m + 1) - 1 = j
      BY <1>1, <2>1, <2>3, <3>1
    <3> QED
      BY <2>5, <3>2
  <2>7. ASSUME NEW i \in 1..Len(d), NEW j \in 1..Len(d), d[i] = d[j]
        PROVE  i = j
    <3>1. m + i - 1 = m + j - 1
      BY <1>1, <2>5, <2>7
    <3> QED
      BY <1>1, <2>1, <2>4, <3>1
  <2>8. /\ ToSet(d) = {d[i] : i \in 1..Len(d)}
        /\ ToSet(q) = {q[j] : j \in 1..Len(q)}
    BY <1>1, <2>4 DEF ToSet
  <2>9. ToSet(d) \subseteq ToSet(q)
    BY <2>5, <2>8
  <2>10. \A t \in ToSet(q) : waiter[t] # "cancelled" => t \in ToSet(d)
    BY <2>6, <2>8
  <2>11. IsInjective(d)
    BY <2>4, <2>7 DEF IsInjective
  <2> QED
    BY <2>3, <2>9, <2>10, <2>11 DEF d
<1> QED
  BY <1>2, <1>3

\* What _next_waiter returns, and what it means that it returns None.
LEMMA FirstAliveFacts ==
  ASSUME NEW S, NEW q \in Seq(S)
  PROVE  /\ SomeAlive(q) => /\ FirstAlive(q) \in ToSet(q)
                            /\ FirstAlive(q) \in S
                            /\ waiter[FirstAlive(q)] # "cancelled"
         /\ ~SomeAlive(q) => \A t \in ToSet(q) : waiter[t] = "cancelled"
<1>1. /\ Len(q) \in Nat
      /\ \A i \in 1..Len(q) : q[i] \in S
      /\ DOMAIN q = 1..Len(q)
  BY LenProperties, ElementOfSeq
<1>2. AliveAt(q) \in SUBSET Nat
  BY <1>1 DEF AliveAt
<1>3. SomeAlive(q) => Min(AliveAt(q)) \in AliveAt(q)
  BY <1>2, MinIsLeast DEF SomeAlive
<1> QED
  BY <1>1, <1>3 DEF FirstAlive, AliveAt, SomeAlive, ToSet

-----------------------------------------------------------------------------
(* The invariant *)

LEMMA LaneInitInv == LaneInit => LaneInv
<1> SUFFICES ASSUME LaneInit PROVE LaneInv
  OBVIOUS
<1>1. LaneTypeOK
  <2>1. /\ liveWaiters \in Seq(Live)
        /\ vodWaiters \in Seq(Vod)
    BY EmptySeq DEF LaneInit
  <2>2. /\ held \in BOOLEAN
        /\ waiter \in [Callers -> FutureStates]
        /\ pc \in [Callers -> {"out", "waiting", "in"}]
        /\ mustCancel \in [Callers -> BOOLEAN]
    BY DEF LaneInit, FutureStates
  <2> QED
    BY <2>1, <2>2 DEF LaneTypeOK
<1>2. Owners = {}
  BY DEF LaneInit, Owners
<1>3. /\ SuspendedOnAFuture
      /\ QueueOfWaiters(liveWaiters)
      /\ QueueOfWaiters(vodWaiters)
      /\ PendingIsQueued
  <2>1. ToSet(<<>>) = {} /\ IsInjective(<<>>)
    BY DEF ToSet, IsInjective
  <2>2. QueueOfWaiters(liveWaiters) /\ QueueOfWaiters(vodWaiters)
    BY <2>1 DEF LaneInit, QueueOfWaiters
  <2>3. SuspendedOnAFuture /\ PendingIsQueued
    BY DEF LaneInit, SuspendedOnAFuture, PendingIsQueued, Callers
  <2> QED
    BY <2>2, <2>3
<1>4. SingleOwner /\ HeldIffOwned /\ WaitersHaveAnOwner
  BY <1>2 DEF LaneInit, SingleOwner, HeldIffOwned, WaitersHaveAnOwner, Callers
<1> QED
  BY <1>1, <1>3, <1>4 DEF LaneInv

\* The body of release(): the one owner t gives the lane up, and either one
\* pending future becomes the owner or nobody waits and the lane is free.
LEMMA HandOnStep ==
  ASSUME LaneTypeOK, SuspendedOnAFuture,
         NEW t \in Callers, Owners = {t},
         NEW lq \in Seq(Live), NEW vq \in Seq(Vod),
         QueueOfWaiters(lq), QueueOfWaiters(vq),
         t \notin ToSet(lq), t \notin ToSet(vq),
         \A s \in Live : waiter[s] = "pending" => s \in ToSet(lq),
         \A s \in Vod : waiter[s] = "pending" => s \in ToSet(vq),
         HandOn(t, lq, vq),
         pc' = [pc EXCEPT ![t] = "out"],
         mustCancel' = [mustCancel EXCEPT ![t] = FALSE]
  PROVE  LaneInv'
<1> DEFINE trimmed(q, d) ==
             /\ IsInjective(d)
             /\ ToSet(d) \subseteq ToSet(q)
             /\ \A s \in ToSet(q) : waiter[s] # "cancelled" => s \in ToSet(d)
<1>1. liveWaiters' \in Seq(Live) /\ trimmed(lq, liveWaiters')
  <2>1. IsInjective(lq) /\ liveWaiters' = DropCancelled(lq)
    BY DEF HandOn, QueueOfWaiters
  <2> QED
    BY <2>1, DropCancelledFacts
<1>2. vodWaiters' \in Seq(Vod) /\ trimmed(vq, vodWaiters')
  <2>1. IsInjective(vq)
    BY DEF QueueOfWaiters
  <2>2. vodWaiters' = vq \/ vodWaiters' = DropCancelled(vq)
    BY DEF HandOn, DropCancelled
  <2> QED
    BY <2>1, <2>2, DropCancelledFacts
<1> HIDE DEF trimmed
<1>3. mustCancel[t] \in BOOLEAN /\ waiter \in [Callers -> FutureStates]
  BY DEF LaneTypeOK
<1>4. \A s \in Callers \ {t} : pc[s] # "in" /\ waiter[s] # "granted"
  BY DEF Owners
<1>7. ToSet(lq) \cup ToSet(vq) \subseteq Callers \ {t}
  BY QueueElements DEF Callers
<1>5. CASE /\ waiter' = [waiter EXCEPT ![t] = "none"]
           /\ held' = FALSE
           /\ ~SomeAlive(lq)
           /\ ~SomeAlive(vq)
  <2>1. \A s \in ToSet(lq) \cup ToSet(vq) : waiter[s] = "cancelled"
    BY <1>5, FirstAliveFacts
  <2>2. \A s \in Callers : waiter'[s] # "pending"
    BY <1>3, <1>5, <2>1 DEF Callers
  <2>3. \A s \in Callers : waiter'[s] = IF s = t THEN "none" ELSE waiter[s]
    BY <1>3, <1>5
  <2>4. Owners' = {}
    BY <1>3, <1>4, <2>3 DEF Owners, LaneTypeOK
  <2>5. LaneTypeOK'
    BY <1>1, <1>2, <1>3, <1>5 DEF LaneTypeOK, FutureStates
  <2>6. SuspendedOnAFuture'
    BY <1>3, <2>3 DEF SuspendedOnAFuture, LaneTypeOK
  <2>7. QueueOfWaiters(liveWaiters)' /\ QueueOfWaiters(vodWaiters)'
    <3>1. \A s \in ToSet(lq) \cup ToSet(vq) : waiter'[s] # "none"
      BY <1>7, <2>3 DEF QueueOfWaiters
    <3> QED
      BY <1>1, <1>2, <3>1 DEF QueueOfWaiters, trimmed
  <2>8. PendingIsQueued' /\ WaitersHaveAnOwner'
    BY <2>2 DEF PendingIsQueued, WaitersHaveAnOwner, Callers
  <2>9. SingleOwner' /\ HeldIffOwned'
    BY <1>5, <2>4 DEF SingleOwner, HeldIffOwned
  <2> QED
    BY <2>5, <2>6, <2>7, <2>8, <2>9 DEF LaneInv
<1>6. CASE \E n \in ToSet(lq) \cup ToSet(vq) :
             /\ n \in Callers
             /\ waiter[n] # "cancelled"
             /\ waiter' = [[waiter EXCEPT ![t] = "none"] EXCEPT ![n] = "granted"]
             /\ held' = held
  <2>1. PICK n \in ToSet(lq) \cup ToSet(vq) :
             /\ n \in Callers
             /\ waiter[n] # "cancelled"
             /\ waiter' = [[waiter EXCEPT ![t] = "none"] EXCEPT ![n] = "granted"]
             /\ held' = held
    BY <1>6
  <2>2. n # t /\ waiter[n] = "pending"
    BY <1>3, <1>4, <1>7, <2>1 DEF QueueOfWaiters, FutureStates
  <2>3. \A s \in Callers : waiter'[s] = IF s = t THEN "none"
                                      ELSE IF s = n THEN "granted" ELSE waiter[s]
    BY <1>3, <2>1, <2>2
  <2>4. Owners' = {n}
    BY <1>4, <2>1, <2>2, <2>3, <1>3 DEF Owners, LaneTypeOK, SuspendedOnAFuture
  <2>5. LaneTypeOK'
    BY <1>1, <1>2, <1>3, <2>1 DEF LaneTypeOK, FutureStates
  <2>6. SuspendedOnAFuture'
    BY <1>3, <2>1, <2>2, <2>3 DEF SuspendedOnAFuture, LaneTypeOK
  <2>7. QueueOfWaiters(liveWaiters)' /\ QueueOfWaiters(vodWaiters)'
    <3>1. \A s \in ToSet(lq) \cup ToSet(vq) : waiter'[s] # "none"
      BY <1>7, <2>3 DEF QueueOfWaiters
    <3> QED
      BY <1>1, <1>2, <3>1 DEF QueueOfWaiters, trimmed
  <2>8. PendingIsQueued'
    BY <1>1, <1>2, <2>3 DEF PendingIsQueued, trimmed, Callers
  <2>9. SingleOwner' /\ HeldIffOwned' /\ WaitersHaveAnOwner'
    BY <2>1, <2>4 DEF SingleOwner, HeldIffOwned, WaitersHaveAnOwner, HandOn
  <2> QED
    BY <2>5, <2>6, <2>7, <2>8, <2>9 DEF LaneInv
<1> QED
  <2>1. CASE SomeAlive(lq)
    BY <1>6, <2>1, FirstAliveFacts DEF HandOn, Callers
  <2>2. CASE ~SomeAlive(lq) /\ SomeAlive(vq)
    BY <1>6, <2>2, FirstAliveFacts DEF HandOn, Callers
  <2>3. CASE ~SomeAlive(lq) /\ ~SomeAlive(vq)
    BY <1>5, <2>3 DEF HandOn
  <2> QED
    BY <2>1, <2>2, <2>3

\* A granted task resumes, or a cancelled one leaves the queue.
LEMMA QueueMinus ==
  ASSUME LaneTypeOK,
         QueueOfWaiters(liveWaiters), QueueOfWaiters(vodWaiters),
         NEW t \in Callers,
         liveWaiters' = RemoveFirst(liveWaiters, t),
         vodWaiters' = RemoveFirst(vodWaiters, t),
         \A s \in Callers \ {t} : waiter'[s] = waiter[s]
  PROVE  /\ liveWaiters' \in Seq(Live) /\ vodWaiters' \in Seq(Vod)
         /\ ToSet(liveWaiters') = ToSet(liveWaiters) \ {t}
         /\ ToSet(vodWaiters') = ToSet(vodWaiters) \ {t}
         /\ QueueOfWaiters(liveWaiters)' /\ QueueOfWaiters(vodWaiters)'
<1>1. /\ liveWaiters \in Seq(Live) /\ IsInjective(liveWaiters)
      /\ vodWaiters \in Seq(Vod) /\ IsInjective(vodWaiters)
  BY DEF LaneTypeOK, QueueOfWaiters
<1>2. ToSet(liveWaiters) \cup ToSet(vodWaiters) \subseteq Callers
  BY <1>1, QueueElements DEF Callers
<1>3. /\ liveWaiters' \in Seq(Live) /\ IsInjective(liveWaiters')
      /\ ToSet(liveWaiters') = ToSet(liveWaiters) \ {t}
  BY <1>1, RemoveFirstFacts
<1>4. /\ vodWaiters' \in Seq(Vod) /\ IsInjective(vodWaiters')
      /\ ToSet(vodWaiters') = ToSet(vodWaiters) \ {t}
  BY <1>1, RemoveFirstFacts
<1> QED
  BY <1>2, <1>3, <1>4 DEF QueueOfWaiters

LEMMA LaneStepInv == LaneInv /\ [LaneNext]_laneVars => LaneInv'
<1> SUFFICES ASSUME LaneInv, [LaneNext]_laneVars PROVE LaneInv'
  OBVIOUS
<1>0. /\ LaneTypeOK
      /\ SuspendedOnAFuture
      /\ QueueOfWaiters(liveWaiters)
      /\ QueueOfWaiters(vodWaiters)
      /\ PendingIsQueued
      /\ SingleOwner
      /\ HeldIffOwned
      /\ WaitersHaveAnOwner
  BY DEF LaneInv
<1>q. /\ ToSet(liveWaiters) \subseteq Live
      /\ ToSet(vodWaiters) \subseteq Vod
      /\ \A s \in ToSet(liveWaiters) \cup ToSet(vodWaiters) : waiter[s] # "none"
  BY <1>0, QueueElements DEF LaneTypeOK, QueueOfWaiters
<1>1. ASSUME NEW t \in Callers, AcquireNow(t) PROVE LaneInv'
  <2>1. Owners = {}
    BY <1>0, <1>1 DEF HeldIffOwned, AcquireNow
  <2>2. Owners' = {t}
    BY <1>0, <1>1, <2>1 DEF Owners, AcquireNow, LaneTypeOK
  <2>3. LaneTypeOK' /\ SuspendedOnAFuture'
    BY <1>0, <1>1 DEF AcquireNow, LaneTypeOK, SuspendedOnAFuture
  <2>4. QueueOfWaiters(liveWaiters)' /\ QueueOfWaiters(vodWaiters)' /\ PendingIsQueued'
    BY <1>0, <1>1 DEF AcquireNow, QueueOfWaiters, PendingIsQueued
  <2>5. SingleOwner' /\ HeldIffOwned' /\ WaitersHaveAnOwner'
    BY <1>1, <2>2 DEF AcquireNow, SingleOwner, HeldIffOwned, WaitersHaveAnOwner
  <2> QED
    BY <2>3, <2>4, <2>5 DEF LaneInv
<1>2. ASSUME NEW t \in Callers, AcquireWait(t) PROVE LaneInv'
  <2>1. waiter[t] = "none" /\ pc[t] = "out"
    BY <1>0, <1>2 DEF AcquireWait, SuspendedOnAFuture
  <2>2. \A s \in Callers : waiter'[s] = IF s = t THEN "pending" ELSE waiter[s]
    BY <1>0, <1>2 DEF AcquireWait, LaneTypeOK
  <2>3. held
    <3>1. ASSUME Blocked(t) PROVE Owners # {}
      <4>1. PICK s \in ToSet(liveWaiters) \cup ToSet(vodWaiters) :
               waiter[s] # "cancelled"
        BY <1>0, <3>1, FirstAliveFacts DEF Blocked, LaneTypeOK
      <4>2. s \in Callers /\ waiter[s] \in {"pending", "granted"}
        BY <1>0, <1>q, <4>1 DEF LaneTypeOK, FutureStates, Callers
      <4> QED
        BY <1>0, <4>2 DEF WaitersHaveAnOwner, Owners
    <3> QED
      BY <1>0, <1>2, <3>1 DEF AcquireWait, HeldIffOwned
  <2>4. Owners' = Owners
    BY <1>0, <1>2, <2>1, <2>2 DEF AcquireWait, Owners, LaneTypeOK
  <2>5. /\ liveWaiters' \in Seq(Live) /\ IsInjective(liveWaiters')
        /\ ToSet(liveWaiters) \subseteq ToSet(liveWaiters')
        /\ ToSet(liveWaiters') \subseteq ToSet(liveWaiters) \cup {t}
        /\ t \in Live => t \in ToSet(liveWaiters')
    <3>1. CASE t \in Live
      <4>1. liveWaiters \in Seq(Live) /\ IsInjective(liveWaiters)
        BY <1>0 DEF LaneTypeOK, QueueOfWaiters
      <4>2. t \notin ToSet(liveWaiters)
        BY <1>q, <2>1
      <4>3. liveWaiters' = Append(liveWaiters, t)
        BY <1>2, <3>1 DEF AcquireWait
      <4>4. /\ Append(liveWaiters, t) \in Seq(Live)
            /\ IsInjective(Append(liveWaiters, t))
            /\ ToSet(Append(liveWaiters, t)) = ToSet(liveWaiters) \cup {t}
        BY <3>1, <4>1, <4>2, AppendFacts
      <4> QED
        BY <4>3, <4>4
    <3>2. CASE t \notin Live
      BY <1>0, <1>2, <3>2 DEF AcquireWait, LaneTypeOK, QueueOfWaiters
    <3> QED
      BY <3>1, <3>2
  <2>6. /\ vodWaiters' \in Seq(Vod) /\ IsInjective(vodWaiters')
        /\ ToSet(vodWaiters) \subseteq ToSet(vodWaiters')
        /\ ToSet(vodWaiters') \subseteq ToSet(vodWaiters) \cup {t}
        /\ t \notin Live => t \in ToSet(vodWaiters')
    <3>1. CASE t \in Live
      BY <1>0, <1>2, <3>1 DEF AcquireWait, LaneTypeOK, QueueOfWaiters
    <3>2. CASE t \notin Live
      <4>1. t \in Vod
        BY <3>2 DEF Callers
      <4>2. vodWaiters \in Seq(Vod) /\ IsInjective(vodWaiters)
        BY <1>0 DEF LaneTypeOK, QueueOfWaiters
      <4>3. t \notin ToSet(vodWaiters)
        BY <1>q, <2>1
      <4>4. vodWaiters' = Append(vodWaiters, t)
        BY <1>2, <3>2 DEF AcquireWait
      <4>5. /\ Append(vodWaiters, t) \in Seq(Vod)
            /\ IsInjective(Append(vodWaiters, t))
            /\ ToSet(Append(vodWaiters, t)) = ToSet(vodWaiters) \cup {t}
        BY <4>1, <4>2, <4>3, AppendFacts
      <4> QED
        BY <4>4, <4>5
    <3> QED
      BY <3>1, <3>2
  <2>7. LaneTypeOK'
    BY <1>0, <1>2, <2>5, <2>6 DEF AcquireWait, LaneTypeOK, FutureStates
  <2>8. SuspendedOnAFuture'
    BY <1>0, <1>2, <2>1, <2>2 DEF AcquireWait, LaneTypeOK, SuspendedOnAFuture
  <2>9. QueueOfWaiters(liveWaiters)' /\ QueueOfWaiters(vodWaiters)'
    <3>1. \A s \in ToSet(liveWaiters') \cup ToSet(vodWaiters') : waiter'[s] # "none"
      BY <1>q, <2>2, <2>5, <2>6 DEF Callers
    <3> QED
      BY <2>5, <2>6, <3>1 DEF QueueOfWaiters
  <2>10. PendingIsQueued'
    BY <1>0, <2>2, <2>5, <2>6, CallersAssumption DEF PendingIsQueued, Callers
  <2>11. SingleOwner' /\ HeldIffOwned' /\ WaitersHaveAnOwner'
    BY <1>0, <1>2, <2>3, <2>4
       DEF AcquireWait, SingleOwner, HeldIffOwned, WaitersHaveAnOwner
  <2> QED
    BY <2>7, <2>8, <2>9, <2>10, <2>11 DEF LaneInv
<1>3. ASSUME NEW t \in Callers, CancelWaiter(t) PROVE LaneInv'
  <2>1. Owners' = Owners
    BY <1>0, <1>3 DEF CancelWaiter, Owners, LaneTypeOK
  <2>2. \A s \in Callers : /\ waiter'[s] = "pending" => waiter[s] = "pending"
                           /\ waiter'[s] = "none" => waiter[s] = "none"
    BY <1>0, <1>3 DEF CancelWaiter, LaneTypeOK
  <2>3. LaneTypeOK' /\ SuspendedOnAFuture'
    BY <1>0, <1>3 DEF CancelWaiter, LaneTypeOK, SuspendedOnAFuture, FutureStates
  <2>4. QueueOfWaiters(liveWaiters)' /\ QueueOfWaiters(vodWaiters)'
    BY <1>0, <1>3, <1>q, <2>2 DEF CancelWaiter, QueueOfWaiters, Callers
  <2>5. PendingIsQueued'
    BY <1>0, <1>3, <2>2 DEF CancelWaiter, PendingIsQueued, Callers
  <2>6. SingleOwner' /\ HeldIffOwned' /\ WaitersHaveAnOwner'
    BY <1>0, <1>3, <2>1, <2>2
       DEF CancelWaiter, SingleOwner, HeldIffOwned, WaitersHaveAnOwner
  <2> QED
    BY <2>3, <2>4, <2>5, <2>6 DEF LaneInv
<1>4. ASSUME NEW t \in Callers, Release(t) PROVE LaneInv'
  <2>1. Owners = {t}
    BY <1>0, <1>4 DEF Release, Owners, SingleOwner
  <2>2. waiter[t] = "none" /\ mustCancel' = [mustCancel EXCEPT ![t] = FALSE]
    BY <1>0, <1>4 DEF Release, SuspendedOnAFuture, LaneTypeOK
  <2>3. t \notin ToSet(liveWaiters) /\ t \notin ToSet(vodWaiters)
    BY <1>q, <2>2
  <2> QED
    BY <1>0, <1>4, <2>1, <2>2, <2>3, HandOnStep
       DEF Release, LaneTypeOK, PendingIsQueued
<1>5. ASSUME NEW t \in Callers, WakeGranted(t) PROVE LaneInv'
  <2>1. \A s \in Callers : waiter'[s] = IF s = t THEN "none" ELSE waiter[s]
    BY <1>0, <1>5 DEF WakeGranted, LaneTypeOK
  <2>2. Owners = {t} /\ Owners' = {t}
    BY <1>0, <1>5, <2>1 DEF WakeGranted, Owners, SingleOwner, LaneTypeOK
  <2>3. /\ liveWaiters' \in Seq(Live) /\ vodWaiters' \in Seq(Vod)
        /\ ToSet(liveWaiters') = ToSet(liveWaiters) \ {t}
        /\ ToSet(vodWaiters') = ToSet(vodWaiters) \ {t}
        /\ QueueOfWaiters(liveWaiters)' /\ QueueOfWaiters(vodWaiters)'
    BY <1>0, <1>5, <2>1, QueueMinus DEF WakeGranted
  <2>4. LaneTypeOK' /\ SuspendedOnAFuture'
    BY <1>0, <1>5, <2>1, <2>3
       DEF WakeGranted, LaneTypeOK, SuspendedOnAFuture, FutureStates
  <2>5. PendingIsQueued'
    BY <1>0, <2>1, <2>3 DEF PendingIsQueued, Callers
  <2>6. SingleOwner' /\ HeldIffOwned' /\ WaitersHaveAnOwner'
    BY <1>0, <1>5, <2>2
       DEF WakeGranted, SingleOwner, HeldIffOwned, WaitersHaveAnOwner
  <2> QED
    BY <2>3, <2>4, <2>5, <2>6 DEF LaneInv
<1>6. ASSUME NEW t \in Callers, WakeCancelled(t) PROVE LaneInv'
  <2>1. \A s \in Callers : waiter'[s] = IF s = t THEN "none" ELSE waiter[s]
    BY <1>0, <1>6 DEF WakeCancelled, LaneTypeOK
  <2>2. Owners' = Owners
    BY <1>0, <1>6, <2>1 DEF WakeCancelled, Owners, LaneTypeOK
  <2>3. /\ liveWaiters' \in Seq(Live) /\ vodWaiters' \in Seq(Vod)
        /\ ToSet(liveWaiters') = ToSet(liveWaiters) \ {t}
        /\ ToSet(vodWaiters') = ToSet(vodWaiters) \ {t}
        /\ QueueOfWaiters(liveWaiters)' /\ QueueOfWaiters(vodWaiters)'
    BY <1>0, <1>6, <2>1, QueueMinus DEF WakeCancelled
  <2>4. LaneTypeOK' /\ SuspendedOnAFuture'
    BY <1>0, <1>6, <2>1, <2>3
       DEF WakeCancelled, LaneTypeOK, SuspendedOnAFuture, FutureStates
  <2>5. PendingIsQueued'
    BY <1>0, <2>1, <2>3 DEF PendingIsQueued, Callers
  <2>6. SingleOwner' /\ HeldIffOwned' /\ WaitersHaveAnOwner'
    BY <1>0, <1>6, <2>1, <2>2
       DEF WakeCancelled, SingleOwner, HeldIffOwned, WaitersHaveAnOwner
  <2> QED
    BY <2>3, <2>4, <2>5, <2>6 DEF LaneInv
<1>7. ASSUME NEW t \in Callers, WakeRevoked(t) PROVE LaneInv'
  <2> DEFINE lq == RemoveFirst(liveWaiters, t)
             vq == RemoveFirst(vodWaiters, t)
  <2>1. Owners = {t}
    BY <1>0, <1>7 DEF WakeRevoked, Owners, SingleOwner
  <2>2. /\ lq \in Seq(Live) /\ IsInjective(lq) /\ ToSet(lq) = ToSet(liveWaiters) \ {t}
        /\ vq \in Seq(Vod) /\ IsInjective(vq) /\ ToSet(vq) = ToSet(vodWaiters) \ {t}
    BY <1>0, RemoveFirstFacts DEF LaneTypeOK, QueueOfWaiters
  <2>3. /\ HandOn(t, lq, vq)
        /\ pc' = [pc EXCEPT ![t] = "out"]
        /\ mustCancel' = [mustCancel EXCEPT ![t] = FALSE]
        /\ waiter[t] = "granted"
    BY <1>7 DEF WakeRevoked
  <2> HIDE DEF lq, vq
  <2>4. QueueOfWaiters(lq) /\ QueueOfWaiters(vq)
    BY <1>0, <2>2 DEF QueueOfWaiters
  <2>5. /\ \A s \in Live : waiter[s] = "pending" => s \in ToSet(lq)
        /\ \A s \in Vod : waiter[s] = "pending" => s \in ToSet(vq)
    BY <1>0, <2>2, <2>3 DEF PendingIsQueued
  <2> QED
    BY <1>0, <2>1, <2>2, <2>3, <2>4, <2>5, HandOnStep
<1>8. CASE UNCHANGED laneVars
  BY <1>0, <1>8 DEF laneVars, LaneInv, LaneTypeOK, SuspendedOnAFuture,
     QueueOfWaiters, PendingIsQueued, SingleOwner, HeldIffOwned,
     WaitersHaveAnOwner, Owners
<1> QED
  BY <1>1, <1>2, <1>3, <1>4, <1>5, <1>6, <1>7, <1>8 DEF LaneNext, Wake

-----------------------------------------------------------------------------
(* Theorems *)

\* Every reachable state of the lane satisfies the inductive invariant,
\* whatever the sets of callers and however they are cancelled.
THEOREM LaneInvariant == LaneSpec => []LaneInv
BY LaneInitInv, LaneStepInv, PTL DEF LaneSpec

\* The variables of PriorityLane keep their types.
THEOREM LaneTyped == LaneSpec => []LaneTypeOK
<1>1. LaneInv => LaneTypeOK
  BY DEF LaneInv
<1> QED
  BY <1>1, LaneInvariant, PTL

\* Mutual exclusion across the hand-over: never two owners of the lane.
THEOREM LaneMutualExclusion == LaneSpec => []SingleOwner
<1>1. LaneInv => SingleOwner
  BY DEF LaneInv
<1> QED
  BY <1>1, LaneInvariant, PTL

\* _held is never left set by a cancelled owner nor cleared under a live one.
THEOREM LaneHeldIffOwned == LaneSpec => []HeldIffOwned
<1>1. LaneInv => HeldIffOwned
  BY DEF LaneInv
<1> QED
  BY <1>1, LaneInvariant, PTL

\* No lost wake-up: a pending future always has an owner in front of it.
THEOREM LaneNoLostWakeup == LaneSpec => []WaitersHaveAnOwner
<1>1. LaneInv => WaitersHaveAnOwner
  BY DEF LaneInv
<1> QED
  BY <1>1, LaneInvariant, PTL

-----------------------------------------------------------------------------
(* The order of the queues                                                  *)

\* Who joins a queue comes after everybody in it.
LEMMA AppendOrder ==
  ASSUME NEW S, NEW q \in Seq(S), NEW t \in S, NEW s, NEW r
  PROVE  Earlier(s, r, Append(q, t)) <=>
            Earlier(s, r, q) \/ (r = t /\ s \in ToSet(q))
<1> DEFINE a == Append(q, t)
<1>1. Len(q) \in Nat /\ DOMAIN q = 1..Len(q)
  BY LenProperties
<1>2. /\ a \in Seq(S)
      /\ Len(a) = Len(q) + 1
      /\ \A i \in 1..Len(q) : a[i] = q[i]
      /\ a[Len(q) + 1] = t
  BY AppendProperties
<1> HIDE DEF a
<1>3. DOMAIN a = 1..(Len(q) + 1)
  BY <1>2, LenProperties
<1>4. ASSUME Earlier(s, r, a)
      PROVE  Earlier(s, r, q) \/ (r = t /\ s \in ToSet(q))
  <2>1. PICK i \in 1..(Len(q) + 1), j \in 1..(Len(q) + 1) :
           i < j /\ a[i] = s /\ a[j] = r
    BY <1>3, <1>4 DEF Earlier
  <2>2. i \in 1..Len(q) /\ q[i] = s
    BY <1>1, <1>2, <2>1
  <2>3. CASE j = Len(q) + 1
    BY <1>1, <1>2, <2>1, <2>2, <2>3 DEF ToSet
  <2>4. CASE j # Len(q) + 1
    BY <1>1, <1>2, <2>1, <2>2, <2>4 DEF Earlier
  <2> QED
    BY <2>3, <2>4
<1>5. ASSUME Earlier(s, r, q) PROVE Earlier(s, r, a)
  BY <1>1, <1>2, <1>3, <1>5 DEF Earlier
<1>6. ASSUME r = t, s \in ToSet(q) PROVE Earlier(s, r, a)
  <2>1. PICK i \in 1..Len(q) : q[i] = s
    BY <1>1, <1>6 DEF ToSet
  <2>2. i < Len(q) + 1 /\ a[i] = s /\ a[Len(q) + 1] = r
    BY <1>1, <1>2, <1>6, <2>1
  <2> QED
    BY <1>1, <1>3, <2>2 DEF Earlier
<1> QED
  BY <1>4, <1>5, <1>6 DEF a

\* Who leaves a queue leaves the order of the others alone.
LEMMA RemoveOrder ==
  ASSUME NEW S, NEW q \in Seq(S), NEW t, NEW s, NEW r, s # t, r # t
  PROVE  Earlier(s, r, RemoveFirst(q, t)) <=> Earlier(s, r, q)
<1> DEFINE d == RemoveFirst(q, t)
<1>1. Len(q) \in Nat /\ DOMAIN q = 1..Len(q)
  BY LenProperties
<1>2. CASE \A i \in 1..Len(q) : q[i] # t
  BY <1>2 DEF RemoveFirst
<1>3. CASE \E i \in 1..Len(q) : q[i] = t
  <2> HIDE DEF d
  <2>1. /\ d \in Seq(S)
        /\ Len(d) = Len(q) - 1
        /\ \E n \in 1..Len(q) : /\ q[n] = t
                                /\ \A i \in 1..(n - 1) : d[i] = q[i]
                                /\ \A i \in n..(Len(q) - 1) : d[i] = q[i + 1]
    <3>1. d = RemoveFirst(q, t)
      BY DEF d
    <3>2. d \in Seq(S) /\ ClosesUp(d, q, t)
      BY <1>3, <3>1, RemoveFirstElements
    <3> QED
      BY <3>2 DEF ClosesUp
  <2>2. PICK k \in 1..Len(q) : /\ q[k] = t
                               /\ \A i \in 1..(k - 1) : d[i] = q[i]
                               /\ \A i \in k..(Len(q) - 1) : d[i] = q[i + 1]
    BY <2>1
  <2>3. DOMAIN d = 1..(Len(q) - 1)
    BY <2>1, LenProperties
  <2>4. ASSUME Earlier(s, r, d) PROVE Earlier(s, r, q)
    <3>1. PICK i \in 1..(Len(q) - 1), j \in 1..(Len(q) - 1) :
             i < j /\ d[i] = s /\ d[j] = r
      BY <2>3, <2>4 DEF Earlier
    <3> DEFINE at(n) == IF n < k THEN n ELSE n + 1
    <3>2. \A n \in 1..(Len(q) - 1) : at(n) \in 1..Len(q) /\ d[n] = q[at(n)]
      BY <1>1, <2>2
    <3>3. at(i) < at(j)
      BY <1>1, <2>2, <3>1
    <3> HIDE DEF at
    <3> QED
      BY <1>1, <3>1, <3>2, <3>3 DEF Earlier
  <2>5. ASSUME Earlier(s, r, q) PROVE Earlier(s, r, d)
    <3>1. PICK i \in 1..Len(q), j \in 1..Len(q) : i < j /\ q[i] = s /\ q[j] = r
      BY <1>1, <2>5 DEF Earlier
    <3>2. i # k /\ j # k
      BY <2>2, <3>1
    <3> DEFINE at(n) == IF n < k THEN n ELSE n - 1
    <3>3. \A n \in 1..Len(q) : n # k => at(n) \in 1..(Len(q) - 1) /\ d[at(n)] = q[n]
      <4>1. ASSUME NEW n \in 1..Len(q), n < k
            PROVE  at(n) \in 1..(Len(q) - 1) /\ d[at(n)] = q[n]
        BY <1>1, <2>2, <4>1
      <4>2. ASSUME NEW n \in 1..Len(q), n > k
            PROVE  at(n) \in 1..(Len(q) - 1) /\ d[at(n)] = q[n]
        <5>1. n - 1 \in k..(Len(q) - 1) /\ (n - 1) + 1 = n /\ at(n) = n - 1
          BY <1>1, <4>2
        <5> HIDE DEF at
        <5> QED
          BY <1>1, <2>2, <5>1
      <4> QED
        BY <1>1, <4>1, <4>2
    <3>4. at(i) < at(j)
      BY <1>1, <2>2, <3>1, <3>2
    <3> HIDE DEF at
    <3> QED
      BY <2>3, <3>1, <3>2, <3>3, <3>4 DEF Earlier
  <2> QED
    BY <2>4, <2>5 DEF d
<1> QED
  BY <1>2, <1>3

\* _next_waiter's trimming leaves the order of the pending futures alone,
\* and none of them comes before the one it returns.
LEMMA DropOrder ==
  ASSUME NEW S, NEW q \in Seq(S), NEW s, NEW r,
         waiter[s] # "cancelled", waiter[r] # "cancelled"
  PROVE  Earlier(s, r, DropCancelled(q)) <=> Earlier(s, r, q)
<1> DEFINE d == DropCancelled(q)
           m == Min(AliveAt(q))
<1>1. /\ Len(q) \in Nat /\ DOMAIN q = 1..Len(q)
      /\ \A i \in 1..Len(q) : q[i] \in S
  BY LenProperties, ElementOfSeq
<1>2. CASE ~SomeAlive(q)
  <2>1. d = <<>> /\ \A i \in 1..Len(q) : waiter[q[i]] = "cancelled"
    BY <1>2 DEF DropCancelled, SomeAlive, AliveAt
  <2>2. ~Earlier(s, r, q)
    BY <1>1, <2>1 DEF Earlier
  <2>3. ~Earlier(s, r, d)
    BY <2>1 DEF Earlier
  <2> QED
    BY <2>2, <2>3
<1>3. CASE SomeAlive(q)
  <2>1. m \in 1..Len(q) /\ \A i \in AliveAt(q) : m <= i
    <3>1. AliveAt(q) \in SUBSET Nat /\ AliveAt(q) # {}
      BY <1>1, <1>3 DEF AliveAt, SomeAlive
    <3>2. m \in AliveAt(q) /\ \A i \in AliveAt(q) : m <= i
      BY <3>1, MinIsLeast
    <3> QED
      BY <3>2 DEF AliveAt
  <2>2. d = SubSeq(q, m, Len(q))
    BY <1>3 DEF DropCancelled
  <2> HIDE DEF m
  <2>3. /\ d \in Seq(S)
        /\ Len(d) = Len(q) - m + 1
        /\ \A i \in 1..(Len(q) - m + 1) : d[i] = q[m + i - 1]
    BY <1>1, <2>1, <2>2, SubSeqProperties
  <2> HIDE DEF d
  <2>4. DOMAIN d = 1..(Len(q) - m + 1)
    BY <2>3, LenProperties
  <2>5. ASSUME Earlier(s, r, d) PROVE Earlier(s, r, q)
    <3>1. PICK i \in DOMAIN d, j \in DOMAIN d : i < j /\ d[i] = s /\ d[j] = r
      BY <2>5 DEF Earlier
    <3>2. /\ m + i - 1 \in 1..Len(q) /\ m + j - 1 \in 1..Len(q)
          /\ m + i - 1 < m + j - 1
      BY <1>1, <2>1, <2>4, <3>1
    <3>3. q[m + i - 1] = s /\ q[m + j - 1] = r
      BY <2>3, <2>4, <3>1
    <3> QED
      BY <1>1, <3>2, <3>3 DEF Earlier
  <2>6. ASSUME Earlier(s, r, q) PROVE Earlier(s, r, d)
    <3>1. PICK i \in 1..Len(q), j \in 1..Len(q) : i < j /\ q[i] = s /\ q[j] = r
      BY <1>1, <2>6 DEF Earlier
    <3>2. m <= i /\ m <= j
      BY <2>1, <3>1 DEF AliveAt
    <3>3. /\ i - m + 1 \in 1..(Len(q) - m + 1) /\ m + (i - m + 1) - 1 = i
          /\ j - m + 1 \in 1..(Len(q) - m + 1) /\ m + (j - m + 1) - 1 = j
          /\ i - m + 1 < j - m + 1
      BY <1>1, <2>1, <3>1, <3>2
    <3>4. d[i - m + 1] = s /\ d[j - m + 1] = r
      BY <2>3, <3>1, <3>3
    <3> QED
      BY <2>4, <3>3, <3>4 DEF Earlier
  <2> QED
    BY <2>5, <2>6 DEF d
<1> QED
  BY <1>2, <1>3

LEMMA FirstIsFirst ==
  ASSUME NEW S, NEW q \in Seq(S), IsInjective(q), SomeAlive(q),
         NEW s, waiter[s] # "cancelled"
  PROVE  ~Earlier(s, FirstAlive(q), q)
<1> DEFINE m == Min(AliveAt(q))
<1>1. /\ Len(q) \in Nat /\ DOMAIN q = 1..Len(q)
      /\ \A i, j \in 1..Len(q) : q[i] = q[j] => i = j
  BY LenProperties DEF IsInjective
<1>2. m \in AliveAt(q) /\ \A i \in AliveAt(q) : m <= i
  <2>1. AliveAt(q) \in SUBSET Nat /\ AliveAt(q) # {}
    BY <1>1 DEF AliveAt, SomeAlive
  <2> QED
    BY <2>1, MinIsLeast
<1> HIDE DEF m
<1>3. SUFFICES ASSUME NEW i \in 1..Len(q), NEW j \in 1..Len(q),
                      i < j, q[i] = s, q[j] = q[m]
               PROVE  FALSE
  BY <1>1 DEF Earlier, FirstAlive, m
<1>4. j = m /\ m <= i
  BY <1>1, <1>2, <1>3 DEF AliveAt
<1> QED
  BY <1>1, <1>3, <1>4

-----------------------------------------------------------------------------
(* The lane implements its contract                                         *)

\* The contract's third variable.
Order == [t \in Callers |-> IF t \in Pending THEN Ahead(t) ELSE {}]

\* The order of pending futures after a step that keeps it.
LEMMA OrderKept ==
  ASSUME Pending' \subseteq Pending,
         \A s, r \in Pending' :
            /\ Earlier(s, r, liveWaiters') <=> Earlier(s, r, liveWaiters)
            /\ Earlier(s, r, vodWaiters') <=> Earlier(s, r, vodWaiters)
  PROVE  Order' = [t \in Callers |-> IF t \in Pending' THEN Order[t] \cap Pending' ELSE {}]
<1>1. \A t \in Pending' : Ahead(t)' = Ahead(t) \cap Pending'
  BY DEF Ahead
<1>2. Pending' \subseteq Callers
  BY DEF Pending
<1> QED
  BY <1>1, <1>2 DEF Order

\* Such a step is no step of the contract if nobody leaves the line, and a
\* step out of it if one does.
LEMMA NobodyLeaves ==
  ASSUME Pending' = Pending,
         \A s, r \in Pending' :
            /\ Earlier(s, r, liveWaiters') <=> Earlier(s, r, liveWaiters)
            /\ Earlier(s, r, vodWaiters') <=> Earlier(s, r, vodWaiters)
  PROVE  Order' = Order
<1>1. \A t \in Callers : Order[t] \subseteq Pending /\ (t \notin Pending => Order[t] = {})
  BY DEF Order, Ahead
<1>2. Order' = [t \in Callers |-> IF t \in Pending THEN Order[t] \cap Pending ELSE {}]
  BY OrderKept
<1>3. \A t \in Callers : Order'[t] = Order[t]
  BY <1>1, <1>2
<1> QED
  BY <1>2, <1>3 DEF Order

LEMMA OneLeaves ==
  ASSUME NEW t \in Pending, Pending' = Pending \ {t},
         \A s, r \in Pending' :
            /\ Earlier(s, r, liveWaiters') <=> Earlier(s, r, liveWaiters)
            /\ Earlier(s, r, vodWaiters') <=> Earlier(s, r, vodWaiters)
  PROVE  Contract!StepOut(t)
<1>1. \A s \in Callers : Order[s] \subseteq Pending /\ (s \notin Pending => Order[s] = {})
  BY DEF Order, Ahead
<1>2. Order' = [s \in Callers |-> IF s \in Pending' THEN Order[s] \cap Pending' ELSE {}]
  BY OrderKept
<1>3. Order' = [s \in Callers |-> IF s = t THEN {} ELSE Order[s] \ {t}]
  BY <1>1, <1>2
<1> QED
  BY <1>3 DEF Contract!StepOut, Contract!Callers, Callers, Order

\* release() hands over: to the first pending live future, failing that to
\* the first pending VOD future, failing that to nobody.
LEMMA HandOnHandsOver ==
  ASSUME LaneInv, LaneInv', NEW t \in Callers, Owners = {t},
         NEW lq \in Seq(Live), NEW vq \in Seq(Vod),
         IsInjective(lq), IsInjective(vq),
         t \notin ToSet(lq), t \notin ToSet(vq),
         \A s \in Live : waiter[s] = "pending" => s \in ToSet(lq),
         \A s \in Vod : waiter[s] = "pending" => s \in ToSet(vq),
         ToSet(lq) \subseteq ToSet(liveWaiters), ToSet(vq) \subseteq ToSet(vodWaiters),
         \A s, r \in Pending : /\ Earlier(s, r, lq) <=> Earlier(s, r, liveWaiters)
                               /\ Earlier(s, r, vq) <=> Earlier(s, r, vodWaiters),
         HandOn(t, lq, vq),
         pc' = [pc EXCEPT ![t] = "out"]
  PROVE  Contract!HandOver
<1>1. /\ waiter \in [Callers -> FutureStates]
      /\ \A s \in ToSet(liveWaiters) \cup ToSet(vodWaiters) : waiter[s] # "none"
  BY DEF LaneInv, LaneTypeOK, QueueOfWaiters
<1>2. \A s \in Callers \ {t} : pc[s] # "in" /\ waiter[s] # "granted"
  BY DEF Owners
<1>3. ToSet(lq) \cup ToSet(vq) \subseteq Callers \ {t}
  BY QueueElements DEF Callers
<1>4. t \notin Pending
  BY <1>3 DEF Pending, Callers
<1>5. \A s, r \in Pending :
         /\ Earlier(s, r, liveWaiters') <=> Earlier(s, r, liveWaiters)
         /\ Earlier(s, r, vodWaiters') <=> Earlier(s, r, vodWaiters)
  <2> SUFFICES ASSUME NEW s \in Pending, NEW r \in Pending
               PROVE  /\ Earlier(s, r, liveWaiters') <=> Earlier(s, r, lq)
                      /\ Earlier(s, r, vodWaiters') <=> Earlier(s, r, vq)
    OBVIOUS
  <2>1. waiter[s] # "cancelled" /\ waiter[r] # "cancelled"
    BY DEF Pending
  <2>2. liveWaiters' = DropCancelled(lq)
    BY DEF HandOn
  <2>3. vodWaiters' = vq \/ vodWaiters' = DropCancelled(vq)
    BY DEF HandOn, DropCancelled
  <2> QED
    BY <2>1, <2>2, <2>3, DropOrder
<1>6. ASSUME NEW n \in Callers, waiter[n] # "cancelled",
             n \in ToSet(lq) \cup ToSet(vq),
             waiter' = [[waiter EXCEPT ![t] = "none"] EXCEPT ![n] = "granted"],
             \A s \in Pending : ~Earlier(s, n, lq) /\ ~Earlier(s, n, vq),
             n \in Live \/ Pending \cap Live = {}
      PROVE  Contract!HandOver
  <2>1. n # t /\ waiter[n] = "pending"
    BY <1>1, <1>2, <1>3, <1>6 DEF FutureStates
  <2>2. n \in Pending /\ Pending' = Pending \ {n}
    BY <1>1, <1>4, <1>6, <2>1 DEF Pending
  <2>3. Contract!StepOut(n)
    BY <1>5, <2>2, OneLeaves
  <2>4. n \in Owners'
    BY <1>1, <1>6 DEF Owners
  <2>5. Owners' = {n}
    BY <2>4 DEF LaneInv, SingleOwner
  <2>6. Order[n] = {}
    BY <1>5, <1>6, <2>2 DEF Order, Ahead
  <2>7. Contract!HandOverTo(n)
    BY <1>6, <2>3, <2>5, <2>6 DEF Contract!HandOverTo, Order
  <2> QED
    BY <2>2, <2>7 DEF Contract!HandOver
<1>7. CASE SomeAlive(lq)
  <2> DEFINE n == FirstAlive(lq)
  <2>1. n \in ToSet(lq) /\ n \in Live /\ waiter[n] # "cancelled"
    BY <1>7, FirstAliveFacts
  <2>2. waiter' = [[waiter EXCEPT ![t] = "none"] EXCEPT ![n] = "granted"]
    BY <1>7 DEF HandOn
  <2>3. \A s \in Pending : ~Earlier(s, n, lq)
    BY <1>7, FirstIsFirst DEF Pending
  <2> HIDE DEF n
  <2>4. \A s : ~Earlier(s, n, vq)
    <3>1. n \notin ToSet(vq)
      BY <2>1, QueueElements, CallersAssumption
    <3> QED
      BY <3>1 DEF Earlier, ToSet
  <2> QED
    BY <1>6, <2>1, <2>2, <2>3, <2>4 DEF Callers
<1>8. CASE ~SomeAlive(lq) /\ SomeAlive(vq)
  <2> DEFINE n == FirstAlive(vq)
  <2>1. n \in ToSet(vq) /\ n \in Vod /\ waiter[n] # "cancelled"
    BY <1>8, FirstAliveFacts
  <2>2. waiter' = [[waiter EXCEPT ![t] = "none"] EXCEPT ![n] = "granted"]
    BY <1>8 DEF HandOn
  <2>3. \A s \in Pending : ~Earlier(s, n, vq)
    BY <1>8, FirstIsFirst DEF Pending
  <2> HIDE DEF n
  <2>4. \A s : ~Earlier(s, n, lq)
    <3>1. n \notin ToSet(lq)
      BY <2>1, QueueElements, CallersAssumption
    <3> QED
      BY <3>1 DEF Earlier, ToSet
  <2>5. Pending \cap Live = {}
    BY <1>8, FirstAliveFacts DEF Pending
  <2> QED
    BY <1>6, <2>1, <2>2, <2>3, <2>4, <2>5 DEF Callers
<1>9. CASE ~SomeAlive(lq) /\ ~SomeAlive(vq)
  <2>1. Pending = {}
    BY <1>9, FirstAliveFacts DEF Pending, Callers
  <2>2. waiter' = [waiter EXCEPT ![t] = "none"] /\ held' = FALSE
    BY <1>9 DEF HandOn
  <2>3. Pending' = {}
    BY <1>1, <2>1, <2>2 DEF Pending
  <2>4. Order' = Order
    BY <2>1, <2>3, NobodyLeaves
  <2>5. Owners' = {}
    BY <2>2 DEF LaneInv, HeldIffOwned
  <2> QED
    BY <2>1, <2>3, <2>4, <2>5 DEF Contract!HandOver, Order
<1> QED
  BY <1>7, <1>8, <1>9

\* The task in the lane, or one that was granted it, releases it.
LEMMA ReleaseHandsOver ==
  ASSUME LaneInv, LaneInv', NEW t \in Callers,
         pc' = [pc EXCEPT ![t] = "out"],
         \/ pc[t] = "in" /\ HandOn(t, liveWaiters, vodWaiters)
         \/ /\ waiter[t] = "granted"
            /\ HandOn(t, RemoveFirst(liveWaiters, t), RemoveFirst(vodWaiters, t))
  PROVE  Contract!HandOver
<1>1. /\ liveWaiters \in Seq(Live) /\ IsInjective(liveWaiters)
      /\ vodWaiters \in Seq(Vod) /\ IsInjective(vodWaiters)
      /\ \A s \in ToSet(liveWaiters) \cup ToSet(vodWaiters) : waiter[s] # "none"
      /\ \A s \in Live : waiter[s] = "pending" => s \in ToSet(liveWaiters)
      /\ \A s \in Vod : waiter[s] = "pending" => s \in ToSet(vodWaiters)
  BY DEF LaneInv, LaneTypeOK, QueueOfWaiters, PendingIsQueued
<1>2. Owners = {t}
  BY DEF LaneInv, SingleOwner, Owners
<1>3. CASE pc[t] = "in" /\ HandOn(t, liveWaiters, vodWaiters)
  <2>1. waiter[t] = "none"
    BY <1>3 DEF LaneInv, SuspendedOnAFuture, LaneTypeOK
  <2> QED
    BY <1>1, <1>2, <1>3, <2>1, HandOnHandsOver
<1>4. CASE /\ waiter[t] = "granted"
           /\ HandOn(t, RemoveFirst(liveWaiters, t), RemoveFirst(vodWaiters, t))
  <2> DEFINE lq == RemoveFirst(liveWaiters, t)
             vq == RemoveFirst(vodWaiters, t)
  <2>1. /\ lq \in Seq(Live) /\ IsInjective(lq) /\ ToSet(lq) = ToSet(liveWaiters) \ {t}
        /\ vq \in Seq(Vod) /\ IsInjective(vq) /\ ToSet(vq) = ToSet(vodWaiters) \ {t}
    BY <1>1, RemoveFirstFacts
  <2>2. \A s, r \in Pending : /\ Earlier(s, r, lq) <=> Earlier(s, r, liveWaiters)
                              /\ Earlier(s, r, vq) <=> Earlier(s, r, vodWaiters)
    <3>1. t \notin Pending
      BY <1>4 DEF Pending
    <3> QED
      BY <1>1, <3>1, RemoveOrder
  <2>3. HandOn(t, lq, vq)
    BY <1>4
  <2> HIDE DEF lq, vq
  <2>4. /\ \A s \in Live : waiter[s] = "pending" => s \in ToSet(lq)
        /\ \A s \in Vod : waiter[s] = "pending" => s \in ToSet(vq)
    BY <1>1, <1>4, <2>1
  <2> QED
    BY <1>2, <2>1, <2>2, <2>3, <2>4, HandOnHandsOver
<1> QED
  BY <1>3, <1>4

\* A resumed task leaves the queues, and the line when it was cancelled
\* before: either way the contract sees nothing.
LEMMA WakeIsNoStep ==
  ASSUME LaneInv, NEW t \in Callers, WakeGranted(t) \/ WakeCancelled(t)
  PROVE  UNCHANGED <<Owners, Pending, Order>>
<1>1. /\ liveWaiters \in Seq(Live) /\ vodWaiters \in Seq(Vod)
      /\ waiter \in [Callers -> FutureStates]
      /\ pc \in [Callers -> {"out", "waiting", "in"}]
  BY DEF LaneInv, LaneTypeOK
<1>2. \A s \in Callers : waiter'[s] = IF s = t THEN "none" ELSE waiter[s]
  BY <1>1 DEF WakeGranted, WakeCancelled
<1>3. Owners' = Owners
  BY <1>1, <1>2 DEF Owners, WakeGranted, WakeCancelled
<1>4. Pending' = Pending /\ t \notin Pending
  BY <1>2 DEF Pending, WakeGranted, WakeCancelled
<1>5. /\ liveWaiters' = RemoveFirst(liveWaiters, t)
      /\ vodWaiters' = RemoveFirst(vodWaiters, t)
  BY DEF WakeGranted, WakeCancelled
<1>6. Order' = Order
  BY <1>1, <1>4, <1>5, RemoveOrder, NobodyLeaves
<1> QED
  BY <1>3, <1>4, <1>6

LEMMA LaneStepKeepsContract ==
  ASSUME LaneInv, LaneInv', [LaneNext]_laneVars
  PROVE  [Contract!Next]_(Contract!vars)
<1>0. /\ LaneTypeOK /\ SuspendedOnAFuture /\ PendingIsQueued
      /\ QueueOfWaiters(liveWaiters) /\ QueueOfWaiters(vodWaiters)
      /\ HeldIffOwned /\ WaitersHaveAnOwner
      /\ HeldIffOwned' /\ SingleOwner' /\ SingleOwner
  BY DEF LaneInv
<1>c. Callers = Contract!Callers
  BY DEF Callers, Contract!Callers
<1>s. ASSUME UNCHANGED <<Owners, Pending, Order>> PROVE UNCHANGED Contract!vars
  BY <1>s DEF Contract!vars, Order
<1>1. ASSUME NEW t \in Callers, AcquireNow(t) PROVE Contract!Next
  <2>1. Owners = {}
    BY <1>0, <1>1 DEF HeldIffOwned, AcquireNow
  <2>2. Pending = {}
    BY <1>0, <2>1 DEF WaitersHaveAnOwner, Pending
  <2>3. Owners' = {t}
    BY <1>0, <1>1, <2>1 DEF Owners, AcquireNow, LaneTypeOK
  <2>4. Pending' = Pending
    BY <1>1 DEF AcquireNow, Pending
  <2>5. Order' = Order
    BY <2>2, <2>4, NobodyLeaves
  <2>6. Contract!Enter(t)
    BY <2>1, <2>2, <2>3, <2>4, <2>5 DEF Contract!Enter, Order
  <2> QED
    BY <1>c, <2>6 DEF Contract!Next
<1>2. ASSUME NEW t \in Callers, AcquireWait(t) PROVE Contract!Next
  <2>1. waiter[t] = "none" /\ pc[t] = "out"
    BY <1>0, <1>2 DEF AcquireWait, SuspendedOnAFuture
  <2>2. \A s \in Callers : waiter'[s] = IF s = t THEN "pending" ELSE waiter[s]
    BY <1>0, <1>2 DEF AcquireWait, LaneTypeOK
  <2>3. Owners' = Owners /\ t \notin Owners
    BY <1>0, <1>2, <2>1, <2>2 DEF AcquireWait, Owners, LaneTypeOK
  <2>4. Pending' = Pending \cup {t} /\ t \notin Pending
    BY <2>1, <2>2 DEF Pending
  <2>5. Owners # {}
    BY <1>0, <2>2, <2>3 DEF WaitersHaveAnOwner, LaneInv
  <2>6. Order' = [Order EXCEPT ![t] = Pending \cap Contract!Class(t)]
    <3>1. /\ ToSet(liveWaiters) \subseteq Live /\ ToSet(vodWaiters) \subseteq Vod
          /\ t \notin ToSet(liveWaiters) \cup ToSet(vodWaiters)
          /\ liveWaiters \in Seq(Live) /\ vodWaiters \in Seq(Vod)
      BY <1>0, <2>1, QueueElements DEF LaneTypeOK, QueueOfWaiters
    <3>2. \A s, r : Earlier(s, r, liveWaiters) =>
                       s \in ToSet(liveWaiters) /\ r \in ToSet(liveWaiters)
      BY DEF Earlier, ToSet
    <3>3. \A s, r : Earlier(s, r, vodWaiters) =>
                       s \in ToSet(vodWaiters) /\ r \in ToSet(vodWaiters)
      BY DEF Earlier, ToSet
    <3>4. \A s, r : /\ Earlier(s, r, liveWaiters') <=>
                          \/ Earlier(s, r, liveWaiters)
                          \/ t \in Live /\ r = t /\ s \in ToSet(liveWaiters)
                    /\ Earlier(s, r, vodWaiters') <=>
                          \/ Earlier(s, r, vodWaiters)
                          \/ t \notin Live /\ r = t /\ s \in ToSet(vodWaiters)
      <4>1. CASE t \in Live
        <5>1. liveWaiters' = Append(liveWaiters, t) /\ vodWaiters' = vodWaiters
          BY <1>2, <4>1 DEF AcquireWait
        <5>2. \A s, r : Earlier(s, r, Append(liveWaiters, t)) <=>
                           Earlier(s, r, liveWaiters) \/ (r = t /\ s \in ToSet(liveWaiters))
          BY <3>1, <4>1, AppendOrder
        <5> QED
          BY <4>1, <5>1, <5>2
      <4>2. CASE t \notin Live
        <5>1. vodWaiters' = Append(vodWaiters, t) /\ liveWaiters' = liveWaiters
          BY <1>2, <4>2 DEF AcquireWait
        <5>2. t \in Vod
          BY <4>2 DEF Callers
        <5>3. \A s, r : Earlier(s, r, Append(vodWaiters, t)) <=>
                           Earlier(s, r, vodWaiters) \/ (r = t /\ s \in ToSet(vodWaiters))
          BY <3>1, <5>2, AppendOrder
        <5> QED
          BY <4>2, <5>1, <5>3
      <4> QED
        BY <4>1, <4>2
    <3>5. \A r \in Pending : Ahead(r)' = Ahead(r)
      BY <2>4, <3>1, <3>2, <3>3, <3>4 DEF Ahead
    <3>6. Ahead(t)' = Pending \cap Contract!Class(t)
      <4>1. Ahead(t)' = {s \in Pending : IF t \in Live THEN s \in ToSet(liveWaiters)
                                                      ELSE s \in ToSet(vodWaiters)}
        BY <2>4, <3>1, <3>2, <3>3, <3>4 DEF Ahead
      <4>2. \A s \in Pending : /\ s \in Live <=> s \in ToSet(liveWaiters)
                               /\ s \in Vod <=> s \in ToSet(vodWaiters)
        BY <1>0, <3>1 DEF Pending, PendingIsQueued
      <4> QED
        BY <4>1, <4>2 DEF Contract!Class
    <3> QED
      BY <2>4, <3>5, <3>6 DEF Order
  <2>7. Contract!Join(t)
    BY <2>3, <2>4, <2>5, <2>6 DEF Contract!Join, Order
  <2> QED
    BY <1>c, <2>7 DEF Contract!Next
<1>3. ASSUME NEW t \in Callers, CancelWaiter(t) PROVE [Contract!Next]_(Contract!vars)
  <2>1. Owners' = Owners
    BY <1>0, <1>3 DEF CancelWaiter, Owners, LaneTypeOK
  <2>2. UNCHANGED <<liveWaiters, vodWaiters>>
    BY <1>3 DEF CancelWaiter
  <2>3. CASE waiter[t] = "pending"
    <3>1. t \in Pending /\ Pending' = Pending \ {t}
      BY <1>0, <1>3, <2>3 DEF CancelWaiter, Pending, LaneTypeOK
    <3>2. Contract!StepOut(t)
      BY <2>2, <3>1, OneLeaves
    <3> QED
      BY <1>c, <2>1, <3>2 DEF Contract!Next, Contract!Leave
  <2>4. CASE waiter[t] # "pending"
    <3>1. Pending' = Pending
      BY <1>3, <2>4 DEF CancelWaiter, Pending
    <3> QED
      BY <1>s, <2>1, <2>2, <3>1, NobodyLeaves
  <2> QED
    BY <2>3, <2>4
<1>4. ASSUME NEW t \in Callers, Release(t) \/ WakeRevoked(t) PROVE Contract!Next
  BY <1>4, ReleaseHandsOver DEF Release, WakeRevoked, Contract!Next
<1>5. ASSUME NEW t \in Callers, WakeGranted(t) \/ WakeCancelled(t)
      PROVE  UNCHANGED Contract!vars
  BY <1>s, <1>5, WakeIsNoStep
<1>6. CASE UNCHANGED laneVars
  <2>1. UNCHANGED <<Owners, Pending, Order>>
    BY <1>6 DEF laneVars, Owners, Pending, Order, Ahead
  <2> QED
    BY <1>s, <2>1
<1> QED
  BY <1>1, <1>2, <1>3, <1>4, <1>5, <1>6 DEF LaneNext, Wake

LEMMA ContractInit == LaneInit => Contract!Init
<1> SUFFICES ASSUME LaneInit PROVE Contract!Init
  OBVIOUS
<1>1. Owners = {} /\ Pending = {}
  BY DEF LaneInit, Owners, Pending
<1> QED
  BY <1>1 DEF Contract!Init, Contract!Callers, Callers

\* Refinement: in every order of arrivals, cancellations and wake-ups the lane
\* has one owner at a time, serves live callers before VOD callers and each
\* class in arrival order, and is never left free with somebody in line.
THEOREM LaneImplementsContract == LaneSpec => ImplementsContract
<1>1. LaneInv /\ LaneInv' /\ [LaneNext]_laneVars => [Contract!Next]_(Contract!vars)
  BY LaneStepKeepsContract
<1> QED
  BY <1>1, ContractInit, LaneInvariant, PTL DEF LaneSpec, ImplementsContract, Contract!Spec

-----------------------------------------------------------------------------
(* The runtime: the lane under infer(), self_check() and close()            *)

\* A step of the runtime is one of the lane, leaves the lane alone, or is
\* the release of a task that was granted the lane after close().
LEMMA RuntimeStepsLane ==
  ASSUME LaneInv, [RuntimeNext]_runtimeVars
  PROVE  LaneInv' /\ [Contract!Next]_(Contract!vars)
<1>1. CASE [LaneNext]_laneVars
  BY <1>1, LaneStepInv, LaneStepKeepsContract
<1>2. ASSUME NEW t \in Callers, InferRefused(t)
      PROVE  LaneInv' /\ Contract!HandOver
  <2> DEFINE lq == RemoveFirst(liveWaiters, t)
             vq == RemoveFirst(vodWaiters, t)
  <2>1. /\ HandOn(t, lq, vq)
        /\ pc' = [pc EXCEPT ![t] = "out"]
        /\ waiter[t] = "granted"
    BY <1>2 DEF InferRefused
  <2>2. mustCancel' = [mustCancel EXCEPT ![t] = FALSE]
    BY <1>2 DEF InferRefused, LaneInv, LaneTypeOK
  <2>3. Owners = {t}
    BY <2>1 DEF LaneInv, SingleOwner, Owners
  <2>4. /\ lq \in Seq(Live) /\ IsInjective(lq) /\ ToSet(lq) = ToSet(liveWaiters) \ {t}
        /\ vq \in Seq(Vod) /\ IsInjective(vq) /\ ToSet(vq) = ToSet(vodWaiters) \ {t}
    BY RemoveFirstFacts DEF LaneInv, LaneTypeOK, QueueOfWaiters
  <2>5. CASE LaneInv'
    BY <2>1, <2>5, ReleaseHandsOver
  <2> HIDE DEF lq, vq
  <2>6. QueueOfWaiters(lq) /\ QueueOfWaiters(vq)
    BY <2>4 DEF LaneInv, QueueOfWaiters
  <2>7. /\ \A s \in Live : waiter[s] = "pending" => s \in ToSet(lq)
        /\ \A s \in Vod : waiter[s] = "pending" => s \in ToSet(vq)
    BY <2>1, <2>4 DEF LaneInv, PendingIsQueued
  <2>8. LaneInv'
    BY <2>1, <2>2, <2>3, <2>4, <2>6, <2>7, HandOnStep DEF LaneInv
  <2> QED
    BY <2>5, <2>8
<1>3. ASSUME NEW t \in Callers,
             \/ InferNow(t) \/ InferWait(t) \/ CancelInfer(t)
             \/ InferGranted(t) \/ InferCancelled(t) \/ Leave(t)
      PROVE  [LaneNext]_laneVars
  BY <1>3 DEF InferNow, InferWait, CancelInfer, InferGranted, InferCancelled, Leave,
              LaneNext, Wake
<1>4. ASSUME Worker \/ Close PROVE UNCHANGED laneVars
  BY <1>4 DEF Worker, StartFrame, FinishFrame, Close
<1>5. CASE UNCHANGED runtimeVars
  BY <1>1, <1>5 DEF runtimeVars
<1> QED
  BY <1>1, <1>2, <1>3, <1>4, <1>5 DEF RuntimeNext, Resume, Contract!Next

\* The lane's part of RuntimeInv is the lane's; the rest, step by step.
ExecutorInv ==
    /\ RuntimeTypeOK
    /\ JobsAreInLane
    /\ QueueIsJobs
    /\ RunningIsAJob

LEMMA RuntimeInitInv == RuntimeInit => RuntimeInv
<1> SUFFICES ASSUME RuntimeInit PROVE RuntimeInv
  OBVIOUS
<1>1. LaneInv
  BY LaneInitInv DEF RuntimeInit
<1>2. RuntimeTypeOK
  BY <1>1, EmptySeq DEF RuntimeInit, RuntimeTypeOK, JobStates, LaneInv
<1>3. JobsAreInLane /\ RunningIsAJob
  BY DEF RuntimeInit, LaneInit, JobsAreInLane, RunningIsAJob
<1>4. QueueIsJobs
  BY DEF RuntimeInit, QueueIsJobs, ToSet, IsInjective
<1> QED
  BY <1>1, <1>2, <1>3, <1>4 DEF RuntimeInv

\* Steps that leave the executor alone are taken by tasks outside the lane.
LEMMA OutsideStep ==
  ASSUME ExecutorInv, LaneTypeOK', UNCHANGED execVars,
         \A t \in Callers : pc'[t] = "in" <=> pc[t] = "in"
  PROVE  ExecutorInv'
BY DEF ExecutorInv, RuntimeTypeOK, JobsAreInLane, QueueIsJobs, RunningIsAJob, execVars

LEMMA SubmitStep ==
  ASSUME ExecutorInv, LaneTypeOK', NEW t \in Callers, Submit(t),
         pc[t] # "in", pc' = [pc EXCEPT ![t] = "in"]
  PROVE  ExecutorInv'
<1>1. /\ queue \in Seq(Callers) /\ IsInjective(queue)
      /\ ToSet(queue) = {s \in Callers : job[s] = "queued"}
      /\ job \in [Callers -> JobStates]
      /\ job[t] = "none"
      /\ queue' = Append(queue, t)
      /\ job' = [job EXCEPT ![t] = "queued"]
      /\ UNCHANGED <<closed, running, abandoned>>
  BY DEF ExecutorInv, RuntimeTypeOK, JobsAreInLane, QueueIsJobs, Submit
<1>2. /\ queue' \in Seq(Callers) /\ IsInjective(queue')
      /\ ToSet(queue') = ToSet(queue) \cup {t}
  BY <1>1, AppendFacts
<1>3. \A s \in Callers : job'[s] = IF s = t THEN "queued" ELSE job[s]
  BY <1>1
<1>4. RuntimeTypeOK'
  BY <1>1, <1>2 DEF ExecutorInv, RuntimeTypeOK, JobStates
<1>5. JobsAreInLane'
  BY <1>3 DEF ExecutorInv, RuntimeTypeOK, LaneTypeOK, JobsAreInLane
<1>6. QueueIsJobs'
  BY <1>1, <1>2, <1>3 DEF QueueIsJobs
<1>7. RunningIsAJob'
  BY <1>1, <1>3 DEF ExecutorInv, RunningIsAJob
<1> QED
  BY <1>4, <1>5, <1>6, <1>7 DEF ExecutorInv

LEMMA StartFrameStep ==
  ASSUME ExecutorInv, LaneTypeOK', StartFrame
  PROVE  ExecutorInv'
<1> DEFINE t == Head(queue)
<1>1. /\ queue \in Seq(Callers) /\ IsInjective(queue) /\ queue # <<>>
      /\ ToSet(queue) = {s \in Callers : job[s] = "queued"}
      /\ job \in [Callers -> JobStates]
      /\ running = {} /\ running' = {t}
      /\ queue' = Tail(queue)
      /\ job' = [job EXCEPT ![t] = "running"]
      /\ UNCHANGED <<laneVars, closed, abandoned>>
  BY DEF ExecutorInv, RuntimeTypeOK, QueueIsJobs, StartFrame
<1>2. /\ t \in Callers /\ t \in ToSet(queue)
      /\ queue' \in Seq(Callers) /\ IsInjective(queue')
      /\ ToSet(queue') = ToSet(queue) \ {t}
  BY <1>1, HeadTailFacts
<1> HIDE DEF t
<1>3. \A s \in Callers : job'[s] = IF s = t THEN "running" ELSE job[s]
  BY <1>1, <1>2
<1>4. job[t] = "queued" /\ abandoned = FALSE
  BY <1>1, <1>2 DEF ExecutorInv, RunningIsAJob, RuntimeTypeOK
<1>5. RuntimeTypeOK'
  BY <1>1, <1>2 DEF ExecutorInv, RuntimeTypeOK, JobStates
<1>6. JobsAreInLane'
  BY <1>1, <1>2, <1>3, <1>4 DEF ExecutorInv, JobsAreInLane, laneVars
<1>7. QueueIsJobs'
  BY <1>1, <1>2, <1>3 DEF QueueIsJobs
<1>8. RunningIsAJob'
  BY <1>1, <1>2, <1>3, <1>4 DEF ExecutorInv, RunningIsAJob
<1> QED
  BY <1>5, <1>6, <1>7, <1>8 DEF ExecutorInv

\* Jobs that end: no other changes, and the queue loses those among them.
LEMMA JobsEnd ==
  ASSUME ExecutorInv, LaneTypeOK', UNCHANGED pc,
         closed' \in BOOLEAN, abandoned' \in BOOLEAN,
         queue' \in Seq(Callers), IsInjective(queue'),
         running' \in SUBSET Callers,
         job' \in [Callers -> JobStates],
         \A t \in Callers : \/ job'[t] = job[t]
                            \/ job[t] # "none" /\ job'[t] = "over",
         ToSet(queue') = {t \in Callers : job'[t] = "queued"},
         RunningIsAJob'
  PROVE  ExecutorInv'
<1>1. JobsAreInLane'
  BY DEF ExecutorInv, JobsAreInLane
<1>2. RuntimeTypeOK'
  BY DEF RuntimeTypeOK
<1>3. QueueIsJobs'
  BY DEF QueueIsJobs
<1> QED
  BY <1>1, <1>2, <1>3 DEF ExecutorInv

LEMMA FinishFrameStep ==
  ASSUME ExecutorInv, LaneTypeOK', FinishFrame
  PROVE  ExecutorInv'
<1>1. /\ running' = {} /\ abandoned' = FALSE
      /\ UNCHANGED <<pc, closed, queue>>
      /\ queue \in Seq(Callers) /\ IsInjective(queue)
      /\ closed \in BOOLEAN
      /\ job \in [Callers -> JobStates]
      /\ ToSet(queue) = {t \in Callers : job[t] = "queued"}
  BY DEF FinishFrame, laneVars, ExecutorInv, RuntimeTypeOK, QueueIsJobs
<1>2. \A t \in Callers : job'[t] = IF job[t] = "running" THEN "over" ELSE job[t]
  BY DEF FinishFrame, ExecutorInv, RunningIsAJob
<1>3. job' \in [Callers -> JobStates]
  BY <1>1 DEF FinishFrame, JobStates
<1>4. RunningIsAJob'
  BY <1>1, <1>2 DEF RunningIsAJob
<1>5. ToSet(queue') = {t \in Callers : job'[t] = "queued"}
  BY <1>1, <1>2
<1> QED
  BY <1>1, <1>2, <1>3, <1>4, <1>5, JobsEnd

LEMMA CloseStep ==
  ASSUME ExecutorInv, LaneTypeOK', Close
  PROVE  ExecutorInv'
<1>1. /\ running' = {} /\ abandoned' = FALSE /\ closed' = TRUE /\ queue' = <<>>
      /\ UNCHANGED pc
      /\ job \in [Callers -> JobStates]
  BY DEF Close, laneVars, ExecutorInv, RuntimeTypeOK
<1>2. \A t \in Callers :
         job'[t] = IF job[t] \in {"queued", "running"} THEN "over" ELSE job[t]
  BY DEF Close
<1>3. job' \in [Callers -> JobStates]
  BY <1>1 DEF Close, JobStates
<1>4. RunningIsAJob'
  BY <1>1, <1>2 DEF RunningIsAJob
<1>5. /\ queue' \in Seq(Callers) /\ IsInjective(queue')
      /\ ToSet(queue') = {t \in Callers : job'[t] = "queued"}
  <2>1. ToSet(queue') = {} /\ IsInjective(queue')
    BY <1>1 DEF ToSet, IsInjective
  <2> QED
    BY <1>1, <1>2, <2>1, EmptySeq
<1> QED
  BY <1>1, <1>2, <1>3, <1>4, <1>5, JobsEnd

\* Task.cancel(): a queued frame leaves the queue, a running one is abandoned.
LEMMA CancelInferStep ==
  ASSUME ExecutorInv, LaneTypeOK', NEW t \in Callers, CancelInfer(t)
  PROVE  ExecutorInv'
<1>0. /\ queue \in Seq(Callers) /\ IsInjective(queue)
      /\ ToSet(queue) = {s \in Callers : job[s] = "queued"}
      /\ job \in [Callers -> JobStates]
      /\ closed \in BOOLEAN /\ abandoned \in BOOLEAN /\ running \in SUBSET Callers
  BY DEF ExecutorInv, RuntimeTypeOK, QueueIsJobs
<1>1. CASE CancelWaiter(t) /\ UNCHANGED execVars
  BY <1>1, OutsideStep DEF CancelWaiter
<1>2. CASE /\ job[t] = "queued"
           /\ queue' = RemoveFirst(queue, t)
           /\ job' = [job EXCEPT ![t] = "over"]
           /\ UNCHANGED <<laneVars, closed, running, abandoned>>
  <2>1. /\ queue' \in Seq(Callers) /\ IsInjective(queue')
        /\ ToSet(queue') = ToSet(queue) \ {t}
    BY <1>0, <1>2, RemoveFirstFacts
  <2>2. \A s \in Callers : job'[s] = IF s = t THEN "over" ELSE job[s]
    BY <1>0, <1>2
  <2>3. job' \in [Callers -> JobStates] /\ UNCHANGED pc
    BY <1>0, <1>2 DEF JobStates, laneVars
  <2>4. RunningIsAJob'
    BY <1>2, <2>2 DEF ExecutorInv, RunningIsAJob
  <2>5. ToSet(queue') = {s \in Callers : job'[s] = "queued"}
    BY <1>0, <2>1, <2>2
  <2> QED
    BY <1>0, <1>2, <2>1, <2>2, <2>3, <2>4, <2>5, JobsEnd
<1>3. CASE /\ job[t] = "running"
           /\ abandoned' = TRUE
           /\ job' = [job EXCEPT ![t] = "over"]
           /\ UNCHANGED <<laneVars, closed, queue, running>>
  <2>1. \A s \in Callers : job'[s] = IF s = t THEN "over" ELSE job[s]
    BY <1>0, <1>3
  <2>2. job' \in [Callers -> JobStates] /\ UNCHANGED pc
    BY <1>0, <1>3 DEF JobStates, laneVars
  <2>3. RunningIsAJob'
    BY <1>3, <2>1 DEF ExecutorInv, RunningIsAJob
  <2>4. ToSet(queue') = {s \in Callers : job'[s] = "queued"}
    BY <1>0, <1>3, <2>1
  <2> QED
    BY <1>0, <1>3, <2>1, <2>2, <2>3, <2>4, JobsEnd
<1> QED
  BY <1>1, <1>2, <1>3 DEF CancelInfer

LEMMA LeaveStep ==
  ASSUME ExecutorInv, LaneTypeOK', NEW t \in Callers, Leave(t)
  PROVE  ExecutorInv'
<1>1. /\ job[t] = "over" /\ job' = [job EXCEPT ![t] = "none"]
      /\ pc' = [pc EXCEPT ![t] = "out"]
      /\ UNCHANGED <<closed, queue, running, abandoned>>
  BY DEF Leave, Release
<1>2. \A s \in Callers : job'[s] = IF s = t THEN "none" ELSE job[s]
  BY <1>1 DEF ExecutorInv, RuntimeTypeOK
<1>3. RuntimeTypeOK'
  BY <1>1 DEF ExecutorInv, RuntimeTypeOK, JobStates
<1>4. JobsAreInLane'
  BY <1>1, <1>2 DEF ExecutorInv, RuntimeTypeOK, LaneTypeOK, JobsAreInLane
<1>5. QueueIsJobs' /\ RunningIsAJob'
  BY <1>1, <1>2 DEF ExecutorInv, QueueIsJobs, RunningIsAJob
<1> QED
  BY <1>3, <1>4, <1>5 DEF ExecutorInv

LEMMA RuntimeStepInv == RuntimeInv /\ [RuntimeNext]_runtimeVars => RuntimeInv'
<1> SUFFICES ASSUME RuntimeInv, [RuntimeNext]_runtimeVars PROVE RuntimeInv'
  OBVIOUS
<1>0. LaneInv /\ LaneInv' /\ ExecutorInv /\ LaneTypeOK'
  <2>1. LaneInv'
    BY RuntimeStepsLane DEF RuntimeInv
  <2> QED
    BY <2>1 DEF RuntimeInv, ExecutorInv, LaneInv
<1>p. pc \in [Callers -> {"out", "waiting", "in"}]
  BY <1>0 DEF LaneInv, LaneTypeOK
<1>1. ASSUME NEW t \in Callers, InferNow(t) \/ InferGranted(t) PROVE ExecutorInv'
  BY <1>0, <1>1, SubmitStep DEF InferNow, InferGranted, AcquireNow, WakeGranted
<1>2. ASSUME NEW t \in Callers, InferWait(t) \/ InferRefused(t) \/ InferCancelled(t)
      PROVE  ExecutorInv'
  <2>1. UNCHANGED execVars
    BY <1>2 DEF InferWait, InferRefused, InferCancelled, execVars
  <2>2. pc[t] # "in" /\ \E to \in {"out", "waiting"} : pc' = [pc EXCEPT ![t] = to]
    BY <1>2 DEF InferWait, AcquireWait, InferRefused, InferCancelled, WakeCancelled, WakeRevoked
  <2>3. \A s \in Callers : pc'[s] = "in" <=> pc[s] = "in"
    BY <1>p, <2>2
  <2> QED
    BY <1>0, <2>1, <2>3, OutsideStep
<1>3. ASSUME NEW t \in Callers, CancelInfer(t) \/ Leave(t) PROVE ExecutorInv'
  BY <1>0, <1>3, CancelInferStep, LeaveStep
<1>4. ASSUME Worker \/ Close PROVE ExecutorInv'
  BY <1>0, <1>4, StartFrameStep, FinishFrameStep, CloseStep DEF Worker
<1>5. ASSUME UNCHANGED runtimeVars PROVE ExecutorInv'
  BY <1>0, <1>5, OutsideStep DEF runtimeVars, laneVars
<1>6. ExecutorInv'
  BY <1>1, <1>2, <1>3, <1>4, <1>5 DEF RuntimeNext, Resume
<1> QED
  BY <1>0, <1>6 DEF RuntimeInv, ExecutorInv

\* infer(), self_check() and close() keep the lane's invariant, and what is
\* known of the executor, in every state.
THEOREM RuntimeInvariant == RuntimeSpec => []RuntimeInv
BY RuntimeInitInv, RuntimeStepInv, PTL DEF RuntimeSpec

\* Refinement: the lane keeps its contract with the callers it really has,
\* frames that run on after their task was cancelled and close() included.
THEOREM RuntimeKeepsContract == RuntimeSpec => RuntimeImplementsContract
<1>1. RuntimeInit => Contract!Init
  BY ContractInit DEF RuntimeInit
<1>2. RuntimeInv /\ [RuntimeNext]_runtimeVars => [Contract!Next]_(Contract!vars)
  BY RuntimeStepsLane DEF RuntimeInv
<1> QED
  BY <1>1, <1>2, RuntimeInvariant, PTL
     DEF RuntimeSpec, RuntimeImplementsContract, Contract!Spec

\* No frame is submitted past the lane, and the executor's own queue never
\* decides who is first: it holds the frame of the lane's owner at most.
THEOREM RuntimeSubmitsInLane == RuntimeSpec => [](SubmittedInLane /\ ShortQueue)
<1>1. RuntimeInv => SubmittedInLane /\ ShortQueue
  <2> SUFFICES ASSUME RuntimeInv PROVE SubmittedInLane /\ ShortQueue
    OBVIOUS
  <2>1. /\ queue \in Seq(Callers) /\ Len(queue) \in Nat /\ DOMAIN queue = 1..Len(queue)
    BY LenProperties DEF RuntimeInv, RuntimeTypeOK
  <2>2. \A i \in DOMAIN queue : queue[i] \in Callers /\ job[queue[i]] = "queued"
    BY <2>1 DEF RuntimeInv, QueueIsJobs, ToSet
  <2>3. SubmittedInLane
    BY <2>2 DEF RuntimeInv, JobsAreInLane, SubmittedInLane
  <2>4. ASSUME Len(queue) > 1 PROVE FALSE
    <3>1. 1 \in DOMAIN queue /\ 2 \in DOMAIN queue
      BY <2>1, <2>4
    <3>2. queue[1] \in Owners /\ queue[2] \in Owners
      BY <2>2, <2>3, <3>1 DEF SubmittedInLane, Owners
    <3>3. queue[1] = queue[2]
      BY <3>2 DEF RuntimeInv, LaneInv, SingleOwner
    <3> QED
      BY <3>1, <3>3 DEF RuntimeInv, QueueIsJobs, IsInjective
  <2> QED
    BY <2>1, <2>3, <2>4 DEF ShortQueue
<1> QED
  BY <1>1, RuntimeInvariant, PTL

-----------------------------------------------------------------------------
(* The swap lab's queue of frames                                            *)

JobSet == [id : 1..MaxFrames, stream : Streams, frame : 1..MaxFrames, done : BOOLEAN]

\* The frames of each stream in a list of jobs are in the order they were sent.
InTurn(q) == \A j, k \in 1..Len(q) : j < k /\ q[j].stream = q[k].stream => q[j].frame < q[k].frame

Before(q, r) ==
    \A j \in 1..Len(q), k \in 1..Len(r) : q[j].stream = r[k].stream => q[j].frame < r[k].frame

Uncomposed(q) == \A k \in 1..Len(q) : composed[q[k].stream] < q[k].frame

Submitted(q) == \A k \in 1..Len(q) : q[k].frame <= sent

\* The list holds the job that client c awaits.
Holds(q, c) ==
    \E k \in 1..Len(q) : /\ q[k].id = awaited[c] /\ ~q[k].done
                         /\ q[k].stream = StreamOf[c] /\ q[k].frame >= asked[c]

LabShape ==
    /\ client \in [Clients -> {"idle", "waiting", "gone"}]
    /\ awaited \in [Clients -> 0..MaxFrames] /\ asked \in [Clients -> 0..MaxFrames]
    /\ pending \in Seq(JobSet) /\ batch \in Seq(JobSet)
    /\ Len(pending) <= MaxQueue /\ Len(batch) <= MaxBatch
    /\ loop \in {"waiting", "gathering", "predicting", "composing", "closed"}
    /\ loop = "waiting" => batch = << >>
    /\ loop = "gathering" => Len(batch) < MaxBatch
    /\ composed \in [Streams -> 0..MaxFrames]
    /\ sent \in 0..MaxFrames

LabOrder ==
    /\ \A s \in Streams : composed[s] <= sent
    /\ Submitted(batch) /\ Submitted(pending)
    /\ InTurn(batch) /\ InTurn(pending) /\ Before(batch, pending)
    /\ loop # "composing" => Uncomposed(batch)
    /\ Uncomposed(pending)

LabAwaited ==
    loop # "closed" => \A c \in Clients : client[c] = "waiting" => Holds(batch, c) \/ Holds(pending, c)

LabInv == LabShape /\ LabOrder /\ LabAwaited

\* Where the jobs are in the two queues put together.
LEMMA LineOfJobs ==
  ASSUME LabShape
  PROVE  /\ DOMAIN Line = 1..(Len(batch) + Len(pending))
         /\ Len(batch) \in Nat /\ Len(pending) \in Nat
         /\ \A k \in 1..Len(batch) : Line[k] = batch[k]
         /\ \A k \in 1..Len(pending) : Line[Len(batch) + k] = pending[k]
         /\ \A k \in DOMAIN Line : k \notin 1..Len(batch) =>
               k - Len(batch) \in 1..Len(pending) /\ Line[k] = pending[k - Len(batch)]
<1>1. Len(batch) \in Nat /\ Len(pending) \in Nat
  BY LenProperties DEF LabShape
<1>2. /\ Line \in Seq(JobSet) /\ Len(Line) = Len(batch) + Len(pending)
      /\ \A i \in 1..(Len(batch) + Len(pending)) :
            Line[i] = IF i <= Len(batch) THEN batch[i] ELSE pending[i - Len(batch)]
  BY ConcatProperties DEF LabShape, Line
<1>3. DOMAIN Line = 1..(Len(batch) + Len(pending))
  BY <1>2, LenProperties
<1> QED
  BY <1>1, <1>2, <1>3

LEMMA JobsAreInOrderIsMeant == LabInv => LabTypeOK /\ JobsAreInOrder
<1> SUFFICES ASSUME LabInv PROVE LabTypeOK /\ JobsAreInOrder
  OBVIOUS
<1> USE DEF LabInv
<1> DEFINE b == Len(batch)
           p == Len(pending)
<1>1. /\ b \in Nat /\ p \in Nat /\ DOMAIN Line = 1..(b + p)
      /\ \A k \in 1..b : Line[k] = batch[k]
      /\ \A k \in 1..p : Line[b + k] = pending[k]
      /\ \A k \in DOMAIN Line : k \notin 1..b => k - b \in 1..p /\ Line[k] = pending[k - b]
  BY LineOfJobs
<1>2. /\ \A k \in 1..b : batch[k] \in JobSet
      /\ \A k \in 1..p : pending[k] \in JobSet
  BY ElementOfSeq DEF LabShape
<1> HIDE DEF b, p
<1>3. \A k \in DOMAIN Line : Line[k] \in JobSet
  BY <1>1, <1>2
<1>4. LabTypeOK
  BY <1>3 DEF LabShape, LabTypeOK, JobSet
<1>5. \A j, k \in DOMAIN Line :
          j < k /\ Line[j].stream = Line[k].stream => Line[j].frame < Line[k].frame
  <2> SUFFICES ASSUME NEW j \in DOMAIN Line, NEW k \in DOMAIN Line, j < k,
                      Line[j].stream = Line[k].stream
               PROVE  Line[j].frame < Line[k].frame
    OBVIOUS
  <2>1. CASE k \in 1..b
    <3>1. j \in 1..b
      BY <1>1, <2>1
    <3> QED
      BY <1>1, <2>1, <3>1 DEF LabOrder, InTurn, b
  <2>2. CASE k \notin 1..b /\ j \in 1..b
    BY <1>1, <2>2 DEF LabOrder, Before, b, p
  <2>3. CASE k \notin 1..b /\ j \notin 1..b
    <3>1. j - b \in 1..p /\ k - b \in 1..p /\ j - b < k - b
      BY <1>1, <2>3
    <3> QED
      BY <1>1, <2>3, <3>1 DEF LabOrder, InTurn, p
  <2> QED
    BY <2>1, <2>2, <2>3
<1>6. loop # "composing" => \A k \in DOMAIN Line : composed[Line[k].stream] < Line[k].frame
  BY <1>1 DEF LabOrder, Uncomposed, b, p
<1>7. ASSUME loop # "closed", NEW c \in Clients, client[c] = "waiting"
      PROVE  \E k \in DOMAIN Line :
                  /\ Line[k].id = awaited[c] /\ ~Line[k].done
                  /\ Line[k].stream = StreamOf[c] /\ Line[k].frame >= asked[c]
  <2>1. Holds(batch, c) \/ Holds(pending, c)
    BY <1>7 DEF LabAwaited
  <2>2. CASE Holds(batch, c)
    <3>1. PICK k \in 1..b : /\ batch[k].id = awaited[c] /\ ~batch[k].done
                            /\ batch[k].stream = StreamOf[c] /\ batch[k].frame >= asked[c]
      BY <2>2 DEF Holds, b
    <3>2. k \in DOMAIN Line /\ Line[k] = batch[k]
      BY <1>1
    <3> QED
      BY <3>1, <3>2
  <2>3. CASE Holds(pending, c)
    <3>1. PICK k \in 1..p : /\ pending[k].id = awaited[c] /\ ~pending[k].done
                            /\ pending[k].stream = StreamOf[c] /\ pending[k].frame >= asked[c]
      BY <2>3 DEF Holds, p
    <3>2. b + k \in DOMAIN Line /\ Line[b + k] = pending[k]
      BY <1>1
    <3> QED
      BY <3>1, <3>2
  <2> QED
    BY <2>1, <2>2, <2>3
<1> QED
  BY <1>4, <1>5, <1>6, <1>7 DEF JobsAreInOrder

LEMMA LabInitInv == LabInit => LabInv
<1> SUFFICES ASSUME LabInit PROVE LabInv
  OBVIOUS
<1>1. << >> \in Seq(JobSet) /\ Len(<< >>) = 0
  BY EmptySeq
<1>2. LabShape
  BY <1>1, SwapLabAssumption DEF LabInit, LabShape
<1>3. LabOrder
  BY <1>1 DEF LabInit, LabOrder, Submitted, InTurn, Before, Uncomposed
<1>4. LabAwaited
  BY DEF LabInit, LabAwaited
<1> QED
  BY <1>2, <1>3, <1>4 DEF LabInv

\* The jobs of a list and those of the list it becomes.
LEMMA JobPushed ==
  ASSUME NEW q \in Seq(JobSet), NEW t \in JobSet
  PROVE  /\ Append(q, t) \in Seq(JobSet) /\ Len(q) \in Nat /\ Len(Append(q, t)) = Len(q) + 1
         /\ \A k \in 1..Len(q) : Append(q, t)[k] = q[k]
         /\ Append(q, t)[Len(q) + 1] = t
BY AppendProperties, LenProperties

LEMMA JobPopped ==
  ASSUME NEW q \in Seq(JobSet), q # << >>
  PROVE  /\ Head(q) \in JobSet /\ Head(q) = q[1] /\ Len(q) \in Nat \ {0}
         /\ Tail(q) \in Seq(JobSet) /\ Len(Tail(q)) = Len(q) - 1
         /\ \A k \in 1..(Len(q) - 1) : Tail(q)[k] = q[k + 1]
<1>1. Len(q) \in Nat \ {0}
  BY EmptySeq, LenProperties
<1> QED
  BY <1>1, HeadTailProperties

LEMMA NewestIsLast ==
  ASSUME NEW n \in Nat, NEW ks \in SUBSET (1..n), ks # {}
  PROVE  Newest(ks) \in ks /\ \A j \in ks : j <= Newest(ks)
<1> DEFINE T == {n - j : j \in ks}
           m == Min(T)
<1>1. T \in SUBSET Nat /\ T # {}
  <2>1. \A j \in ks : j \in Nat /\ j <= n
    OBVIOUS
  <2>2. \A j \in ks : n - j \in Nat
    BY <2>1
  <2> QED
    BY <2>2
<1>2. m \in T /\ \A i \in T : m <= i
  <2> HIDE DEF T
  <2> QED
    BY <1>1, MinIsLeast
<1> HIDE DEF m
<1>3. PICK k \in ks : m = n - k
  BY <1>2
<1>4. \A j \in ks : j <= k
  <2> SUFFICES ASSUME NEW j \in ks PROVE j <= k
    OBVIOUS
  <2>1. n - j \in T
    OBVIOUS
  <2>2. n - k <= n - j
    BY <1>2, <1>3, <2>1
  <2>3. j \in Nat /\ k \in Nat
    OBVIOUS
  <2> QED
    BY <2>2, <2>3
<1> QED
  BY <1>4 DEF Newest

LEMMA JobsCancelled ==
  ASSUME NEW q \in Seq(JobSet), NEW id
  PROVE  LET r == Cancelled(q, id)
         IN  /\ r \in Seq(JobSet) /\ Len(q) \in Nat /\ Len(r) = Len(q)
             /\ \A k \in 1..Len(q) : /\ r[k].id = q[k].id /\ r[k].stream = q[k].stream
                                     /\ r[k].frame = q[k].frame
                                     /\ q[k].id # id => r[k].done = q[k].done
<1> DEFINE r == Cancelled(q, id)
<1>0. r = [k \in DOMAIN q |-> [q[k] EXCEPT !.done = @ \/ q[k].id = id]]
  BY DEF Cancelled
<1> HIDE DEF r
<1>1. Len(q) \in Nat /\ DOMAIN q = 1..Len(q) /\ \A k \in 1..Len(q) : q[k] \in JobSet
  BY LenProperties, ElementOfSeq
<1>2. \A k \in 1..Len(q) :
         /\ r[k] \in JobSet
         /\ r[k].id = q[k].id /\ r[k].stream = q[k].stream
         /\ r[k].frame = q[k].frame
         /\ q[k].id # id => r[k].done = q[k].done
  <2> SUFFICES ASSUME NEW k \in 1..Len(q)
               PROVE  /\ r[k] \in JobSet
                      /\ r[k].id = q[k].id /\ r[k].stream = q[k].stream
                      /\ r[k].frame = q[k].frame
                      /\ q[k].id # id => r[k].done = q[k].done
    OBVIOUS
  <2>1. r[k] = [q[k] EXCEPT !.done = q[k].done \/ q[k].id = id]
    BY <1>0, <1>1
  <2>2. q[k] \in JobSet
    BY <1>1
  <2>3. /\ r[k].id = q[k].id /\ r[k].stream = q[k].stream
        /\ r[k].frame = q[k].frame
        /\ r[k].done = (q[k].done \/ q[k].id = id)
    BY <2>1, <2>2 DEF JobSet
  <2>5. q[k].done \in BOOLEAN
    BY <2>2 DEF JobSet
  <2>4. r[k] \in JobSet
    <3> DEFINE d == q[k].done \/ q[k].id = id
    <3>1. d \in BOOLEAN /\ r[k] = [q[k] EXCEPT !.done = d]
      BY <2>1
    <3> HIDE DEF d
    <3>2. r[k] = [id |-> q[k].id, stream |-> q[k].stream, frame |-> q[k].frame, done |-> d]
      BY <2>2, <3>1 DEF JobSet
    <3>3. q[k].id \in 1..MaxFrames /\ q[k].stream \in Streams /\ q[k].frame \in 1..MaxFrames
      BY <2>2 DEF JobSet
    <3> QED
      BY <3>1, <3>2, <3>3 DEF JobSet
  <2>6. q[k].id # id => r[k].done = q[k].done
    BY <2>3, <2>5
  <2> QED
    BY <2>3, <2>4, <2>6
<1>3. DOMAIN r = 1..Len(q)
  BY <1>0, <1>1
<1>5. r \in Seq(JobSet)
  <2>1. r \in [1..Len(q) -> JobSet]
    BY <1>0, <1>1, <1>2
  <2> QED
    BY <1>1, <2>1, IsASeq
<1>6. Len(r) = Len(q)
  BY <1>1, <1>3, <1>5, LenProperties
<1> QED
  BY <1>1, <1>2, <1>5, <1>6 DEF r

\* The job at a position gets another frame.
Refreshed(q, i, n) == [q EXCEPT ![i] = [@ EXCEPT !.frame = n]]

LEMMA JobReplaced ==
  ASSUME NEW q \in Seq(JobSet), NEW i \in 1..Len(q), NEW n \in 1..MaxFrames
  PROVE  LET r == Refreshed(q, i, n)
         IN  /\ r \in Seq(JobSet) /\ Len(q) \in Nat /\ Len(r) = Len(q)
             /\ \A k \in 1..Len(q) : /\ r[k].id = q[k].id /\ r[k].stream = q[k].stream
                                     /\ r[k].done = q[k].done
                                     /\ r[k].frame = IF k = i THEN n ELSE q[k].frame
<1> DEFINE r == Refreshed(q, i, n)
<1>0. r = [q EXCEPT ![i] = [@ EXCEPT !.frame = n]]
  BY DEF Refreshed
<1> HIDE DEF r
<1>1. Len(q) \in Nat /\ DOMAIN q = 1..Len(q) /\ \A k \in 1..Len(q) : q[k] \in JobSet
  BY LenProperties, ElementOfSeq
<1>2. \A k \in 1..Len(q) : r[k] = IF k = i THEN [q[k] EXCEPT !.frame = n] ELSE q[k]
  BY <1>0, <1>1
<1>3. \A k \in 1..Len(q) :
         /\ r[k] \in JobSet
         /\ r[k].id = q[k].id /\ r[k].stream = q[k].stream
         /\ r[k].done = q[k].done
         /\ r[k].frame = IF k = i THEN n ELSE q[k].frame
  <2> SUFFICES ASSUME NEW k \in 1..Len(q)
               PROVE  /\ r[k] \in JobSet
                      /\ r[k].id = q[k].id /\ r[k].stream = q[k].stream
                      /\ r[k].done = q[k].done
                      /\ r[k].frame = IF k = i THEN n ELSE q[k].frame
    OBVIOUS
  <2>1. q[k] \in JobSet
    BY <1>1
  <2>2. CASE k = i
    <3>1. r[k] = [q[k] EXCEPT !.frame = n]
      BY <1>2, <2>2
    <3>2. r[k] \in JobSet
      BY <2>1, <3>1 DEF JobSet
    <3>3. r[k].id = q[k].id /\ r[k].stream = q[k].stream /\ r[k].done = q[k].done /\ r[k].frame = n
      BY <2>1, <3>1 DEF JobSet
    <3> QED
      BY <2>2, <3>2, <3>3
  <2>3. CASE k # i
    BY <1>2, <2>1, <2>3
  <2> QED
    BY <2>2, <2>3
<1>4. DOMAIN r = 1..Len(q)
  BY <1>0, <1>1
<1>6. r \in Seq(JobSet)
  <2>1. r \in [1..Len(q) -> JobSet]
    BY <1>0, <1>1, <1>3, <1>4
  <2> QED
    BY <1>1, <2>1, IsASeq
<1> QED
  BY <1>1, <1>3, <1>4, <1>6, LenProperties DEF r

\* What a step that answers clients leaves of the others.
LEMMA ResumedFacts ==
  ASSUME LabShape, NEW again \in SUBSET Clients, NEW ended \in SUBSET Clients, Resumed(again, ended)
  PROVE  /\ client' \in [Clients -> {"idle", "waiting", "gone"}]
         /\ awaited' \in [Clients -> 0..MaxFrames] /\ asked' \in [Clients -> 0..MaxFrames]
         /\ sent' = sent
         /\ \A c \in Clients : client'[c] = "waiting" =>
               /\ c \notin again \cup ended /\ client[c] = "waiting"
               /\ awaited'[c] = awaited[c] /\ asked'[c] = asked[c]
<1>1. 0 \in 0..MaxFrames
  BY SwapLabAssumption
<1> QED
  BY <1>1 DEF LabShape, Resumed

LEMMA TrackStopsInv ==
  ASSUME LabInv, NEW c \in Clients, TrackStops(c)
  PROVE  LabInv'
<1> DEFINE id == awaited[c]
<1>s. LabShape /\ LabOrder /\ LabAwaited
  BY DEF LabInv
<1>1. /\ Resumed({}, {c} \cup Waiters({id}))
      /\ pending' = Cancelled(pending, id) /\ batch' = Cancelled(batch, id)
      /\ loop' = loop /\ composed' = composed
  BY DEF TrackStops
<1> HIDE DEF id
<1> DEFINE over == {c} \cup Waiters({id})
<1>2. over \in SUBSET Clients /\ Waiters({id}) \subseteq over /\ Resumed({}, over)
  BY <1>1 DEF Waiters
<1> HIDE DEF over
<1>3. /\ client' \in [Clients -> {"idle", "waiting", "gone"}]
      /\ awaited' \in [Clients -> 0..MaxFrames] /\ asked' \in [Clients -> 0..MaxFrames]
      /\ sent' = sent
      /\ \A d \in Clients : client'[d] = "waiting" =>
               /\ d \notin Waiters({id}) /\ client[d] = "waiting"
               /\ awaited'[d] = awaited[d] /\ asked'[d] = asked[d]
  <2>1. {} \in SUBSET Clients
    OBVIOUS
  <2> HIDE DEF LabShape
  <2> QED
    BY <1>1, <1>2, <1>s, <2>1, ResumedFacts
<1>4. /\ pending' \in Seq(JobSet) /\ Len(pending) \in Nat /\ Len(pending') = Len(pending)
      /\ \A k \in 1..Len(pending) :
            /\ pending'[k].id = pending[k].id /\ pending'[k].stream = pending[k].stream
            /\ pending'[k].frame = pending[k].frame
            /\ pending[k].id # id => pending'[k].done = pending[k].done
  <2>1. pending \in Seq(JobSet)
    BY <1>s DEF LabShape
  <2> QED
    BY <1>1, <2>1, JobsCancelled
<1>5. /\ batch' \in Seq(JobSet) /\ Len(batch) \in Nat /\ Len(batch') = Len(batch)
      /\ \A k \in 1..Len(batch) :
            /\ batch'[k].id = batch[k].id /\ batch'[k].stream = batch[k].stream
            /\ batch'[k].frame = batch[k].frame
            /\ batch[k].id # id => batch'[k].done = batch[k].done
  <2>1. batch \in Seq(JobSet)
    BY <1>s DEF LabShape
  <2> QED
    BY <1>1, <2>1, JobsCancelled
<1>6. LabShape'
  <2>1. batch = << >> => batch' = << >>
    BY <1>5, EmptySeq
  <2> QED
    BY <1>1, <1>3, <1>4, <1>5, <1>s, <2>1 DEF LabShape
<1>7. LabOrder'
  <2>1. Submitted(batch)'
    BY <1>3, <1>5, <1>s DEF LabOrder, Submitted
  <2>2. Submitted(pending)'
    BY <1>3, <1>4, <1>s DEF LabOrder, Submitted
  <2>3. InTurn(batch)' /\ InTurn(pending)'
    BY <1>4, <1>5, <1>s DEF LabOrder, InTurn
  <2>4. Before(batch, pending)'
    BY <1>4, <1>5, <1>s DEF LabOrder, Before
  <2>5. Uncomposed(pending)' /\ (loop # "composing" => Uncomposed(batch)')
    BY <1>1, <1>4, <1>5, <1>s DEF LabOrder, Uncomposed
  <2> QED
    BY <1>1, <1>3, <1>s, <2>1, <2>2, <2>3, <2>4, <2>5 DEF LabOrder
<1>8. LabAwaited'
  <2> SUFFICES ASSUME loop # "closed", NEW d \in Clients, client'[d] = "waiting"
               PROVE  Holds(batch, d)' \/ Holds(pending, d)'
    BY <1>1 DEF LabAwaited
  <2>1. client[d] = "waiting" /\ awaited[d] # id /\ awaited'[d] = awaited[d] /\ asked'[d] = asked[d]
    BY <1>3 DEF Waiters
  <2>2. Holds(batch, d) \/ Holds(pending, d)
    BY <1>s, <2>1 DEF LabAwaited
  <2>3. Holds(batch, d) => Holds(batch, d)'
    BY <1>5, <2>1 DEF Holds
  <2>4. Holds(pending, d) => Holds(pending, d)'
    BY <1>4, <2>1 DEF Holds
  <2> QED
    BY <2>2, <2>3, <2>4
<1> QED
  BY <1>6, <1>7, <1>8 DEF LabInv

LEMMA SocketEndsInv ==
  ASSUME LabInv, NEW c \in Clients, SocketEnds(c)
  PROVE  LabInv'
<1>s. LabShape /\ LabOrder /\ LabAwaited
  BY DEF LabInv
<1>1. /\ client' \in [Clients -> {"idle", "waiting", "gone"}]
      /\ awaited' \in [Clients -> 0..MaxFrames] /\ asked' \in [Clients -> 0..MaxFrames]
      /\ sent' = sent
      /\ \A d \in Clients : client'[d] = "waiting" =>
               client[d] = "waiting" /\ awaited'[d] = awaited[d] /\ asked'[d] = asked[d]
  <2>1. Resumed({}, {c})
    BY DEF SocketEnds
  <2>2. {} \in SUBSET Clients /\ {c} \in SUBSET Clients
    OBVIOUS
  <2> QED
    BY <1>s, <2>1, <2>2, ResumedFacts
<1>2. UNCHANGED <<pending, batch, loop, composed>>
  BY DEF SocketEnds
<1>3. LabShape' /\ LabOrder'
  BY <1>1, <1>2, <1>s DEF LabShape, LabOrder, Submitted, InTurn, Before, Uncomposed
<1>4. LabAwaited'
  <2> SUFFICES ASSUME loop # "closed", NEW d \in Clients, client'[d] = "waiting"
               PROVE  Holds(batch, d)' \/ Holds(pending, d)'
    BY <1>2 DEF LabAwaited
  <2>1. Holds(batch, d) \/ Holds(pending, d)
    BY <1>1, <1>s DEF LabAwaited
  <2> QED
    BY <1>1, <1>2, <2>1 DEF Holds
<1> QED
  BY <1>3, <1>4 DEF LabInv

\* Whom a submission makes wait, and for which job.
LEMMA AwaitsFacts ==
  ASSUME LabShape, NEW c \in Clients, Submits(c), NEW id \in 1..MaxFrames,
         NEW dropped \in SUBSET Clients, Awaits(c, id, dropped)
  PROVE  /\ client' \in [Clients -> {"idle", "waiting", "gone"}]
         /\ awaited' \in [Clients -> 0..MaxFrames] /\ asked' \in [Clients -> 0..MaxFrames]
         /\ \A d \in Clients : client'[d] = "waiting" =>
               \/ d = c /\ awaited'[d] = id /\ asked'[d] = sent'
               \/ /\ d \notin dropped /\ client[d] = "waiting"
                  /\ awaited'[d] = awaited[d] /\ asked'[d] = asked[d]
<1>1. 0 \in 0..MaxFrames /\ id \in 0..MaxFrames /\ sent' \in 0..MaxFrames
  BY SwapLabAssumption DEF LabShape, Submits
<1>2. client' \in [Clients -> {"idle", "waiting", "gone"}]
  BY DEF LabShape, Awaits
<1>3. awaited' \in [Clients -> 0..MaxFrames]
  BY <1>1 DEF LabShape, Awaits
<1>4. asked' \in [Clients -> 0..MaxFrames]
  BY <1>1 DEF LabShape, Awaits
<1>5. \A d \in Clients : client'[d] = "waiting" =>
               \/ d = c /\ awaited'[d] = id /\ asked'[d] = sent'
               \/ /\ d \notin dropped /\ client[d] = "waiting"
                  /\ awaited'[d] = awaited[d] /\ asked'[d] = asked[d]
  BY DEF Awaits
<1> QED
  BY <1>2, <1>3, <1>4, <1>5

LEMMA NewJob ==
  ASSUME LabShape, NEW c \in Clients, Submits(c)
  PROVE  /\ sent' = sent + 1 /\ sent' \in 1..MaxFrames /\ sent \in Nat
         /\ Job(sent', StreamOf[c]) \in JobSet
         /\ Job(sent', StreamOf[c]).id = sent' /\ Job(sent', StreamOf[c]).frame = sent'
         /\ Job(sent', StreamOf[c]).stream = StreamOf[c] /\ Job(sent', StreamOf[c]).done = FALSE
<1>1. sent' = sent + 1 /\ sent' \in 1..MaxFrames /\ sent \in Nat
  BY SwapLabAssumption DEF LabShape, Submits
<1>2. StreamOf[c] \in Streams
  BY DEF Streams
<1> HIDE DEF Streams
<1> QED
  BY <1>1, <1>2 DEF Job, JobSet

\* A new job behind the queue, or behind what an eviction leaves of it.
LEMMA PendingGrows ==
  ASSUME LabInv, NEW c \in Clients, Submits(c), NEW m \in 0..1, NEW q \in Seq(JobSet),
         Len(q) + m = Len(pending), Len(q) < MaxQueue, \A k \in 1..Len(q) : q[k] = pending[k + m],
         pending' = Append(q, Job(sent', StreamOf[c]))
  PROVE  /\ pending' \in Seq(JobSet) /\ Len(pending') <= MaxQueue
         /\ LabOrder'
         /\ Len(q) \in Nat /\ Len(pending') = Len(q) + 1
         /\ \A k \in 1..Len(q) : pending'[k] = q[k]
         /\ pending'[Len(q) + 1] = Job(sent', StreamOf[c])
<1> DEFINE n == Len(q)
           J == Job(sent', StreamOf[c])
<1>s. LabShape /\ LabOrder /\ LabAwaited
  BY DEF LabInv
<1>1. /\ sent' = sent + 1 /\ sent' \in 1..MaxFrames /\ sent \in Nat
      /\ J \in JobSet /\ J.id = sent' /\ J.frame = sent'
      /\ J.stream = StreamOf[c] /\ J.done = FALSE
  BY <1>s, NewJob
<1> HIDE DEF J
<1>i. sent \in Nat
  BY <1>1
<1>c. \A s \in Streams : composed[s] \in Nat /\ composed[s] <= sent
  BY <1>s DEF LabOrder, LabShape
<1>2. /\ pending' \in Seq(JobSet) /\ n \in Nat /\ Len(pending') = n + 1
      /\ \A k \in 1..n : pending'[k] = q[k]
      /\ pending'[n + 1] = J
  BY <1>1, JobPushed DEF J
<1>3. /\ n + m = Len(pending) /\ n < MaxQueue /\ m \in {0, 1}
      /\ \A k \in 1..n : k + m \in 1..Len(pending) /\ pending'[k] = pending[k + m]
      /\ \A k \in 1..(n + 1) : k \in 1..n \/ k = n + 1
  BY <1>2
<1> HIDE DEF n
<1>4. Len(pending') <= MaxQueue
  BY <1>2, <1>3, SwapLabAssumption
<1>5. batch' = batch /\ loop' = loop /\ composed' = composed
  BY DEF Submits
<1>6. \A k \in 1..Len(pending) : pending[k] \in JobSet /\ pending[k].frame <= sent /\ pending[k].frame \in Nat
  <2>1. \A k \in 1..Len(pending) : pending[k] \in JobSet
    BY <1>s, ElementOfSeq DEF LabShape
  <2> QED
    BY <1>s, <2>1 DEF LabOrder, Submitted, JobSet
<1>7. \A k \in 1..Len(batch) : batch[k] \in JobSet /\ batch[k].frame <= sent /\ batch[k].frame \in Nat
  <2>1. \A k \in 1..Len(batch) : batch[k] \in JobSet
    BY <1>s, ElementOfSeq DEF LabShape
  <2> QED
    BY <1>s, <2>1 DEF LabOrder, Submitted, JobSet
<1>8. Submitted(batch)' /\ Submitted(pending)'
  <2>1. ASSUME NEW k \in 1..(n + 1) PROVE pending'[k].frame <= sent'
    <3>1. CASE k \in 1..n
      <4>1. pending'[k].frame <= sent /\ pending'[k].frame \in Nat
        BY <1>3, <1>6, <3>1
      <4> DEFINE a == pending'[k].frame
      <4>2. a \in Nat /\ a <= sent /\ sent' = sent + 1
        BY <1>1, <4>1
      <4> HIDE DEF a
      <4>3. a <= sent'
        BY <1>i, <4>2
      <4> QED
        BY <4>3 DEF a
    <3>2. CASE k = n + 1
      BY <1>1, <1>2, <3>2
    <3> QED
      BY <1>3, <3>1, <3>2
  <2>2. \A k \in 1..Len(batch) : batch[k].frame <= sent'
    <3>1. \A x, y, z \in Nat : x <= y /\ z = y + 1 => x <= z
      OBVIOUS
    <3>2. sent' = sent + 1 /\ sent' \in Nat
      BY <1>1
    <3> QED
      BY <1>7, <1>i, <3>1, <3>2
  <2>3. Submitted(batch)'
    BY <1>5, <2>2 DEF Submitted
  <2>4. \A k \in 1..Len(pending') : pending'[k].frame <= sent'
    <3>1. Len(pending') = n + 1
      BY <1>2
    <3> QED
      BY <2>1, <3>1
  <2> QED
    BY <2>3, <2>4 DEF Submitted
<1>9. InTurn(batch)' /\ InTurn(pending)'
  <2>1. InTurn(batch)'
    BY <1>5, <1>s DEF LabOrder, InTurn
  <2>2. ASSUME NEW j \in 1..(n + 1), NEW k \in 1..(n + 1), j < k, pending'[j].stream = pending'[k].stream
        PROVE  pending'[j].frame < pending'[k].frame
    <3>1. j \in 1..n
      BY <1>2, <2>2
    <3>2. CASE k \in 1..n
      <4>1. j + m \in 1..Len(pending) /\ k + m \in 1..Len(pending) /\ j + m < k + m
        BY <1>3, <2>2, <3>1, <3>2
      <4> QED
        BY <1>3, <1>s, <2>2, <3>1, <3>2, <4>1 DEF LabOrder, InTurn
    <3>3. CASE k = n + 1
      <4>1. pending'[k].frame = sent + 1
        BY <1>1, <1>2, <3>3
      <4>2. pending'[j].frame <= sent /\ pending'[j].frame \in Nat
        BY <1>3, <1>6, <3>1
      <4> DEFINE a == pending'[j].frame
                 b == pending'[k].frame
      <4>3. a \in Nat /\ a <= sent /\ b = sent + 1
        BY <4>1, <4>2
      <4> HIDE DEF a, b
      <4>4. a < b
        BY <1>i, <4>3
      <4> QED
        BY <4>4 DEF a, b
    <3> QED
      BY <1>3, <3>2, <3>3
  <2> QED
    BY <1>2, <2>1, <2>2 DEF InTurn
<1>10. Before(batch, pending)'
  <2> SUFFICES ASSUME NEW j \in 1..Len(batch), NEW k \in 1..(n + 1), batch[j].stream = pending'[k].stream
               PROVE  batch[j].frame < pending'[k].frame
    BY <1>2, <1>5 DEF Before
  <2>1. CASE k \in 1..n
    BY <1>3, <1>s, <2>1 DEF LabOrder, Before
  <2>2. CASE k = n + 1
    BY <1>1, <1>2, <1>7, <2>2
  <2> QED
    BY <1>3, <2>1, <2>2
<1>11. Uncomposed(pending)' /\ (loop # "composing" => Uncomposed(batch)')
  <2>1. ASSUME NEW k \in 1..(n + 1)
        PROVE  composed[pending'[k].stream] < pending'[k].frame
    <3>1. CASE k \in 1..n
      BY <1>3, <1>s, <3>1 DEF LabOrder, Uncomposed
    <3>2. CASE k = n + 1
      <4>1. pending'[k].stream \in Streams /\ pending'[k].frame = sent + 1
        BY <1>1, <1>2, <3>2 DEF JobSet
      <4>2. composed[pending'[k].stream] <= sent /\ composed[pending'[k].stream] \in Nat
        BY <1>c, <4>1
      <4> DEFINE a == composed[pending'[k].stream]
                 b == pending'[k].frame
      <4>3. a \in Nat /\ a <= sent /\ b = sent + 1
        BY <4>1, <4>2
      <4> HIDE DEF a, b
      <4>4. a < b
        BY <1>i, <4>3
      <4> QED
        BY <4>4 DEF a, b
    <3> QED
      BY <1>3, <3>1, <3>2
  <2> QED
    BY <1>2, <1>5, <1>s, <2>1 DEF LabOrder, Uncomposed
<1>12. \A s \in Streams : composed'[s] <= sent'
  BY <1>1, <1>5, <1>c
<1>13. LabOrder'
  BY <1>5, <1>8, <1>9, <1>10, <1>11, <1>12 DEF LabOrder
<1> QED
  BY <1>2, <1>4, <1>13 DEF n, J

LEMMA EnqueuedInv ==
  ASSUME LabInv, NEW c \in Clients, Enqueued(c)
  PROVE  LabInv'
<1>s. LabShape /\ LabOrder /\ LabAwaited
  BY DEF LabInv
<1> DEFINE n == Len(pending)
<1>1. /\ Submits(c) /\ Len(pending) < MaxQueue /\ Awaits(c, sent', {})
      /\ pending' = Append(pending, Job(sent', StreamOf[c]))
  BY DEF Enqueued
<1>2. /\ pending' \in Seq(JobSet) /\ Len(pending') <= MaxQueue
      /\ LabOrder' /\ n \in Nat /\ Len(pending') = n + 1
      /\ \A k \in 1..n : pending'[k] = pending[k]
      /\ pending'[n + 1] = Job(sent', StreamOf[c])
  <2>1. pending \in Seq(JobSet) /\ Len(pending) \in Nat
    BY <1>s, LenProperties DEF LabShape
  <2>2. Len(pending) + 0 = Len(pending) /\ 0 \in 0..1 /\ \A k \in 1..Len(pending) : pending[k] = pending[k + 0]
    BY <2>1
  <2> QED
    BY <1>1, <2>1, <2>2, PendingGrows
<1>3. /\ sent' = sent + 1 /\ sent' \in 1..MaxFrames /\ sent \in Nat
      /\ Job(sent', StreamOf[c]).id = sent' /\ Job(sent', StreamOf[c]).frame = sent'
      /\ Job(sent', StreamOf[c]).stream = StreamOf[c] /\ Job(sent', StreamOf[c]).done = FALSE
  BY <1>1, <1>s, NewJob
<1>4. /\ client' \in [Clients -> {"idle", "waiting", "gone"}]
      /\ awaited' \in [Clients -> 0..MaxFrames] /\ asked' \in [Clients -> 0..MaxFrames]
      /\ \A d \in Clients : client'[d] = "waiting" =>
            \/ d = c /\ awaited'[d] = sent' /\ asked'[d] = sent'
            \/ /\ client[d] = "waiting"
               /\ awaited'[d] = awaited[d] /\ asked'[d] = asked[d]
  BY <1>1, <1>3, <1>s, AwaitsFacts
<1>5. batch' = batch /\ loop' = loop /\ composed' = composed
  BY <1>1 DEF Submits
<1>6. LabShape'
  BY <1>2, <1>3, <1>4, <1>5, <1>s DEF LabShape
<1>7. LabAwaited'
  <2> SUFFICES ASSUME loop # "closed", NEW d \in Clients, client'[d] = "waiting"
               PROVE  Holds(batch, d)' \/ Holds(pending, d)'
    BY <1>5 DEF LabAwaited
  <2>1. CASE d = c /\ awaited'[d] = sent' /\ asked'[d] = sent'
    BY <1>2, <1>3, <2>1 DEF Holds
  <2>2. CASE client[d] = "waiting" /\ awaited'[d] = awaited[d] /\ asked'[d] = asked[d]
    <3>1. Holds(batch, d) \/ Holds(pending, d)
      BY <1>s, <2>2 DEF LabAwaited
    <3>2. Holds(batch, d) => Holds(batch, d)'
      BY <1>5, <2>2 DEF Holds
    <3>3. Holds(pending, d) => Holds(pending, d)'
      BY <1>2, <2>2 DEF Holds
    <3> QED
      BY <3>1, <3>2, <3>3
  <2> QED
    BY <1>4, <2>1, <2>2
<1> QED
  BY <1>2, <1>6, <1>7 DEF LabInv

LEMMA EvictedInv ==
  ASSUME LabInv, NEW c \in Clients, Evicted(c)
  PROVE  LabInv'
<1>s. LabShape /\ LabOrder /\ LabAwaited
  BY DEF LabInv
<1> DEFINE q == Tail(pending)
           n == Len(q)
           id == Head(pending).id
<1>1. /\ Submits(c) /\ Len(pending) = MaxQueue /\ Awaits(c, sent', Waiters({id}))
      /\ pending' = Append(q, Job(sent', StreamOf[c]))
  BY DEF Evicted
<1>0. /\ Head(pending) = pending[1] /\ q \in Seq(JobSet) /\ n \in Nat /\ n + 1 = Len(pending)
      /\ \A k \in 1..n : q[k] = pending[k + 1]
  <2>1. pending \in Seq(JobSet) /\ pending # << >>
    BY <1>1, <1>s, EmptySeq, SwapLabAssumption DEF LabShape
  <2>2. /\ Head(pending) = pending[1] /\ Len(pending) \in Nat \ {0}
        /\ Tail(pending) \in Seq(JobSet) /\ Len(Tail(pending)) = Len(pending) - 1
        /\ \A k \in 1..(Len(pending) - 1) : Tail(pending)[k] = pending[k + 1]
    BY <2>1, JobPopped
  <2> QED
    BY <2>2
<1> HIDE DEF q, n, id
<1>2. /\ pending' \in Seq(JobSet) /\ Len(pending') <= MaxQueue
      /\ LabOrder' /\ Len(pending') = n + 1
      /\ \A k \in 1..n : pending'[k] = q[k]
      /\ pending'[n + 1] = Job(sent', StreamOf[c])
  <2>1. 1 \in 0..1 /\ Len(q) < MaxQueue /\ Len(q) + 1 = Len(pending)
        /\ \A k \in 1..Len(q) : q[k] = pending[k + 1]
    BY <1>0, <1>1 DEF n
  <2> QED
    BY <1>0, <1>1, <2>1, PendingGrows DEF n
<1>3. /\ sent' = sent + 1 /\ sent' \in 1..MaxFrames /\ sent \in Nat
      /\ Job(sent', StreamOf[c]).id = sent' /\ Job(sent', StreamOf[c]).frame = sent'
      /\ Job(sent', StreamOf[c]).stream = StreamOf[c] /\ Job(sent', StreamOf[c]).done = FALSE
  BY <1>1, <1>s, NewJob
<1>4. /\ client' \in [Clients -> {"idle", "waiting", "gone"}]
      /\ awaited' \in [Clients -> 0..MaxFrames] /\ asked' \in [Clients -> 0..MaxFrames]
      /\ \A d \in Clients : client'[d] = "waiting" =>
            \/ d = c /\ awaited'[d] = sent' /\ asked'[d] = sent'
            \/ /\ d \notin Waiters({id}) /\ client[d] = "waiting"
               /\ awaited'[d] = awaited[d] /\ asked'[d] = asked[d]
  <2> DEFINE gone == Waiters({id})
  <2>1. gone \in SUBSET Clients /\ Awaits(c, sent', gone)
    BY <1>1 DEF Waiters
  <2> HIDE DEF gone
  <2>2. /\ client' \in [Clients -> {"idle", "waiting", "gone"}]
        /\ awaited' \in [Clients -> 0..MaxFrames] /\ asked' \in [Clients -> 0..MaxFrames]
        /\ \A d \in Clients : client'[d] = "waiting" =>
              \/ d = c /\ awaited'[d] = sent' /\ asked'[d] = sent'
              \/ /\ d \notin gone /\ client[d] = "waiting"
                 /\ awaited'[d] = awaited[d] /\ asked'[d] = asked[d]
    BY <1>1, <1>3, <1>s, <2>1, AwaitsFacts
  <2> QED
    BY <2>2 DEF gone
<1>5. batch' = batch /\ loop' = loop /\ composed' = composed
  BY <1>1 DEF Submits
<1>6. LabShape'
  BY <1>2, <1>3, <1>4, <1>5, <1>s DEF LabShape
<1>7. LabAwaited'
  <2> SUFFICES ASSUME loop # "closed", NEW d \in Clients, client'[d] = "waiting"
               PROVE  Holds(batch, d)' \/ Holds(pending, d)'
    BY <1>5 DEF LabAwaited
  <2>1. CASE d = c /\ awaited'[d] = sent' /\ asked'[d] = sent'
    BY <1>0, <1>2, <1>3, <2>1 DEF Holds
  <2>2. CASE d \notin Waiters({id}) /\ client[d] = "waiting" /\ awaited'[d] = awaited[d] /\ asked'[d] = asked[d]
    <3>1. Holds(batch, d) \/ Holds(pending, d)
      BY <1>s, <2>2 DEF LabAwaited
    <3>2. Holds(batch, d) => Holds(batch, d)'
      BY <1>5, <2>2 DEF Holds
    <3>3. ASSUME Holds(pending, d) PROVE Holds(pending, d)'
      <4>1. PICK k \in 1..Len(pending) : /\ pending[k].id = awaited[d] /\ ~pending[k].done
                                         /\ pending[k].stream = StreamOf[d] /\ pending[k].frame >= asked[d]
        BY <3>3 DEF Holds
      <4>2. pending[k].id # id
        BY <2>2, <4>1 DEF Waiters
      <4>3. k # 1
        BY <1>0, <4>2 DEF id
      <4>4. k - 1 \in 1..n /\ k - 1 \in 1..Len(pending')
        BY <1>0, <1>2, <4>3
      <4>5. pending'[k - 1] = pending[k]
        BY <1>0, <1>2, <4>4
      <4> QED
        BY <2>2, <4>1, <4>4, <4>5 DEF Holds
    <3> QED
      BY <3>1, <3>2, <3>3
  <2> QED
    BY <1>4, <2>1, <2>2
<1> QED
  BY <1>2, <1>6, <1>7 DEF LabInv

LEMMA CoalescedInv ==
  ASSUME LabInv, NEW c \in Clients, Coalesced(c)
  PROVE  LabInv'
<1> DEFINE s == StreamOf[c]
           i == Newest(OfStream(s))
           n == Len(pending)
<1>s. LabShape /\ LabOrder /\ LabAwaited
  BY DEF LabInv
<1>1. /\ Submits(c) /\ OfStream(s) # {}
      /\ pending' = [pending EXCEPT ![i] = [@ EXCEPT !.frame = sent']]
      /\ \/ pending[i].done /\ client' = [client EXCEPT ![c] = "gone"] /\ UNCHANGED <<awaited, asked>>
         \/ ~pending[i].done /\ Awaits(c, pending[i].id, {})
  BY DEF Coalesced
<1>2. /\ n \in Nat /\ DOMAIN pending = 1..n /\ pending \in Seq(JobSet)
      /\ \A k \in 1..n : pending[k] \in JobSet
  BY <1>s, LenProperties, ElementOfSeq DEF LabShape
<1>3. /\ i \in 1..n /\ pending[i].stream = s
      /\ \A k \in 1..n : pending[k].stream = s => k <= i
  <2>1. OfStream(s) \in SUBSET (1..n) /\ OfStream(s) = {k \in 1..n : pending[k].stream = s}
    BY <1>2 DEF OfStream
  <2>2. i \in OfStream(s) /\ \A k \in OfStream(s) : k <= i
    BY <1>1, <1>2, <2>1, NewestIsLast
  <2> HIDE DEF i
  <2> QED
    BY <2>1, <2>2
<1>4. /\ sent' = sent + 1 /\ sent' \in 1..MaxFrames /\ sent \in Nat
      /\ batch' = batch /\ loop' = loop /\ composed' = composed
      /\ client[c] = "idle"
  BY <1>1, <1>s, NewJob DEF Submits
<1> HIDE DEF i, n
<1>5. /\ pending' \in Seq(JobSet) /\ Len(pending') = n
      /\ \A k \in 1..n : /\ pending'[k].id = pending[k].id /\ pending'[k].stream = pending[k].stream
                         /\ pending'[k].done = pending[k].done
                         /\ pending'[k].frame = IF k = i THEN sent' ELSE pending[k].frame
  <2>1. pending' = Refreshed(pending, i, sent')
    BY <1>1 DEF Refreshed
  <2> QED
    BY <1>2, <1>3, <1>4, <2>1, JobReplaced DEF n
<1>6. \A k \in 1..n : pending[k].frame \in Nat /\ pending[k].frame <= sent
  BY <1>2, <1>s DEF LabOrder, Submitted, JobSet, n
<1>7. \A k \in 1..n : pending[k].frame <= pending'[k].frame /\ pending'[k].frame <= sent'
                      /\ (k # i => pending'[k].frame = pending[k].frame)
                      /\ pending'[k].frame \in Nat
  BY <1>4, <1>5, <1>6
<1>8. \A k \in 1..Len(batch) : batch[k].frame \in Nat /\ batch[k].frame <= sent
  <2>1. \A k \in 1..Len(batch) : batch[k] \in JobSet
    BY <1>s, ElementOfSeq DEF LabShape
  <2> QED
    BY <1>s, <2>1 DEF LabOrder, Submitted, JobSet
<1>c. \A x \in Streams : composed[x] \in Nat /\ composed[x] <= sent
  BY <1>s DEF LabOrder, LabShape
<1>9. LabOrder'
  <2>1. Submitted(pending)'
    BY <1>5, <1>7 DEF Submitted
  <2>2. Submitted(batch)'
    BY <1>4, <1>8 DEF Submitted
  <2>3. InTurn(batch)'
    BY <1>4, <1>s DEF LabOrder, InTurn
  <2>4. InTurn(pending)'
    <3> SUFFICES ASSUME NEW j \in 1..n, NEW k \in 1..n, j < k, pending'[j].stream = pending'[k].stream
                 PROVE  pending'[j].frame < pending'[k].frame
      BY <1>5 DEF InTurn
    <3>1. pending[j].frame < pending[k].frame /\ pending[j].stream = pending[k].stream
      BY <1>5, <1>s DEF LabOrder, InTurn, n
    <3>2. j # i
      BY <1>2, <1>3, <3>1
    <3>3. pending'[j].frame = pending[j].frame /\ pending[k].frame <= pending'[k].frame
      BY <1>7, <3>2
    <3> QED
      BY <1>6, <1>7, <3>1, <3>3
  <2>5. Before(batch, pending)'
    <3> SUFFICES ASSUME NEW j \in 1..Len(batch), NEW k \in 1..n, batch[j].stream = pending'[k].stream
                 PROVE  batch[j].frame < pending'[k].frame
      BY <1>4, <1>5 DEF Before
    <3>1. batch[j].frame < pending[k].frame
      BY <1>5, <1>s DEF LabOrder, Before, n
    <3> QED
      BY <1>6, <1>7, <1>8, <3>1
  <2>6. Uncomposed(pending)'
    <3> SUFFICES ASSUME NEW k \in 1..n
                 PROVE  composed[pending'[k].stream] < pending'[k].frame
      BY <1>4, <1>5 DEF Uncomposed
    <3>1. composed[pending[k].stream] < pending[k].frame
      BY <1>s DEF LabOrder, Uncomposed, n
    <3>2. composed[pending[k].stream] \in Nat
      BY <1>2, <1>c DEF JobSet
    <3>3. pending'[k].stream = pending[k].stream
      BY <1>5
    <3> QED
      BY <1>6, <1>7, <3>1, <3>2, <3>3
  <2>7. loop' # "composing" => Uncomposed(batch)'
    BY <1>4, <1>s DEF LabOrder, Uncomposed
  <2>8. \A x \in Streams : composed'[x] <= sent'
    BY <1>4, <1>c
  <2> QED
    BY <2>1, <2>2, <2>3, <2>4, <2>5, <2>6, <2>7, <2>8 DEF LabOrder
<1>10. /\ client' \in [Clients -> {"idle", "waiting", "gone"}]
       /\ awaited' \in [Clients -> 0..MaxFrames] /\ asked' \in [Clients -> 0..MaxFrames]
       /\ \A d \in Clients : client'[d] = "waiting" =>
             \/ d = c /\ awaited'[d] = pending[i].id /\ asked'[d] = sent' /\ ~pending[i].done
             \/ client[d] = "waiting" /\ awaited'[d] = awaited[d] /\ asked'[d] = asked[d]
  <2>1. CASE pending[i].done /\ client' = [client EXCEPT ![c] = "gone"] /\ UNCHANGED <<awaited, asked>>
    BY <1>s, <2>1 DEF LabShape
  <2>2. CASE ~pending[i].done /\ Awaits(c, pending[i].id, {})
    <3>1. pending[i].id \in 1..MaxFrames
      BY <1>2, <1>3 DEF JobSet
    <3>2. {} \in SUBSET Clients
      OBVIOUS
    <3>3. /\ client' \in [Clients -> {"idle", "waiting", "gone"}]
          /\ awaited' \in [Clients -> 0..MaxFrames] /\ asked' \in [Clients -> 0..MaxFrames]
          /\ \A d \in Clients : client'[d] = "waiting" =>
                \/ d = c /\ awaited'[d] = pending[i].id /\ asked'[d] = sent'
                \/ /\ d \notin {} /\ client[d] = "waiting"
                   /\ awaited'[d] = awaited[d] /\ asked'[d] = asked[d]
      BY <1>1, <1>s, <2>2, <3>1, <3>2, AwaitsFacts
    <3> QED
      BY <2>2, <3>3
  <2> QED
    BY <1>1, <2>1, <2>2
<1>11. LabShape'
  <2>1. Len(pending') <= MaxQueue
    BY <1>5, <1>s DEF LabShape, n
  <2>2. sent' \in 0..MaxFrames
    BY <1>4
  <2> QED
    BY <1>4, <1>5, <1>10, <1>s, <2>1, <2>2 DEF LabShape
<1>12. LabAwaited'
  <2> SUFFICES ASSUME loop # "closed", NEW d \in Clients, client'[d] = "waiting"
               PROVE  Holds(batch, d)' \/ Holds(pending, d)'
    BY <1>4 DEF LabAwaited
  <2>1. CASE d = c /\ awaited'[d] = pending[i].id /\ asked'[d] = sent' /\ ~pending[i].done
    <3>1. pending'[i].id = awaited'[d] /\ ~pending'[i].done /\ pending'[i].stream = StreamOf[d]
      BY <1>3, <1>5, <2>1
    <3>2. pending'[i].frame >= asked'[d]
      BY <1>3, <1>4, <1>5, <2>1
    <3>3. i \in 1..Len(pending')
      BY <1>3, <1>5
    <3> QED
      BY <3>1, <3>2, <3>3 DEF Holds
  <2>2. CASE client[d] = "waiting" /\ awaited'[d] = awaited[d] /\ asked'[d] = asked[d]
    <3>1. Holds(batch, d) \/ Holds(pending, d)
      BY <1>s, <2>2 DEF LabAwaited
    <3>2. Holds(batch, d) => Holds(batch, d)'
      BY <1>4, <2>2 DEF Holds
    <3>3. ASSUME Holds(pending, d) PROVE Holds(pending, d)'
      <4>1. PICK k \in 1..n : /\ pending[k].id = awaited[d] /\ ~pending[k].done
                              /\ pending[k].stream = StreamOf[d] /\ pending[k].frame >= asked[d]
        BY <3>3 DEF Holds, n
      <4>2. pending'[k].id = awaited'[d] /\ ~pending'[k].done /\ pending'[k].stream = StreamOf[d]
        BY <1>5, <2>2, <4>1
      <4>3. asked[d] \in Nat
        BY <1>s, SwapLabAssumption DEF LabShape
      <4>4. pending'[k].frame >= asked'[d]
        BY <1>6, <1>7, <2>2, <4>1, <4>3
      <4>5. k \in 1..Len(pending')
        BY <1>5
      <4> QED
        BY <4>2, <4>4, <4>5 DEF Holds
    <3> QED
      BY <3>1, <3>2, <3>3
  <2> QED
    BY <1>10, <2>1, <2>2
<1> QED
  BY <1>9, <1>11, <1>12 DEF LabInv

\* The head of the queue goes to the end of the batch.
LEMMA JobTaken ==
  ASSUME LabInv, loop # "composing", pending # << >>, Len(batch) < MaxBatch,
         batch' = Append(batch, Head(pending)), pending' = Tail(pending),
         loop' # "composing", composed' = composed, sent' = sent,
         UNCHANGED <<client, awaited, asked>>, loop' # "waiting", loop # "closed",
         loop' \in {"gathering", "predicting"}, loop' = "gathering" => Len(batch') < MaxBatch
  PROVE  LabInv'
<1> DEFINE b == Len(batch)
           p == Len(pending)
<1>s. LabShape /\ LabOrder /\ LabAwaited
  BY DEF LabInv
<1>1. /\ p \in Nat \ {0} /\ pending' \in Seq(JobSet) /\ Len(pending') = p - 1
      /\ Head(pending) = pending[1] /\ pending[1] \in JobSet
      /\ \A k \in 1..(p - 1) : pending'[k] = pending[k + 1]
  <2>1. pending \in Seq(JobSet)
    BY <1>s DEF LabShape
  <2>2. /\ Head(pending) \in JobSet /\ Head(pending) = pending[1] /\ Len(pending) \in Nat \ {0}
        /\ Tail(pending) \in Seq(JobSet) /\ Len(Tail(pending)) = Len(pending) - 1
        /\ \A k \in 1..(Len(pending) - 1) : Tail(pending)[k] = pending[k + 1]
    BY <2>1, JobPopped
  <2> QED
    BY <2>2
<1>2. /\ b \in Nat /\ batch' \in Seq(JobSet) /\ Len(batch') = b + 1
      /\ \A k \in 1..b : batch'[k] = batch[k]
      /\ batch'[b + 1] = pending[1]
  <2>1. batch \in Seq(JobSet)
    BY <1>s DEF LabShape
  <2> QED
    BY <1>1, <2>1, JobPushed
<1> HIDE DEF b, p
<1>3. \A k \in 1..(b + 1) : k \in 1..b \/ k = b + 1
  BY <1>2
<1>4. \A k \in 1..(p - 1) : k + 1 \in 1..p /\ 1 < k + 1
  BY <1>1
<1>5. 1 \in 1..p
  BY <1>1
<1>6. LabShape'
  <2>1. Len(pending') <= MaxQueue /\ Len(batch') <= MaxBatch
    BY <1>1, <1>2, <1>s, SwapLabAssumption DEF LabShape, b, p
  <2> QED
    BY <1>1, <1>2, <1>s, <2>1 DEF LabShape
<1>7. LabOrder'
  <2>1. Submitted(batch)' /\ Submitted(pending)'
    BY <1>1, <1>2, <1>3, <1>4, <1>5, <1>s DEF LabOrder, Submitted, b, p
  <2>2. InTurn(pending)'
    <3> SUFFICES ASSUME NEW j \in 1..(p - 1), NEW k \in 1..(p - 1), j < k,
                        pending'[j].stream = pending'[k].stream
                 PROVE  pending'[j].frame < pending'[k].frame
      BY <1>1 DEF InTurn
    <3>1. j + 1 \in 1..p /\ k + 1 \in 1..p /\ j + 1 < k + 1
      BY <1>1
    <3> QED
      BY <1>1, <1>s, <3>1 DEF LabOrder, InTurn, p
  <2>3. InTurn(batch)'
    <3> SUFFICES ASSUME NEW j \in 1..(b + 1), NEW k \in 1..(b + 1), j < k,
                        batch'[j].stream = batch'[k].stream
                 PROVE  batch'[j].frame < batch'[k].frame
      BY <1>2 DEF InTurn
    <3>1. j \in 1..b
      BY <1>2
    <3>2. CASE k \in 1..b
      BY <1>2, <1>s, <3>1, <3>2 DEF LabOrder, InTurn, b
    <3>3. CASE k = b + 1
      BY <1>2, <1>5, <1>s, <3>1, <3>3 DEF LabOrder, Before, b, p
    <3> QED
      BY <1>3, <3>2, <3>3
  <2>4. Before(batch, pending)'
    <3> SUFFICES ASSUME NEW j \in 1..(b + 1), NEW k \in 1..(p - 1), batch'[j].stream = pending'[k].stream
                 PROVE  batch'[j].frame < pending'[k].frame
      BY <1>1, <1>2 DEF Before
    <3>1. k + 1 \in 1..p /\ 1 < k + 1 /\ pending'[k] = pending[k + 1]
      BY <1>1, <1>4
    <3>2. CASE j \in 1..b
      BY <1>2, <1>s, <3>1, <3>2 DEF LabOrder, Before, b, p
    <3>3. CASE j = b + 1
      BY <1>2, <1>5, <1>s, <3>1, <3>3 DEF LabOrder, InTurn, p
    <3> QED
      BY <1>3, <3>2, <3>3
  <2>5. Uncomposed(batch)'
    <3> SUFFICES ASSUME NEW k \in 1..(b + 1)
                 PROVE  composed[batch'[k].stream] < batch'[k].frame
      BY <1>2 DEF Uncomposed
    <3>1. CASE k \in 1..b
      BY <1>2, <1>s, <3>1 DEF LabOrder, Uncomposed, b
    <3>2. CASE k = b + 1
      BY <1>2, <1>5, <1>s, <3>2 DEF LabOrder, Uncomposed, p
    <3> QED
      BY <1>3, <3>1, <3>2
  <2>6. Uncomposed(pending)'
    BY <1>1, <1>4, <1>s DEF LabOrder, Uncomposed, p
  <2> QED
    BY <1>s, <2>1, <2>2, <2>3, <2>4, <2>5, <2>6 DEF LabOrder
<1>8. LabAwaited'
  <2> SUFFICES ASSUME NEW d \in Clients, client[d] = "waiting"
               PROVE  Holds(batch, d)' \/ Holds(pending, d)'
    BY DEF LabAwaited
  <2>1. Holds(batch, d) \/ Holds(pending, d)
    <3>1. loop # "closed" /\ client[d] = "waiting"
      OBVIOUS
    <3> QED
      BY <1>s, <3>1 DEF LabAwaited
  <2>2. ASSUME Holds(batch, d) PROVE Holds(batch, d)'
    <3>1. PICK k \in 1..b : /\ batch[k].id = awaited[d] /\ ~batch[k].done
                            /\ batch[k].stream = StreamOf[d] /\ batch[k].frame >= asked[d]
      BY <2>2 DEF Holds, b
    <3>2. k \in 1..Len(batch') /\ batch'[k] = batch[k]
      BY <1>2
    <3> QED
      BY <3>1, <3>2 DEF Holds
  <2>3. ASSUME Holds(pending, d) PROVE Holds(batch, d)' \/ Holds(pending, d)'
    <3>1. PICK k \in 1..p : /\ pending[k].id = awaited[d] /\ ~pending[k].done
                            /\ pending[k].stream = StreamOf[d] /\ pending[k].frame >= asked[d]
      BY <2>3 DEF Holds, p
    <3>2. CASE k = 1
      <4>1. b + 1 \in 1..Len(batch') /\ batch'[b + 1] = pending[k]
        BY <1>2, <3>2
      <4> QED
        BY <3>1, <4>1 DEF Holds
    <3>3. CASE k # 1
      <4>1. k - 1 \in 1..(p - 1) /\ (k - 1) + 1 = k
        BY <1>1, <3>3
      <4>2. k - 1 \in 1..Len(pending') /\ pending'[k - 1] = pending[k]
        BY <1>1, <4>1
      <4> QED
        BY <3>1, <4>2 DEF Holds
    <3> QED
      BY <3>2, <3>3
  <2> QED
    BY <2>1, <2>2, <2>3
<1> QED
  BY <1>6, <1>7, <1>8 DEF LabInv

LEMMA TakeFirstInv == LabInv /\ TakeFirst => LabInv'
<1> SUFFICES ASSUME LabInv, TakeFirst PROVE LabInv'
  OBVIOUS
<1>1. batch = << >> /\ loop = "waiting" /\ pending # << >> /\ pending \in Seq(JobSet)
  BY DEF LabInv, LabShape, TakeFirst
<1>2. Head(pending) \in JobSet
  BY <1>1, JobPopped
<1>3. Len(batch) = 0 /\ batch' = Append(batch, Head(pending)) /\ Len(batch') = 1
  <2>1. Len(<< >>) = 0 /\ Append(<< >>, Head(pending)) = <<Head(pending)>> /\ Len(<<Head(pending)>>) = 1
    OBVIOUS
  <2> QED
    BY <1>1, <2>1 DEF TakeFirst
<1>4. 0 < MaxBatch /\ (MaxBatch > 1 => 1 < MaxBatch)
  BY SwapLabAssumption
<1>5. /\ pending' = Tail(pending) /\ composed' = composed /\ sent' = sent
      /\ UNCHANGED <<client, awaited, asked>>
      /\ loop' \in {"gathering", "predicting"} /\ (loop' = "gathering" => MaxBatch > 1)
  BY DEF TakeFirst, clientVars
<1> QED
  BY <1>1, <1>3, <1>4, <1>5, JobTaken

LEMMA GatherInv == LabInv /\ Gather => LabInv'
<1> SUFFICES ASSUME LabInv, Gather PROVE LabInv'
  OBVIOUS
<1>1. /\ loop = "gathering" /\ pending # << >> /\ Len(batch) < MaxBatch
      /\ batch' = Append(batch, Head(pending)) /\ pending' = Tail(pending)
      /\ composed' = composed /\ sent' = sent /\ UNCHANGED <<client, awaited, asked>>
      /\ loop' \in {"gathering", "predicting"} /\ (loop' = "gathering" => Len(batch') < MaxBatch)
  BY DEF LabInv, LabShape, Gather, clientVars
<1> QED
  BY <1>1, JobTaken

LEMMA GatherEndsInv == LabInv /\ GatherEnds => LabInv'
<1> SUFFICES ASSUME LabInv, GatherEnds PROVE LabInv'
  OBVIOUS
<1>1. /\ loop = "gathering" /\ loop' = "predicting"
      /\ UNCHANGED <<client, awaited, asked, sent, pending, batch, composed>>
  BY DEF GatherEnds, clientVars
<1>2. LabShape'
  BY <1>1 DEF LabInv, LabShape
<1>3. LabOrder'
  BY <1>1 DEF LabInv, LabOrder, Submitted, InTurn, Before, Uncomposed
<1>4. LabAwaited'
  BY <1>1 DEF LabInv, LabAwaited, Holds
<1> QED
  BY <1>2, <1>3, <1>4 DEF LabInv

LEMMA LabClosesInv == LabInv /\ LabCloses => LabInv'
<1> SUFFICES ASSUME LabInv, LabCloses PROVE LabInv'
  OBVIOUS
<1>1. /\ loop' = "closed" /\ batch' = << >>
      /\ UNCHANGED <<client, awaited, asked, sent, pending, composed>>
  BY DEF LabCloses, clientVars
<1>2. << >> \in Seq(JobSet) /\ Len(batch') = 0
  BY <1>1, EmptySeq
<1>3. LabShape'
  BY <1>1, <1>2, SwapLabAssumption DEF LabInv, LabShape
<1>4. LabOrder'
  BY <1>1, <1>2 DEF LabInv, LabOrder, Submitted, InTurn, Before, Uncomposed
<1>5. LabAwaited'
  BY <1>1 DEF LabAwaited
<1> QED
  BY <1>3, <1>4, <1>5 DEF LabInv

\* Once the jobs of the batch are answered nobody waits for them, and what the
\* others wait for is still in the queue.
LEMMA AnsweredInv ==
  ASSUME LabInv, loop # "closed", NEW failed \in SUBSET Ids(batch), Answered(failed),
         composed' \in [Streams -> 0..MaxFrames],
         \A s \in Streams : composed'[s] <= sent,
         \A k \in 1..Len(pending) : composed'[pending[k].stream] < pending[k].frame
  PROVE  LabInv'
<1>s. LabShape /\ LabOrder /\ LabAwaited
  BY DEF LabInv
<1>0. PICK ended \in {{}, Waiters(failed)} : Resumed(Waiters(Ids(batch)) \ ended, ended)
  BY DEF Answered
<1>1. /\ pending' = pending /\ batch' = << >> /\ loop' = "waiting"
  BY DEF Answered
<1> DEFINE again == Waiters(Ids(batch)) \ ended
<1>2. again \in SUBSET Clients /\ ended \in SUBSET Clients /\ Resumed(again, ended)
      /\ \A d \in Waiters(Ids(batch)) : d \in again \cup ended
  BY <1>0 DEF Waiters
<1> HIDE DEF again
<1>3. /\ client' \in [Clients -> {"idle", "waiting", "gone"}]
      /\ awaited' \in [Clients -> 0..MaxFrames] /\ asked' \in [Clients -> 0..MaxFrames]
      /\ sent' = sent
      /\ \A c \in Clients : client'[c] = "waiting" =>
               /\ c \notin again \cup ended /\ client[c] = "waiting"
               /\ awaited'[c] = awaited[c] /\ asked'[c] = asked[c]
  BY <1>2, <1>s, ResumedFacts
<1>4. << >> \in Seq(JobSet) /\ Len(batch') = 0
  BY <1>1, EmptySeq
<1>5. LabShape'
  BY <1>1, <1>3, <1>4, <1>s, SwapLabAssumption DEF LabShape
<1>6. LabOrder'
  <2>1. Submitted(batch)' /\ InTurn(batch)' /\ Before(batch, pending)' /\ Uncomposed(batch)'
    BY <1>4 DEF Submitted, InTurn, Before, Uncomposed
  <2>2. Submitted(pending)' /\ InTurn(pending)'
    BY <1>1, <1>3, <1>s DEF LabOrder, Submitted, InTurn
  <2>3. Uncomposed(pending)'
    BY <1>1 DEF Uncomposed
  <2> QED
    BY <1>3, <2>1, <2>2, <2>3 DEF LabOrder
<1>7. LabAwaited'
  <2> SUFFICES ASSUME NEW d \in Clients, client'[d] = "waiting"
               PROVE  Holds(pending, d)'
    BY DEF LabAwaited
  <2>1. /\ d \notin Waiters(Ids(batch)) /\ client[d] = "waiting"
        /\ awaited'[d] = awaited[d] /\ asked'[d] = asked[d]
    BY <1>2, <1>3
  <2>2. awaited[d] \notin Ids(batch)
    BY <2>1 DEF Waiters
  <2>3. ~Holds(batch, d)
    <3>1. DOMAIN batch = 1..Len(batch)
      BY <1>s, LenProperties DEF LabShape
    <3> QED
      BY <2>2, <3>1 DEF Holds, Ids
  <2>4. Holds(pending, d)
    BY <1>s, <2>1, <2>3 DEF LabAwaited
  <2> QED
    BY <1>1, <2>1, <2>4 DEF Holds
<1> QED
  BY <1>5, <1>6, <1>7 DEF LabInv

LEMMA PredictFailsInv == LabInv /\ PredictFails => LabInv'
<1> SUFFICES ASSUME LabInv, PredictFails PROVE LabInv'
  OBVIOUS
<1>1. loop # "closed" /\ Answered(Ids(batch)) /\ Ids(batch) \in SUBSET Ids(batch) /\ composed' = composed
  BY DEF PredictFails
<1>2. /\ composed' \in [Streams -> 0..MaxFrames]
      /\ \A s \in Streams : composed'[s] <= sent
      /\ \A k \in 1..Len(pending) : composed'[pending[k].stream] < pending[k].frame
  BY <1>1 DEF LabInv, LabShape, LabOrder, Uncomposed
<1> QED
  BY <1>1, <1>2, AnsweredInv

LEMMA GroupsAnsweredInv == LabInv /\ GroupsAnswered => LabInv'
<1> SUFFICES ASSUME LabInv, GroupsAnswered PROVE LabInv'
  OBVIOUS
<1>1. PICK failed \in SUBSET Ids(batch) : Answered(failed)
  BY DEF GroupsAnswered
<1>2. loop # "closed" /\ composed' = composed
  BY DEF GroupsAnswered
<1>3. /\ composed' \in [Streams -> 0..MaxFrames]
      /\ \A s \in Streams : composed'[s] <= sent
      /\ \A k \in 1..Len(pending) : composed'[pending[k].stream] < pending[k].frame
  BY <1>2 DEF LabInv, LabShape, LabOrder, Uncomposed
<1> QED
  BY <1>1, <1>2, <1>3, AnsweredInv

\* The trackers are given frames that were sent before those still in the queue.
LEMMA ComposedFacts ==
  ASSUME LabInv, NEW n \in 0..Len(batch), composed' = ComposedUpTo(n)
  PROVE  /\ composed' \in [Streams -> 0..MaxFrames]
         /\ \A s \in Streams : composed'[s] <= sent
         /\ \A k \in 1..Len(pending) : composed'[pending[k].stream] < pending[k].frame
<1>s. LabShape /\ LabOrder
  BY DEF LabInv
<1>1. /\ Len(batch) \in Nat /\ n \in Nat /\ n <= Len(batch)
      /\ \A k \in 1..Len(batch) : batch[k] \in JobSet
      /\ \A k \in 1..Len(pending) : pending[k] \in JobSet
  BY <1>s, LenProperties, ElementOfSeq DEF LabShape
<1>2. \A s \in Streams :
         \/ composed'[s] = composed[s]
         \/ \E k \in 1..Len(batch) : batch[k].stream = s /\ composed'[s] = batch[k].frame
  <2> SUFFICES ASSUME NEW s \in Streams
               PROVE  \/ composed'[s] = composed[s]
                      \/ \E k \in 1..Len(batch) : batch[k].stream = s /\ composed'[s] = batch[k].frame
    OBVIOUS
  <2> DEFINE seen == {k \in 1..n : batch[k].stream = s}
             i == Newest(seen)
  <2>1. composed'[s] = IF seen = {} THEN composed[s] ELSE batch[i].frame
    BY DEF ComposedUpTo
  <2>2. seen # {} => i \in seen
    <3>1. seen \in SUBSET (1..n)
      OBVIOUS
    <3> HIDE DEF seen
    <3> QED
      BY <1>1, <3>1, NewestIsLast
  <2> HIDE DEF i
  <2>3. i \in seen => i \in 1..Len(batch) /\ batch[i].stream = s
    BY <1>1
  <2> HIDE DEF seen
  <2> QED
    BY <2>1, <2>2, <2>3
<1>3. \A k \in 1..Len(batch) : batch[k].frame \in 0..MaxFrames /\ batch[k].frame <= sent
  <2>1. \A k \in 1..Len(batch) : batch[k].frame \in 1..MaxFrames
    BY <1>1 DEF JobSet
  <2> QED
    BY <1>s, <2>1, SwapLabAssumption DEF LabOrder, Submitted
<1>4. \A s \in Streams : composed[s] \in 0..MaxFrames /\ composed[s] <= sent
  BY <1>s DEF LabShape, LabOrder
<1>5. \A s \in Streams : composed'[s] \in 0..MaxFrames /\ composed'[s] <= sent
  BY <1>2, <1>3, <1>4
<1>6. composed' \in [Streams -> 0..MaxFrames]
  <2>1. \E f : composed' = [s \in Streams |-> f[s]]
    <3> DEFINE f == composed'
    <3>1. composed' = [s \in Streams |-> f[s]]
      BY DEF ComposedUpTo
    <3> QED
      BY <3>1
  <2> QED
    BY <1>5, <2>1
<1>7. \A k \in 1..Len(pending) : composed'[pending[k].stream] < pending[k].frame
  <2> SUFFICES ASSUME NEW k \in 1..Len(pending)
               PROVE  composed'[pending[k].stream] < pending[k].frame
    OBVIOUS
  <2>1. pending[k].stream \in Streams
    BY <1>1 DEF JobSet
  <2>2. composed[pending[k].stream] < pending[k].frame
    BY <1>s DEF LabOrder, Uncomposed
  <2>3. \A j \in 1..Len(batch) : batch[j].stream = pending[k].stream => batch[j].frame < pending[k].frame
    BY <1>s DEF LabOrder, Before
  <2> QED
    BY <1>2, <2>1, <2>2, <2>3
<1> QED
  BY <1>5, <1>6, <1>7

LEMMA ComposedAloneInv == LabInv /\ ComposedAlone => LabInv'
<1> SUFFICES ASSUME LabInv, ComposedAlone PROVE LabInv'
  OBVIOUS
<1>1. PICK n \in 0..Len(batch) :
          /\ composed' = ComposedUpTo(IF n < Len(batch) THEN n + 1 ELSE n)
          /\ Answered({batch[k].id : k \in (n + 1)..Len(batch)})
  BY DEF ComposedAlone
<1>2. Len(batch) \in Nat /\ DOMAIN batch = 1..Len(batch)
  BY LenProperties DEF LabInv, LabShape
<1> DEFINE m == IF n < Len(batch) THEN n + 1 ELSE n
           failed == {batch[k].id : k \in (n + 1)..Len(batch)}
<1>3. m \in 0..Len(batch) /\ failed \in SUBSET Ids(batch)
  BY <1>2 DEF Ids
<1>4. composed' = ComposedUpTo(m) /\ Answered(failed) /\ loop # "closed"
  BY <1>1 DEF ComposedAlone
<1> HIDE DEF m, failed
<1> QED
  BY <1>3, <1>4, ComposedFacts, AnsweredInv

LEMMA ComposeGroupsInv == LabInv /\ ComposeGroups => LabInv'
<1> SUFFICES ASSUME LabInv, ComposeGroups PROVE LabInv'
  OBVIOUS
<1>s. LabShape /\ LabOrder /\ LabAwaited
  BY DEF LabInv
<1>1. /\ loop = "predicting" /\ loop' = "composing" /\ composed' = ComposedUpTo(Len(batch))
      /\ UNCHANGED <<client, awaited, asked, sent, pending, batch>>
  BY DEF ComposeGroups, clientVars
<1>2. Len(batch) \in 0..Len(batch)
  BY <1>s, LenProperties DEF LabShape
<1>3. /\ composed' \in [Streams -> 0..MaxFrames]
      /\ \A s \in Streams : composed'[s] <= sent
      /\ \A k \in 1..Len(pending) : composed'[pending[k].stream] < pending[k].frame
  BY <1>1, <1>2, ComposedFacts
<1>4. LabShape'
  BY <1>1, <1>3, <1>s DEF LabShape
<1>5. LabOrder'
  BY <1>1, <1>3, <1>s DEF LabOrder, Submitted, InTurn, Before, Uncomposed
<1>6. LabAwaited'
  BY <1>1, <1>s DEF LabAwaited, Holds
<1> QED
  BY <1>4, <1>5, <1>6 DEF LabInv

LEMMA LabStepInv == LabInv /\ [LabNext]_labVars => LabInv'
<1> SUFFICES ASSUME LabInv, [LabNext]_labVars PROVE LabInv'
  OBVIOUS
<1>1. ASSUME NEW c \in Clients, ClientSteps(c) PROVE LabInv'
  BY <1>1, TrackStopsInv, SocketEndsInv, EnqueuedInv, CoalescedInv, EvictedInv DEF ClientSteps
<1>2. CASE BatchSteps
  BY <1>2, TakeFirstInv, GatherInv, GatherEndsInv, PredictFailsInv, ComposedAloneInv,
     ComposeGroupsInv, GroupsAnsweredInv DEF BatchSteps
<1>3. CASE LabCloses
  BY <1>3, LabClosesInv
<1>4. CASE UNCHANGED labVars
  <2>1. UNCHANGED <<client, awaited, asked, sent, pending, batch, composed, loop>>
    BY <1>4 DEF labVars
  <2>2. LabShape'
    BY <2>1 DEF LabInv, LabShape
  <2>3. LabOrder'
    BY <2>1 DEF LabInv, LabOrder, Submitted, InTurn, Before, Uncomposed
  <2>4. LabAwaited'
    BY <2>1 DEF LabInv, LabAwaited, Holds
  <2> QED
    BY <2>2, <2>3, <2>4 DEF LabInv
<1> QED
  BY <1>1, <1>2, <1>3, <1>4 DEF LabNext

LEMMA LabInvariant == LabSpec => []LabInv
BY LabInitInv, LabStepInv, PTL DEF LabSpec

\* The types of the lab's state hold for any number of clients and streams and
\* any size of the queue and of the batch.
THEOREM LabTypeOKHolds == LabSpec => []LabTypeOK
<1>1. LabInv => LabTypeOK
  BY JobsAreInOrderIsMeant
<1> QED
  BY <1>1, LabInvariant, PTL

\* However frames are coalesced, evicted, gathered, cancelled and answered, each
\* stream's frames are composed in the order they were sent, and whoever waits
\* has a job to wait for, of its stream and no older than what it asked for.
THEOREM JobsAreInOrderHolds == LabSpec => []JobsAreInOrder
<1>1. LabInv => JobsAreInOrder
  BY JobsAreInOrderIsMeant
<1> QED
  BY <1>1, LabInvariant, PTL

-----------------------------------------------------------------------------
(* The composition of a frame in the swap lab                                *)

\* Concatenation, list by list.
Flattens(f, lists) ==
    f = [i \in 1..Len(lists) |-> IF i = 1 THEN lists[i] ELSE f[i - 1] \o lists[i]]

LEMMA FlattenIsDefined ==
  ASSUME NEW S, NEW lists \in Seq(S), lists # << >>
  PROVE  \E f : Flattens(f, lists) /\ FlattenSeq(lists) = f[Len(lists)]
<1> DEFINE n == Len(lists)
           Upto(m, g) == g = [i \in 1..m |-> IF i = 1 THEN lists[i] ELSE g[i - 1] \o lists[i]]
           T == {m \in Nat : ~ \E g : Upto(m, g)}
<1>1. n \in Nat \ {0}
  BY EmptySeq, LenProperties
<1>2. Upto(0, [i \in 1..0 |-> 0])
  OBVIOUS
<1>3. ASSUME NEW m \in Nat, NEW g, Upto(m, g)
      PROVE  \E h : Upto(m + 1, h)
  <2> DEFINE h == [i \in 1..(m + 1) |->
                     IF i = m + 1 THEN (IF i = 1 THEN lists[i] ELSE g[i - 1] \o lists[i]) ELSE g[i]]
  <2>1. \A i \in 1..m : g[i] = IF i = 1 THEN lists[i] ELSE g[i - 1] \o lists[i]
    BY <1>3
  <2>2. \A i \in 1..m : h[i] = g[i]
    OBVIOUS
  <2>3. \A i \in 1..(m + 1) : h[i] = IF i = 1 THEN lists[i] ELSE h[i - 1] \o lists[i]
    <3> SUFFICES ASSUME NEW i \in 1..(m + 1)
                 PROVE  h[i] = IF i = 1 THEN lists[i] ELSE h[i - 1] \o lists[i]
      OBVIOUS
    <3>1. i # 1 => h[i - 1] = g[i - 1]
      BY <2>2
    <3>2. CASE i = m + 1
      BY <3>1, <3>2
    <3>3. CASE i # m + 1
      BY <2>1, <2>2, <3>1, <3>3
    <3> QED
      BY <3>2, <3>3
  <2>4. h = [i \in 1..(m + 1) |-> h[i]]
    OBVIOUS
  <2> HIDE DEF h
  <2>5. h = [i \in 1..(m + 1) |-> IF i = 1 THEN lists[i] ELSE h[i - 1] \o lists[i]]
    BY <2>3, <2>4
  <2> QED
    BY <2>5
<1>4. T = {}
  <2> SUFFICES ASSUME T # {} PROVE FALSE
    OBVIOUS
  <2>1. PICK m \in T : \A k \in T : m <= k
    <3>1. T \in SUBSET Nat
      OBVIOUS
    <3> HIDE DEF T
    <3> QED
      BY <3>1, MinIsLeast
  <2>2. m \in Nat /\ ~ \E g : Upto(m, g)
    BY <2>1
  <2> HIDE DEF Upto
  <2>3. m # 0
    BY <1>2, <2>2
  <2>4. m - 1 \in Nat /\ m - 1 \notin T
    BY <2>1, <2>2, <2>3
  <2>5. PICK g : Upto(m - 1, g)
    BY <2>4
  <2>6. (m - 1) + 1 = m
    BY <2>2
  <2> QED
    BY <1>3, <2>2, <2>4, <2>5, <2>6
<1>5. \E g : Flattens(g, lists)
  BY <1>1, <1>4 DEF Flattens
<1> DEFINE f == CHOOSE g : g = [i \in 1..Len(lists) |-> IF i = 1 THEN lists[i] ELSE g[i - 1] \o lists[i]]
<1>6. FlattenSeq(lists) = f[Len(lists)]
  BY <1>1 DEF FlattenSeq
<1>7. Flattens(f, lists)
  BY <1>5 DEF Flattens
<1> QED
  BY <1>6, <1>7

LEMMA JoinedSubSeqs ==
  ASSUME NEW S, NEW s \in Seq(S), NEW a \in Nat, NEW b \in Nat, a <= b, b <= Len(s)
  PROVE  /\ SubSeq(s, 1, a) \o SubSeq(s, a + 1, b) = SubSeq(s, 1, b)
         /\ SubSeq(s, a + 1, b) \in Seq(S)
<1>1. Len(s) \in Nat /\ \A i \in (a + 1)..b : s[i] \in S
  <2>1. Len(s) \in Nat /\ (a + 1)..b \subseteq 1..Len(s)
    BY LenProperties
  <2> QED
    BY <2>1, ElementOfSeq
<1>2. SubSeq(s, 1, a) \o SubSeq(s, a + 1, b) = SubSeq(s, 1, b)
  <2>1. 1 \in 1..(Len(s) + 1) /\ a \in (1 - 1)..Len(s) /\ b \in a..Len(s)
    BY <1>1
  <2> QED
    BY <2>1, ConcatAdjacentSubSeq
<1>3. SubSeq(s, a + 1, b) \in Seq(S)
  BY <1>1, SubSeqProperties
<1> QED
  BY <1>2, <1>3

\* Sliced by the size of the engine and put together again, the rows are those
\* of the faces, in their order, for any number of faces and any size.
THEOREM RowsAreTheFaces ==
  ASSUME NEW S, NEW faces \in Seq(S), faces # << >>
  PROVE  Rows(faces) = faces
<1> DEFINE n == Len(faces)
           c == (n + MaxRows - 1) \div MaxRows
           upto(k) == Min({k * MaxRows, n})
           chunks == [k \in 1..c |-> SubSeq(faces, (k - 1) * MaxRows + 1, upto(k))]
<1>1. n \in Nat \ {0} /\ MaxRows \in Nat \ {0} /\ SubSeq(faces, 1, n) = faces
  BY EmptySeq, LenProperties, SubSeqFull, SwapPassAssumption
<1>2. c \in Nat /\ c * MaxRows <= n + MaxRows - 1 /\ n + MaxRows - 1 < c * MaxRows + MaxRows
  <2>1. n + MaxRows - 1 \in Nat
    BY <1>1
  <2> QED
    BY <1>1, <2>1
<1>3. c \in Nat \ {0} /\ (c - 1) * MaxRows < n /\ n <= c * MaxRows
  <2>1. c # 0
    BY <1>1, <1>2
  <2>2. (c - 1) * MaxRows = c * MaxRows - MaxRows
    BY <1>1, <1>2
  <2>3. c * MaxRows \in Nat
    BY <1>1, <1>2
  <2> HIDE DEF c
  <2> QED
    BY <1>1, <1>2, <2>1, <2>2, <2>3
<1>4. \A k \in Nat : upto(k) = IF k * MaxRows <= n THEN k * MaxRows ELSE n
  <2> SUFFICES ASSUME NEW k \in Nat
               PROVE  upto(k) = IF k * MaxRows <= n THEN k * MaxRows ELSE n
    OBVIOUS
  <2>1. k * MaxRows \in Nat
    BY <1>1
  <2> QED
    BY <1>1, <2>1, MinOfTwo
<1> HIDE DEF c, upto
<1>5. \A k \in 1..c : k - 1 \in Nat /\ (k - 1) * MaxRows \in Nat /\ (k - 1) * MaxRows < n
                      /\ upto(k) \in Nat /\ (k - 1) * MaxRows <= upto(k) /\ upto(k) <= n
  <2> SUFFICES ASSUME NEW k \in 1..c
               PROVE  k - 1 \in Nat /\ (k - 1) * MaxRows \in Nat /\ (k - 1) * MaxRows < n
                      /\ upto(k) \in Nat /\ (k - 1) * MaxRows <= upto(k) /\ upto(k) <= n
    OBVIOUS
  <2>1. k \in Nat /\ k - 1 \in Nat /\ k - 1 <= c - 1 /\ c - 1 \in Nat
    BY <1>3
  <2>2. (k - 1) * MaxRows <= (c - 1) * MaxRows
    BY <1>1, <2>1
  <2>3. k * MaxRows = (k - 1) * MaxRows + MaxRows
    BY <1>1, <2>1
  <2>4. (k - 1) * MaxRows \in Nat /\ k * MaxRows \in Nat /\ (c - 1) * MaxRows \in Nat
    BY <1>1, <2>1
  <2>5. (k - 1) * MaxRows < n
    BY <1>1, <1>3, <2>2, <2>4
  <2>6. upto(k) = IF k * MaxRows <= n THEN k * MaxRows ELSE n
    BY <1>4, <2>1
  <2> DEFINE a == (k - 1) * MaxRows
             b == k * MaxRows
  <2>7. a \in Nat /\ b \in Nat /\ a < n /\ b = a + MaxRows /\ upto(k) = IF b <= n THEN b ELSE n
    BY <2>3, <2>4, <2>5, <2>6
  <2>8. upto(k) \in Nat /\ a <= upto(k) /\ upto(k) <= n
    <3> HIDE DEF a, b
    <3> QED
      BY <1>1, <2>7
  <2> QED
    BY <2>1, <2>7, <2>8
<1>6. \A k \in 1..c : SubSeq(faces, (k - 1) * MaxRows + 1, upto(k)) \in Seq(S)
  BY <1>5, JoinedSubSeqs
<1>7. chunks \in Seq(Seq(S)) /\ Len(chunks) = c /\ chunks # << >>
      /\ \A k \in 1..c : chunks[k] = SubSeq(faces, (k - 1) * MaxRows + 1, upto(k))
  <2>1. chunks \in Seq(Seq(S))
    BY <1>3, <1>6, IsASeq
  <2>2. DOMAIN chunks = 1..c
    OBVIOUS
  <2>3. Len(chunks) = c
    BY <1>3, <2>1, <2>2, LenProperties
  <2> QED
    BY <1>3, <2>1, <2>3, EmptySeq
<1>8. PICK f : Flattens(f, chunks) /\ FlattenSeq(chunks) = f[c]
  <2> HIDE DEF chunks
  <2> QED
    BY <1>7, FlattenIsDefined
<1> DEFINE T == {k \in 1..c : f[k] # SubSeq(faces, 1, upto(k))}
<1>9. \A k \in 1..c : f[k] = IF k = 1 THEN chunks[k] ELSE f[k - 1] \o chunks[k]
  <2> HIDE DEF chunks
  <2> QED
    BY <1>7, <1>8 DEF Flattens
<1>10. T = {}
  <2> SUFFICES ASSUME T # {} PROVE FALSE
    OBVIOUS
  <2>1. PICK k \in T : \A j \in T : k <= j
    <3>1. T \in SUBSET Nat
      BY <1>3
    <3> HIDE DEF T
    <3> QED
      BY <3>1, MinIsLeast
  <2>2. k \in 1..c /\ f[k] # SubSeq(faces, 1, upto(k))
    BY <2>1
  <2>3. k # 1
    <3> SUFFICES ASSUME k = 1 PROVE FALSE
      OBVIOUS
    <3>1. (k - 1) * MaxRows + 1 = 1
      BY <1>1
    <3> QED
      BY <1>7, <1>9, <2>2, <3>1
  <2>4. k - 1 \in 1..c /\ k - 1 \notin T
    BY <1>3, <2>1, <2>2, <2>3
  <2>5. f[k - 1] = SubSeq(faces, 1, upto(k - 1))
    BY <2>4
  <2> HIDE DEF T, chunks
  <2>6. upto(k - 1) = (k - 1) * MaxRows
    BY <1>1, <1>4, <1>5, <2>2, <2>4
  <2>7. f[k] = SubSeq(faces, 1, (k - 1) * MaxRows) \o SubSeq(faces, (k - 1) * MaxRows + 1, upto(k))
    BY <1>7, <1>9, <2>2, <2>3, <2>5, <2>6
  <2> QED
    BY <1>5, <2>2, <2>7, JoinedSubSeqs
<1>11. f[c] = SubSeq(faces, 1, upto(c)) /\ upto(c) = n
  <2>1. c \in 1..c /\ c \in Nat
    BY <1>3
  <2>2. f[c] = SubSeq(faces, 1, upto(c))
    BY <1>10, <2>1
  <2>3. upto(c) = IF c * MaxRows <= n THEN c * MaxRows ELSE n
    BY <1>4, <2>1
  <2>4. c * MaxRows \in Nat
    BY <1>1, <2>1
  <2> DEFINE b == c * MaxRows
  <2>5. b \in Nat /\ n <= b /\ upto(c) = IF b <= n THEN b ELSE n
    BY <1>3, <2>3, <2>4
  <2>6. upto(c) = n
    <3> HIDE DEF b, n
    <3>1. b <= n => b = n
      BY <1>1, <2>5
    <3> QED
      BY <2>5, <3>1
  <2> QED
    BY <2>2, <2>6
<1>12. Rows(faces) = FlattenSeq(chunks)
  BY DEF Rows, c, upto
<1> QED
  BY <1>1, <1>8, <1>11, <1>12

\* A finite set of numbers and its list have the same elements.
LEMMA ListedInOrder ==
  ASSUME NEW n \in Nat, NEW ps \in SUBSET (1..n), NEW s \in InOrder(ps)
  PROVE  s \in Seq(ps) /\ ToSet(s) = ps
<1> DEFINE c == Cardinality(ps)
<1>1. IsFiniteSet(ps) /\ c \in Nat /\ Cardinality(1..c) = c
  <2>1. IsFiniteSet(ps)
    <3>1. IsFiniteSet(1..n)
      <4>1. 1 \in Int /\ n \in Int
        OBVIOUS
      <4> QED
        BY <4>1, FS_Interval
    <3> QED
      BY <3>1, FS_Subset
  <2>2. c \in Nat
    BY <2>1, FS_CardinalityType
  <2>3. Cardinality(1..c) = c
    <3> HIDE DEF c
    <3>1. 1 \in Int /\ c \in Int /\ c \in Nat
      BY <2>2
    <3> QED
      BY <3>1, FS_Interval
  <2> QED
    BY <2>1, <2>2, <2>3
<1>2. s \in [1..c -> ps] /\ \A i, j \in 1..c : i < j => s[i] < s[j]
  BY DEF InOrder
<1>3. s \in Injection(1..c, ps)
  <2>1. ASSUME NEW i \in 1..c, NEW j \in 1..c, s[i] = s[j]
        PROVE  i = j
    <3>0. 1..c \subseteq Nat
      BY <1>1
    <3> HIDE DEF c
    <3>1. s[i] \in Nat /\ s[j] \in Nat
      <4>1. i \in 1..c /\ j \in 1..c
        BY <2>1
      <4>2. s[i] \in ps /\ s[j] \in ps
        BY <1>2, <4>1
      <4>3. \A x \in ps : x \in Nat
        OBVIOUS
      <4> QED
        BY <4>2, <4>3
    <3>2. i < j => s[i] < s[j]
      BY <1>2
    <3>3. j < i => s[j] < s[i]
      BY <1>2
    <3>4. ~(i < j) /\ ~(j < i)
      BY <2>1, <3>1, <3>2, <3>3
    <3>5. i \in Nat /\ j \in Nat
      BY <3>0
    <3> QED
      BY <3>4, <3>5
  <2> HIDE DEF c
  <2> QED
    BY <1>2, <2>1 DEF Injection, IsInjective
<1>4. s \in Surjection(1..c, ps)
  <2> HIDE DEF c
  <2>1. Cardinality(1..c) = Cardinality(ps)
    BY <1>1 DEF c
  <2> QED
    BY <1>1, <1>3, <2>1, FS_Injection
<1>5. s \in Seq(ps) /\ DOMAIN s = 1..c
  BY <1>1, <1>2, IsASeq
<1> HIDE DEF c
<1> QED
  BY <1>2, <1>4, <1>5 DEF Surjection, ToSet

Faces == {o \in Objects : kind[o] = "face"}

\* What the stages know of each other's numberings.
PassInv ==
    /\ PassTypeOK
    /\ pass = "sorting" =>
          candidates = << >> /\ prepared = << >> /\ fakes = << >> /\ targets = {}
    /\ pass # "sorting" => ToSet(candidates) = Faces
    /\ pass \notin {"blurring", "done"} => canvas = Bare /\ succeeded = {}
    /\ pass = "forwarding" => prepared # << >>
    /\ pass = "pasting" => \A k \in DOMAIN prepared : fakes[k] = candidates[prepared[k]]
    /\ pass = "blurring" =>
          /\ \A o \in Objects : canvas[o] \in {Plain, IF kind[o] = "face" THEN Fake(o) ELSE Plain}
          /\ \A p \in succeeded : canvas[candidates[p]] = Fake(candidates[p])
    /\ EveryFaceIsCovered

LEMMA PassInitInv == PassInit => PassInv
<1> SUFFICES ASSUME PassInit PROVE PassInv
  OBVIOUS
<1>1. << >> \in Seq(Objects) /\ << >> \in Seq({})
  BY EmptySeq
<1>2. DOMAIN candidates = {}
  BY DEF PassInit
<1>3. PassTypeOK
  BY <1>1, <1>2 DEF PassInit, PassTypeOK, Positions, Bare, Plain, Blur
<1> QED
  BY <1>3 DEF PassInit, PassInv, EveryFaceIsCovered

LEMMA PassStepInv == PassInv /\ [PassNext]_passVars => PassInv'
<1> SUFFICES ASSUME PassInv, [PassNext]_passVars PROVE PassInv'
  OBVIOUS
<1> USE DEF PassInv
<1>t. PassTypeOK
  OBVIOUS
<1>p. Count \in Nat /\ Faces \in SUBSET (1..Count) /\ Faces \in SUBSET Objects
  BY SwapPassAssumption DEF Faces, Objects
<1>1. CASE Sorted
  <2>1. candidates' \in Seq(Faces) /\ ToSet(candidates') = Faces
    <3>1. candidates' \in InOrder(Faces)
      BY <1>1 DEF Sorted, Faces
    <3> QED
      BY <1>p, <3>1, ListedInOrder
  <2>2. candidates' \in Seq(Objects)
    BY <1>p, <2>1, SeqMonotonic
  <2>3. prepared' \in Seq(Positions') /\ fakes' \in Seq(Objects)
    BY <1>1, EmptySeq DEF Sorted
  <2>4. PassTypeOK'
    BY <1>1, <1>t, <2>2, <2>3 DEF Sorted, PassTypeOK
  <2> QED
    BY <1>1, <1>t, <2>1, <2>4 DEF Sorted, Faces, EveryFaceIsCovered, Bare, PassTypeOK
<1>2. CASE Aligned
  <2>1. PassTypeOK'
    BY <1>2, <1>t DEF Aligned, PassTypeOK, Positions
  <2> QED
    BY <1>2, <1>t, <2>1 DEF Aligned, Faces, EveryFaceIsCovered, Bare, PassTypeOK
<1>3. CASE Prepared
  <2>1. PICK good \in SUBSET targets : prepared' \in InOrder(good)
    BY <1>3 DEF Prepared
  <2>2. Len(candidates) \in Nat /\ Positions = 1..Len(candidates)
    BY <1>t, LenProperties DEF PassTypeOK, Positions
  <2>3. prepared' \in Seq(good)
    BY <1>t, <2>1, <2>2, ListedInOrder DEF PassTypeOK
  <2>4. prepared' \in Seq(Positions) /\ Positions' = Positions
    BY <1>3, <1>t, <2>3, SeqMonotonic DEF PassTypeOK, Prepared, Positions
  <2>5. PassTypeOK'
    BY <1>3, <1>t, <2>4 DEF Prepared, PassTypeOK
  <2> QED
    BY <1>3, <1>t, <2>5 DEF Prepared, Faces, EveryFaceIsCovered, Bare, PassTypeOK
<1>4. CASE Forwarded
  <2>2. Len(candidates) \in Nat /\ Positions = 1..Len(candidates)
    BY <1>t, LenProperties DEF PassTypeOK, Positions
  <2>3. ToSet(prepared) \subseteq Positions
    <3>1. \A k \in 1..Len(prepared) : prepared[k] \in Positions
      BY <1>t, ElementOfSeq DEF PassTypeOK
    <3>2. DOMAIN prepared = 1..Len(prepared)
      BY <1>t, LenProperties DEF PassTypeOK
    <3> QED
      BY <3>1, <3>2 DEF ToSet
  <2> DEFINE Of(rows) == [k \in DOMAIN rows |-> candidates[rows[k]]]
  <2>4. prepared' \in Seq(Positions) /\ fakes' = Of(prepared')
    <3>1. CASE prepared' = prepared /\ fakes' = Of(Rows(prepared))
      <4>1. Rows(prepared) = prepared
        BY <1>4, <1>t, RowsAreTheFaces DEF Forwarded, PassTypeOK
      <4> QED
        BY <1>t, <3>1, <4>1 DEF PassTypeOK
    <3>2. ASSUME NEW bad \in SUBSET ToSet(prepared),
                 prepared' \in InOrder(ToSet(prepared) \ bad), fakes' = Of(prepared')
          PROVE  prepared' \in Seq(Positions) /\ fakes' = Of(prepared')
      <4>1. prepared' \in Seq(ToSet(prepared) \ bad)
        BY <2>2, <2>3, <3>2, ListedInOrder
      <4> QED
        BY <2>3, <3>2, <4>1, SeqMonotonic
    <3> QED
      BY <1>4, <3>1, <3>2 DEF Forwarded
  <2>5. fakes' \in Seq(Objects)
    <3>1. Len(prepared') \in Nat /\ DOMAIN prepared' = 1..Len(prepared')
      BY <2>4, LenProperties
    <3>2. \A k \in 1..Len(prepared') : candidates[prepared'[k]] \in Objects
      <4>1. \A k \in 1..Len(prepared') : prepared'[k] \in Positions
        BY <2>4, ElementOfSeq
      <4>2. \A p \in Positions : candidates[p] \in Objects
        BY <1>t, <2>2, ElementOfSeq DEF PassTypeOK
      <4> QED
        BY <4>1, <4>2
    <3> QED
      BY <2>4, <3>1, <3>2, IsASeq
  <2>6. PassTypeOK'
    BY <1>4, <1>t, <2>4, <2>5 DEF Forwarded, PassTypeOK, Positions
  <2>7. pass' = "pasting" => \A k \in DOMAIN prepared' : fakes'[k] = candidates'[prepared'[k]]
    BY <1>4, <2>4 DEF Forwarded
  <2> HIDE DEF Of
  <2> QED
    BY <1>4, <1>t, <2>6, <2>7 DEF Forwarded, Faces, EveryFaceIsCovered, Bare
<1>5. CASE Pasted
  <2>1. PICK good \in SUBSET DOMAIN prepared :
          /\ succeeded' = {prepared[k] : k \in good}
          /\ canvas' = [o \in Objects |->
                IF \E k \in good : candidates[prepared[k]] = o
                THEN Fake(fakes[CHOOSE k \in good : candidates[prepared[k]] = o])
                ELSE canvas[o]]
    BY <1>5 DEF Pasted
  <2>2. \A k \in DOMAIN prepared :
          /\ prepared[k] \in Positions /\ candidates[prepared[k]] \in Faces
          /\ fakes[k] = candidates[prepared[k]]
    <3>1. \A k \in DOMAIN prepared : prepared[k] \in Positions
      BY <1>t, ElementOfSeq, LenProperties DEF PassTypeOK
    <3>2. \A p \in Positions : candidates[p] \in Faces
      BY <1>5 DEF Pasted, ToSet, Positions
    <3> QED
      BY <1>5, <3>1, <3>2 DEF Pasted
  <2>3. \A o \in Objects :
          /\ (\E k \in good : candidates[prepared[k]] = o) => o \in Faces /\ canvas'[o] = Fake(o)
          /\ ~(\E k \in good : candidates[prepared[k]] = o) => canvas'[o] = Plain
    <3> SUFFICES ASSUME NEW o \in Objects
                 PROVE  /\ (\E k \in good : candidates[prepared[k]] = o) => o \in Faces /\ canvas'[o] = Fake(o)
                        /\ ~(\E k \in good : candidates[prepared[k]] = o) => canvas'[o] = Plain
      OBVIOUS
    <3>1. ASSUME \E k \in good : candidates[prepared[k]] = o
          PROVE  o \in Faces /\ canvas'[o] = Fake(o)
      <4> DEFINE j == CHOOSE k \in good : candidates[prepared[k]] = o
      <4>1. j \in good /\ candidates[prepared[j]] = o
        BY <3>1
      <4>2. canvas'[o] = Fake(fakes[j])
        BY <2>1, <3>1
      <4> HIDE DEF j
      <4> QED
        BY <2>2, <4>1, <4>2
    <3>2. ~(\E k \in good : candidates[prepared[k]] = o) => canvas'[o] = Plain
      BY <1>5, <2>1 DEF Pasted, Bare
    <3> QED
      BY <3>1, <3>2
  <2>4. \A o \in Objects : canvas'[o] \in {Plain, IF kind'[o] = "face" THEN Fake(o) ELSE Plain}
    BY <1>5, <2>3 DEF Pasted, Faces
  <2>5. succeeded' \subseteq Positions /\ \A p \in succeeded' : canvas'[candidates[p]] = Fake(candidates[p])
    <3>1. \A k \in good : prepared[k] \in Positions /\ candidates[prepared[k]] \in Objects
      BY <1>p, <2>2
    <3>2. \A k \in good : canvas'[candidates[prepared[k]]] = Fake(candidates[prepared[k]])
      BY <2>3, <3>1
    <3>3. succeeded' = {prepared[k] : k \in good}
      BY <2>1
    <3> QED
      BY <3>1, <3>2, <3>3
  <2>6. canvas' \in [Objects -> {Plain, Blur} \cup {Fake(o) : o \in Objects}]
    <3>1. \A o \in Objects : canvas'[o] \in {Plain, Blur} \cup {Fake(x) : x \in Objects}
      BY <2>3
    <3> DEFINE Cover(o) == IF \E k \in good : candidates[prepared[k]] = o
                           THEN Fake(fakes[CHOOSE k \in good : candidates[prepared[k]] = o])
                           ELSE canvas[o]
    <3>2. canvas' = [o \in Objects |-> Cover(o)]
      BY <2>1
    <3> HIDE DEF Cover
    <3> QED
      BY <3>1, <3>2
  <2>7. PassTypeOK'
    BY <1>5, <1>t, <2>5, <2>6 DEF Pasted, PassTypeOK, Positions
  <2> QED
    BY <1>5, <2>4, <2>5, <2>7 DEF Pasted, Faces, EveryFaceIsCovered
<1>6. CASE SwapRaises
  <2>1. PassTypeOK'
    BY <1>6, <1>t DEF SwapRaises, PassTypeOK, Positions
  <2>2. \A o \in Objects : canvas'[o] \in {Plain, IF kind'[o] = "face" THEN Fake(o) ELSE Plain}
    BY <1>6 DEF SwapRaises, Bare
  <2> QED
    BY <1>6, <2>1, <2>2 DEF SwapRaises, Faces, EveryFaceIsCovered
<1>7. CASE Blurred
  <2> DEFINE left == {candidates[p] : p \in Positions \ succeeded}
             fallback == {o \in Objects : kind[o] \in {"plate", "small"}} \cup left
  <2>1. canvas' = [o \in Objects |-> IF o \in fallback THEN Blur ELSE canvas[o]]
    BY <1>7 DEF Blurred
  <2>2. left \subseteq Faces
    BY <1>7 DEF Blurred, ToSet, Positions
  <2>3. \A o \in Faces \ left : canvas[o] = Fake(o)
    BY <1>7 DEF Blurred, ToSet, Positions
  <2>4. EveryFaceIsCovered'
    <3> SUFFICES ASSUME NEW o \in Objects
                 PROVE  canvas'[o] \in (IF kind[o] = "approved" THEN {Plain} ELSE {Blur, Fake(o)})
      BY <1>7 DEF Blurred, EveryFaceIsCovered
    <3>1. kind[o] \in {"plate", "approved", "small", "face"}
      BY <1>t DEF PassTypeOK
    <3>2. canvas[o] \in {Plain, IF kind[o] = "face" THEN Fake(o) ELSE Plain}
      BY <1>7 DEF Blurred
    <3>3. canvas'[o] = IF o \in fallback THEN Blur ELSE canvas[o]
      BY <2>1
    <3>4. o \in left => kind[o] = "face"
      BY <2>2 DEF Faces
    <3>5. kind[o] = "face" => o \in Faces
      BY DEF Faces
    <3> QED
      BY <2>3, <3>1, <3>2, <3>3, <3>4, <3>5
  <2>5. PassTypeOK'
    BY <1>7, <1>t, <2>1 DEF Blurred, PassTypeOK, Positions
  <2> QED
    BY <1>7, <2>4, <2>5 DEF Blurred, Faces
<1>8. CASE UNCHANGED passVars
  BY <1>8 DEF passVars, PassTypeOK, Positions, Faces, EveryFaceIsCovered
<1> QED
  BY <1>1, <1>2, <1>3, <1>4, <1>5, <1>6, <1>7, <1>8 DEF PassNext

\* Whichever faces of a frame fail at whichever stage, everything but the
\* whitelisted is blurred or covered by the face made for it, for any number of
\* objects and any size of the generator's engine.
THEOREM EveryFaceIsCoveredHolds == PassSpec => []EveryFaceIsCovered
<1>1. PassInv => EveryFaceIsCovered
  BY DEF PassInv
<1> QED
  BY <1>1, PassInitInv, PassStepInv, PTL DEF PassSpec
=============================================================================
