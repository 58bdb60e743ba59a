---------------------------- MODULE PriorityLane ----------------------------
(***************************************************************************)
(* class PriorityLane of service/runtime.py: the lock that serializes every *)
(* model inference, with live callers ahead of VOD callers.                 *)
(*                                                                          *)
(* The callers are asyncio tasks on one event loop, so a step is the code   *)
(* between two suspension points.  acquire() suspends at one place, on a    *)
(* future that release() resolves; a task resumes in a later step than the  *)
(* one that resolved or cancelled its future, and anything may happen in    *)
(* between.  Task.cancel() on a task whose future is still pending cancels  *)
(* the future; on a task whose future is already resolved it is remembered  *)
(* and thrown into the coroutine when it resumes (asyncio's _must_cancel).  *)
(***************************************************************************)
EXTENDS Naturals, Sequences, SequencesExt

CONSTANTS Live,   \* tasks that call acquire(live=True)
          Vod     \* tasks that call acquire(live=False)

ASSUME CallersAssumption == Live \cap Vod = {}

VARIABLES
    held,          \* _held
    liveWaiters,   \* _live_waiters: a future is named by the task awaiting it
    vodWaiters,    \* _vod_waiters
    waiter,        \* waiter[t]: state of the future t awaits in acquire()
    pc,            \* pc[t]: outside, suspended in acquire(), or in the lane
    mustCancel     \* mustCancel[t]: a cancellation not delivered yet

laneVars == <<held, liveWaiters, vodWaiters, waiter, pc, mustCancel>>

Callers == Live \cup Vod
FutureStates == {"none", "pending", "granted", "cancelled"}

\* Who owns the lane: a task inside it, or one release() has granted it to.
Owners == {t \in Callers : pc[t] = "in" \/ waiter[t] = "granted"}

LaneInit ==
    /\ held = FALSE
    /\ liveWaiters = <<>>
    /\ vodWaiters = <<>>
    /\ waiter = [t \in Callers |-> "none"]
    /\ pc = [t \in Callers |-> "out"]
    /\ mustCancel = [t \in Callers |-> FALSE]

\* any(not waiter.cancelled() for waiter in queue)
AliveAt(queue) == {i \in 1..Len(queue) : waiter[queue[i]] # "cancelled"}
SomeAlive(queue) == AliveAt(queue) # {}

Blocked(t) ==
    \/ SomeAlive(liveWaiters)
    \/ t \in Vod /\ SomeAlive(vodWaiters)

\* acquire() on a free lane: no suspension, the caller goes straight in.
AcquireNow(t) ==
    /\ pc[t] = "out"
    /\ ~held
    /\ ~Blocked(t)
    /\ held' = TRUE
    /\ pc' = [pc EXCEPT ![t] = "in"]
    /\ UNCHANGED <<liveWaiters, vodWaiters, waiter, mustCancel>>

\* acquire() otherwise: a new future joins the queue and the task suspends.
AcquireWait(t) ==
    /\ pc[t] = "out"
    /\ held \/ Blocked(t)
    /\ waiter' = [waiter EXCEPT ![t] = "pending"]
    /\ pc' = [pc EXCEPT ![t] = "waiting"]
    /\ IF t \in Live
         THEN liveWaiters' = Append(liveWaiters, t) /\ UNCHANGED vodWaiters
         ELSE vodWaiters' = Append(vodWaiters, t) /\ UNCHANGED liveWaiters
    /\ UNCHANGED <<held, mustCancel>>

\* Task.cancel() while the task is suspended in acquire().
CancelWaiter(t) ==
    /\ pc[t] = "waiting"
    /\ \/ /\ waiter[t] = "pending"
          /\ waiter' = [waiter EXCEPT ![t] = "cancelled"]
          /\ UNCHANGED mustCancel
       \/ /\ waiter[t] = "granted"
          /\ mustCancel' = [mustCancel EXCEPT ![t] = TRUE]
          /\ UNCHANGED waiter
    /\ UNCHANGED <<held, liveWaiters, vodWaiters, pc>>

\* Mutant of FirstAlive: the youngest future instead of the oldest.
LastAlive(queue) == queue[Max(AliveAt(queue))]

\* The future _next_waiter() returns from a queue that has one alive.
FirstAlive(queue) == queue[Min(AliveAt(queue))]

\* _next_waiter() drops the cancelled futures at the head of a queue; the
\* future it returns stays at the head until its task resumes.
DropCancelled(queue) ==
    IF SomeAlive(queue)
      THEN SubSeq(queue, Min(AliveAt(queue)), Len(queue))
      ELSE <<>>

\* The body of release(), on queues lq and vq, when "from" gives up the
\* lane: the first live future, failing that the first VOD future, is
\* resolved and the lane stays held; with neither, the lane is free.
HandOn(from, lq, vq) ==
    LET cleared == [waiter EXCEPT ![from] = "none"]
    IN  /\ held
        /\ liveWaiters' = DropCancelled(lq)
        /\ \/ /\ SomeAlive(lq)
              /\ waiter' = [cleared EXCEPT ![FirstAlive(lq)] = "granted"]
              /\ vodWaiters' = vq
              /\ UNCHANGED held
           \/ /\ ~SomeAlive(lq)
              /\ SomeAlive(vq)
              /\ waiter' = [cleared EXCEPT ![FirstAlive(vq)] = "granted"]
              /\ vodWaiters' = DropCancelled(vq)
              /\ UNCHANGED held
           \/ /\ ~SomeAlive(lq)
              /\ ~SomeAlive(vq)
              /\ waiter' = cleared
              /\ vodWaiters' = <<>>
              /\ held' = FALSE

\* release() by the task in the lane.
Release(t) ==
    /\ pc[t] = "in"
    /\ HandOn(t, liveWaiters, vodWaiters)
    /\ pc' = [pc EXCEPT ![t] = "out"]
    /\ UNCHANGED mustCancel

\* The future was resolved and no cancellation is due: the task is in.
WakeGranted(t) ==
    /\ pc[t] = "waiting"
    /\ waiter[t] = "granted"
    /\ ~mustCancel[t]
    /\ liveWaiters' = RemoveFirst(liveWaiters, t)
    /\ vodWaiters' = RemoveFirst(vodWaiters, t)
    /\ waiter' = [waiter EXCEPT ![t] = "none"]
    /\ pc' = [pc EXCEPT ![t] = "in"]
    /\ UNCHANGED <<held, mustCancel>>

\* The future was cancelled: the task leaves the queue.
WakeCancelled(t) ==
    /\ pc[t] = "waiting"
    /\ waiter[t] = "cancelled"
    /\ liveWaiters' = RemoveFirst(liveWaiters, t)
    /\ vodWaiters' = RemoveFirst(vodWaiters, t)
    /\ waiter' = [waiter EXCEPT ![t] = "none"]
    /\ pc' = [pc EXCEPT ![t] = "out"]
    /\ UNCHANGED <<held, mustCancel>>

\* Mutant of WakeRevoked: the cancelled task keeps the lane it was granted.
WakeAndForget(t) ==
    /\ pc[t] = "waiting"
    /\ waiter[t] = "granted"
    /\ mustCancel[t]
    /\ liveWaiters' = RemoveFirst(liveWaiters, t)
    /\ vodWaiters' = RemoveFirst(vodWaiters, t)
    /\ waiter' = [waiter EXCEPT ![t] = "none"]
    /\ pc' = [pc EXCEPT ![t] = "out"]
    /\ mustCancel' = [mustCancel EXCEPT ![t] = FALSE]
    /\ UNCHANGED held

\* Granted and cancelled before resuming: the task hands the lane on.
WakeRevoked(t) ==
    /\ pc[t] = "waiting"
    /\ waiter[t] = "granted"
    /\ mustCancel[t]
    /\ HandOn(t, RemoveFirst(liveWaiters, t), RemoveFirst(vodWaiters, t))
    /\ pc' = [pc EXCEPT ![t] = "out"]
    /\ mustCancel' = [mustCancel EXCEPT ![t] = FALSE]

Wake(t) == WakeGranted(t) \/ WakeCancelled(t) \/ WakeRevoked(t)

LaneNext ==
    \E t \in Callers :
        \/ AcquireNow(t)
        \/ AcquireWait(t)
        \/ CancelWaiter(t)
        \/ Release(t)
        \/ Wake(t)

LaneSpec == LaneInit /\ [][LaneNext]_laneVars

\* The event loop runs every ready callback, and a task in the lane leaves
\* it: infer() and self_check() release in a finally block.
LaneFairness ==
    /\ \A t \in Callers : WF_laneVars(Wake(t))
    /\ \A t \in Callers : WF_laneVars(Release(t))

FairLaneSpec == LaneSpec /\ LaneFairness

-----------------------------------------------------------------------------
(* Properties *)

LaneTypeOK ==
    /\ held \in BOOLEAN
    /\ liveWaiters \in Seq(Live)
    /\ vodWaiters \in Seq(Vod)
    /\ waiter \in [Callers -> FutureStates]
    /\ pc \in [Callers -> {"out", "waiting", "in"}]
    /\ mustCancel \in [Callers -> BOOLEAN]

\* At most one task owns the lane, counting the one release() has already
\* granted it to: no two frames share the model, and no later caller slips
\* in between the grant and the wake-up of the granted task.
SingleOwner == \A s, t \in Owners : s = t

\* _held says exactly whether somebody owns the lane.  A cancellation that
\* arrives after the grant must not leave the lane held by nobody (every
\* later frame would wait for ever) nor free while somebody is inside.
HeldIffOwned == held <=> Owners # {}

\* No lost wake-up: whenever a future is pending, somebody owns the lane
\* and will resolve it (acquire() suspends only behind an owner, and
\* release() frees the lane only when nobody waits).
WaitersHaveAnOwner ==
    (\E t \in Callers : waiter[t] = "pending") => Owners # {}

\* The parts that make the properties above inductive.  A task awaits a
\* future exactly while it is suspended, and only a granted future can have
\* an undelivered cancellation.
SuspendedOnAFuture ==
    \A t \in Callers :
        /\ pc[t] = "waiting" <=> waiter[t] # "none"
        /\ mustCancel[t] => waiter[t] = "granted"

\* A queue holds suspended tasks only, each once; RemoveFirst then removes
\* the task for good, and release() can never resolve a future twice.
QueueOfWaiters(queue) ==
    /\ \A t \in ToSet(queue) : waiter[t] # "none"
    /\ IsInjective(queue)

\* A pending future is in the queue of its class, where release() finds it.
PendingIsQueued ==
    /\ \A t \in Live : waiter[t] = "pending" => t \in ToSet(liveWaiters)
    /\ \A t \in Vod : waiter[t] = "pending" => t \in ToSet(vodWaiters)

\* The inductive invariant: all of the above hold together, after every
\* order of arrivals, grants, cancellations and wake-ups.
LaneInv ==
    /\ LaneTypeOK
    /\ SuspendedOnAFuture
    /\ QueueOfWaiters(liveWaiters)
    /\ QueueOfWaiters(vodWaiters)
    /\ PendingIsQueued
    /\ SingleOwner
    /\ HeldIffOwned
    /\ WaitersHaveAnOwner

\* The contract's view of the state: in line are the tasks whose future is
\* pending, in the order of the queues.
Pending == {t \in Callers : waiter[t] = "pending"}
Earlier(s, t, queue) ==
    \E i, j \in DOMAIN queue : i < j /\ queue[i] = s /\ queue[j] = t
Ahead(t) ==
    {s \in Pending : Earlier(s, t, liveWaiters) \/ Earlier(s, t, vodWaiters)}

Contract == INSTANCE LaneContract WITH
    owner <- Owners,
    line <- Pending,
    ahead <- [t \in Callers |-> IF t \in Pending THEN Ahead(t) ELSE {}]

\* The lane implements LaneContract: one owner, live before VOD, first come
\* first served within a class, whatever is cancelled and whenever.
ImplementsContract == Contract!Spec

\* A live caller in the queue is granted the lane or is cancelled: live
\* callers are served in order and every owner leaves.  Nothing of the kind
\* is promised to VOD callers, which live callers may overtake for ever.
LiveCallersAreServed ==
    \A t \in Live : waiter[t] = "pending" ~> waiter[t] # "pending"
=============================================================================
