---------------------------- MODULE QueueContract ----------------------------
(***************************************************************************)
(* What common/includes/queue.h promises its callers, with no condition    *)
(* variable in sight: a bounded FIFO buffer, at most one blocked call per  *)
(* thread, and a blocked call that completes as soon as the buffer allows  *)
(* it.  BlockingQueue implements this contract with two wait sets.         *)
(***************************************************************************)
EXTENDS Naturals, Sequences

CONSTANTS Threads, Values, NoValue, MaxSize

VARIABLES
  buffer,   \* the elements, oldest first
  shut,     \* close() has been called
  blocked,  \* blocked[t]: the call t is blocked in, "none", "push" or "pop"
  item      \* item[t]: what a blocked push is waiting to insert

cvars == <<buffer, shut, blocked, item>>

Init ==
  /\ buffer = <<>>
  /\ shut = FALSE
  /\ blocked = [t \in Threads |-> "none"]
  /\ item = [t \in Threads |-> NoValue]

Insert(v) == buffer' = Append(buffer, v)

\* A push that finds room, or a try_push.
Accept(t, v) ==
  /\ blocked[t] = "none" /\ ~shut /\ Len(buffer) < MaxSize
  /\ Insert(v)
  /\ UNCHANGED <<shut, blocked, item>>

\* A push on a full open queue: the call stays pending.
BlockPush(t, v) ==
  /\ blocked[t] = "none" /\ ~shut /\ Len(buffer) = MaxSize
  /\ blocked' = [blocked EXCEPT ![t] = "push"]
  /\ item' = [item EXCEPT ![t] = v]
  /\ UNCHANGED <<buffer, shut>>

\* A pop or try_pop that finds an element; closing does not drop elements.
Deliver(t) ==
  /\ blocked[t] = "none" /\ buffer # <<>>
  /\ buffer' = Tail(buffer)
  /\ UNCHANGED <<shut, blocked, item>>

\* A pop on an empty open queue: the call stays pending.
BlockPop(t) ==
  /\ blocked[t] = "none" /\ ~shut /\ buffer = <<>>
  /\ blocked' = [blocked EXCEPT ![t] = "pop"]
  /\ UNCHANGED <<buffer, shut, item>>

Close ==
  /\ ~shut /\ shut' = TRUE
  /\ UNCHANGED <<buffer, blocked, item>>

\* A pending push completes when there is room, even on a queue closed since.
FinishPush(t) ==
  /\ blocked[t] = "push" /\ Len(buffer) < MaxSize
  /\ Insert(item[t])
  /\ blocked' = [blocked EXCEPT ![t] = "none"]
  /\ item' = [item EXCEPT ![t] = NoValue]
  /\ UNCHANGED shut

\* A pending pop completes with the oldest element, or raises ClosedQueue
\* once the queue is both closed and empty.
FinishPop(t) ==
  /\ blocked[t] = "pop"
  /\ \/ buffer # <<>> /\ buffer' = Tail(buffer)
     \/ buffer = <<>> /\ shut /\ UNCHANGED buffer
  /\ blocked' = [blocked EXCEPT ![t] = "none"]
  /\ UNCHANGED <<shut, item>>

Next ==
  \/ Close
  \/ \E t \in Threads :
       \/ \E v \in Values : Accept(t, v) \/ BlockPush(t, v)
       \/ Deliver(t) \/ BlockPop(t)
       \/ FinishPush(t) \/ FinishPop(t)

SafeSpec == Init /\ [][Next]_cvars

\* A blocked call that can complete from some point on does complete.
Spec == SafeSpec /\ \A t \in Threads : WF_cvars(FinishPush(t) \/ FinishPop(t))
=============================================================================
