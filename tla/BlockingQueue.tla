---------------------------- MODULE BlockingQueue ----------------------------
(***************************************************************************)
(* Queue<T> of common/includes/queue.h, the multi-producer multi-consumer  *)
(* queue between the server's and the client's threads: one mutex and two  *)
(* condition variables.  A method runs under the mutex from its entry to   *)
(* its return or to a wait, so each such stretch is one action.  A thread  *)
(* inside push or pop sleeps in a wait set until a notify_all (or nothing  *)
(* at all: a spurious wakeup) removes it, and then tests its loop's        *)
(* condition again.  A call that throws changes nothing and is no action:  *)
(* push and try_push on a closed queue, close on a closed queue, pop and   *)
(* try_pop on a closed empty one.                                          *)
(***************************************************************************)
EXTENDS Naturals, Sequences

CONSTANTS
  Threads,   \* the threads that use the queue
  Values,    \* what they push
  NoValue,   \* the argument slot of a thread that is not pushing
  MaxSize    \* max_size

ASSUME QueueAssumption == MaxSize \in Nat \ {0} /\ NoValue \notin Values

VARIABLES
  q,             \* std::queue q, oldest first
  closed,        \* closed
  op,            \* op[t]: the blocking call t is inside, "none", "push" or "pop"
  arg,           \* arg[t]: the val of t's push
  waitNotFull,   \* threads asleep on is_not_full
  waitNotEmpty   \* threads asleep on is_not_empty

queue_vars == <<q, closed, op, arg, waitNotFull, waitNotEmpty>>

Full == Len(q) = MaxSize
Empty == q = <<>>

\* The mutant that wakes nobody.
EnqueueNoNotify(v) ==
  /\ q' = Append(q, v)
  /\ UNCHANGED waitNotEmpty

\* push and try_push once there is room: wake every popper if the queue was
\* empty, then append.
Enqueue(v) ==
  /\ waitNotEmpty' = IF Empty THEN {} ELSE waitNotEmpty
  /\ q' = Append(q, v)

\* The mutant that wakes nobody.
DequeueNoNotify ==
  /\ ~Empty
  /\ q' = Tail(q)
  /\ UNCHANGED waitNotFull

\* pop and try_pop once there is an element: wake every pusher if the queue
\* was full, then remove the oldest.
Dequeue ==
  /\ ~Empty
  /\ waitNotFull' = IF Full THEN {} ELSE waitNotFull
  /\ q' = Tail(q)

-----------------------------------------------------------------------------
QueueInit ==
  /\ q = <<>>
  /\ closed = FALSE
  /\ op = [t \in Threads |-> "none"]
  /\ arg = [t \in Threads |-> NoValue]
  /\ waitNotFull = {}
  /\ waitNotEmpty = {}

\* try_push, and a push that does not wait.
PushNow(t, v) ==
  /\ op[t] = "none" /\ ~closed /\ ~Full
  /\ Enqueue(v)
  /\ UNCHANGED <<closed, op, arg, waitNotFull>>

\* push on a full queue: closed is tested once, before the waiting loop.
PushWaits(t, v) ==
  /\ op[t] = "none" /\ ~closed /\ Full
  /\ op' = [op EXCEPT ![t] = "push"]
  /\ arg' = [arg EXCEPT ![t] = v]
  /\ waitNotFull' = waitNotFull \union {t}
  /\ UNCHANGED <<q, closed, waitNotEmpty>>

\* The mutant of a loop written as an `if`: a woken push does not look again.
PushResumesUnchecked(t) ==
  /\ op[t] = "push" /\ t \notin waitNotFull
  /\ Enqueue(arg[t])
  /\ op' = [op EXCEPT ![t] = "none"]
  /\ arg' = [arg EXCEPT ![t] = NoValue]
  /\ UNCHANGED <<closed, waitNotFull>>

\* A woken push: sleep again if the queue is full, else insert, closed or not.
PushResumes(t) ==
  /\ op[t] = "push" /\ t \notin waitNotFull
  /\ \/ /\ Full
        /\ waitNotFull' = waitNotFull \union {t}
        /\ UNCHANGED <<q, op, arg, waitNotEmpty>>
     \/ /\ ~Full
        /\ Enqueue(arg[t])
        /\ op' = [op EXCEPT ![t] = "none"]
        /\ arg' = [arg EXCEPT ![t] = NoValue]
        /\ UNCHANGED waitNotFull
  /\ UNCHANGED closed

\* try_pop, and a pop that does not wait; closed is not looked at.
PopNow(t) ==
  /\ op[t] = "none"
  /\ Dequeue
  /\ UNCHANGED <<closed, op, arg, waitNotEmpty>>

\* pop on an empty open queue.
PopWaits(t) ==
  /\ op[t] = "none" /\ Empty /\ ~closed
  /\ op' = [op EXCEPT ![t] = "pop"]
  /\ waitNotEmpty' = waitNotEmpty \union {t}
  /\ UNCHANGED <<q, closed, arg, waitNotFull>>

\* A woken pop: take the oldest element, throw ClosedQueue on a closed empty
\* queue, or sleep again.
PopResumes(t) ==
  /\ op[t] = "pop" /\ t \notin waitNotEmpty
  /\ \/ /\ Dequeue
        /\ op' = [op EXCEPT ![t] = "none"]
        /\ UNCHANGED waitNotEmpty
     \/ /\ Empty /\ closed
        /\ op' = [op EXCEPT ![t] = "none"]
        /\ UNCHANGED <<q, waitNotFull, waitNotEmpty>>
     \/ /\ Empty /\ ~closed
        /\ waitNotEmpty' = waitNotEmpty \union {t}
        /\ UNCHANGED <<q, op, waitNotFull>>
  /\ UNCHANGED <<closed, arg>>

CloseSilently ==
  /\ ~closed /\ closed' = TRUE
  /\ UNCHANGED <<q, op, arg, waitNotFull, waitNotEmpty>>

\* close wakes the poppers and only them.
Close ==
  /\ ~closed /\ closed' = TRUE
  /\ waitNotEmpty' = {}
  /\ UNCHANGED <<q, op, arg, waitNotFull>>

\* A condition variable may return from wait with no notification.
SpuriousWakeup(t) ==
  /\ t \in waitNotFull \union waitNotEmpty
  /\ waitNotFull' = waitNotFull \ {t}
  /\ waitNotEmpty' = waitNotEmpty \ {t}
  /\ UNCHANGED <<q, closed, op, arg>>

QueueNext ==
  \/ Close
  \/ \E t \in Threads :
       \/ \E v \in Values : PushNow(t, v) \/ PushWaits(t, v)
       \/ PushResumes(t)
       \/ PopNow(t) \/ PopWaits(t) \/ PopResumes(t)
       \/ SpuriousWakeup(t)

SafeSpec == QueueInit /\ [][QueueNext]_queue_vars

\* A woken thread gets the mutex back sooner or later.  Nothing is assumed of
\* the calls the threads choose to make, nor of spurious wakeups.
QueueFairness == \A t \in Threads : WF_queue_vars(PushResumes(t) \/ PopResumes(t))

QueueSpec == SafeSpec /\ QueueFairness

-----------------------------------------------------------------------------
\* The queue never outgrows max_size, and a wait set holds only threads that
\* are inside the call that waits on it.
TypeOK ==
  /\ q \in Seq(Values) /\ Len(q) <= MaxSize
  /\ closed \in BOOLEAN
  /\ op \in [Threads -> {"none", "push", "pop"}]
  /\ arg \in [Threads -> Values \union {NoValue}]
  /\ \A t \in Threads : op[t] = "push" <=> arg[t] # NoValue
  /\ waitNotFull \in SUBSET {t \in Threads : op[t] = "push"}
  /\ waitNotEmpty \in SUBSET {t \in Threads : op[t] = "pop"}

\* No lost wakeup of a consumer, although push notifies only when the queue
\* was empty: a thread sleeps on is_not_empty only while the queue is empty and
\* open.  close() therefore leaves nobody asleep in pop.
NoPopperSleepsInVain == waitNotEmpty # {} => Empty /\ ~closed

\* No lost wakeup of a producer, although pop notifies only when the queue was
\* full: a thread sleeps on is_not_full only while the queue is full.
NoPusherSleepsInVain == waitNotFull # {} => Full

\* No thread, of either kind, sleeps while what it waits for is there.
NobodySleepsInVain == NoPopperSleepsInVain /\ NoPusherSleepsInVain

\* The wait sets and the notify_all calls implement blocking calls: same
\* contents in the same order, and no call stays blocked while it could return.
Contract ==
  INSTANCE QueueContract WITH buffer <- q, shut <- closed, blocked <- op, item <- arg

ImplementsContract == Contract!Spec
=============================================================================
