--------------------------- MODULE UsnJournalQueue ---------------------------
(***************************************************************************)
(* The bounded queue between the USN reader and processor threads          *)
(* (src/src/usn/UsnJournalQueue.h): one mutex and one condition variable   *)
(* that producers and consumers share.                                     *)
(*                                                                         *)
(* What a thread does from taking the mutex to releasing it, or to waiting *)
(* on the condition variable, is one action.  A thread is "blocked" in     *)
(* wait() until it is notified, times out or wakes for no reason; then it  *)
(* is "woken" and has to take the mutex again to test its condition.  The  *)
(* atomic size_ only mirrors the length of the queue and is left out.      *)
(***************************************************************************)
EXTENDS Naturals, Sequences

CONSTANTS
    Producers, Consumers,   \* threads
    Capacity,               \* max_size_
    MaxBuffers              \* bound: buffers pushed

ASSUME ThreadsAssumption == Producers \cap Consumers = {}
ASSUME CapacityAssumption == Capacity \in Nat \ {0}
ASSUME BuffersAssumption == MaxBuffers \in Nat

VARIABLES
    queue,    \* queue_
    stop,     \* stop_
    thread,   \* where each thread stands
    pushed    \* buffers enqueued so far, which also numbers them

vars == <<queue, stop, thread, pushed>>

Threads == Producers \cup Consumers
Buffers == 1..MaxBuffers

TypeOK ==
    /\ queue \in Seq(Buffers) /\ Len(queue) <= Capacity
    /\ stop \in BOOLEAN
    /\ thread \in [Threads -> {"running", "blocked", "woken", "refused"}]
    /\ pushed \in 0..MaxBuffers

Init ==
    /\ queue = <<>>
    /\ stop = FALSE
    /\ thread = [t \in Threads |-> "running"]
    /\ pushed = 0

-----------------------------------------------------------------------------
Blocked == {t \in Threads : thread[t] = "blocked"}

NotifyNobody(t) == thread' = [thread EXCEPT ![t] = "running"]   \* mutant of NotifyOne

(* notify_one, called by t: any one of the threads blocked, whatever it     *)
(* waits for.                                                               *)
NotifyOne(t) ==
    \/ /\ Blocked \ {t} = {}
       /\ thread' = [thread EXCEPT ![t] = "running"]
    \/ \E b \in Blocked \ {t} :
          thread' = [thread EXCEPT ![t] = "running", ![b] = "woken"]

FullOneLate == Len(queue) > Capacity   \* mutant of Full

Full == Len(queue) >= Capacity

(* Push with the mutex held, at its start or after a wait.                  *)
PushLocked(p) ==
    \/ /\ stop
       /\ thread' = [thread EXCEPT ![p] = "refused"]
       /\ UNCHANGED <<queue, stop, pushed>>
    \/ /\ ~stop /\ Full
       /\ thread' = [thread EXCEPT ![p] = "blocked"]
       /\ UNCHANGED <<queue, stop, pushed>>
    \/ /\ ~stop /\ ~Full
       /\ pushed < MaxBuffers
       /\ queue' = Append(queue, pushed + 1)
       /\ pushed' = pushed + 1
       /\ NotifyOne(p)
       /\ UNCHANGED stop

Push(p) == thread[p] = "running" /\ PushLocked(p)

(* wait_for ends with a notification or after kQueuePushWaitMs.             *)
PushAgain(p) == thread[p] \in {"blocked", "woken"} /\ PushLocked(p)

(* Pop with the mutex held.                                                 *)
PopLocked(c) ==
    \/ /\ stop
       /\ thread' = [thread EXCEPT ![c] = "refused"]
       /\ UNCHANGED <<queue, stop, pushed>>
    \/ /\ ~stop /\ queue = <<>>
       /\ thread' = [thread EXCEPT ![c] = "blocked"]
       /\ UNCHANGED <<queue, stop, pushed>>
    \/ /\ ~stop /\ queue # <<>>
       /\ queue' = Tail(queue)
       /\ NotifyOne(c)
       /\ UNCHANGED <<stop, pushed>>

Pop(c) == thread[c] = "running" /\ PopLocked(c)

PopAgain(c) == thread[c] = "woken" /\ PopLocked(c)

NotifyNone == thread   \* mutant of NotifyAll

NotifyAll == [t \in Threads |-> IF t \in Blocked THEN "woken" ELSE thread[t]]

Stop ==
    /\ stop' = TRUE
    /\ queue' = <<>>            \* DiscardPendingLocked
    /\ thread' = NotifyAll
    /\ UNCHANGED pushed

SpuriousWake(t) ==
    /\ thread[t] = "blocked"
    /\ thread' = [thread EXCEPT ![t] = "woken"]
    /\ UNCHANGED <<queue, stop, pushed>>

Next ==
    \/ \E p \in Producers : Push(p) \/ PushAgain(p)
    \/ \E c \in Consumers : Pop(c) \/ PopAgain(c)
    \/ \E t \in Threads : SpuriousWake(t)
    \/ Stop

(* A waiting producer is back after at most 50 ms, a woken thread gets the  *)
(* mutex, and the processor thread calls Pop in a loop.  Nothing makes a    *)
(* producer call Push, wakes a thread for no reason or calls Stop.          *)
Fairness ==
    /\ \A p \in Producers : WF_vars(PushAgain(p))
    /\ \A c \in Consumers : WF_vars(Pop(c)) /\ WF_vars(PopAgain(c))

Spec == Init /\ [][Next]_vars /\ Fairness

-----------------------------------------------------------------------------
(* No wake-up is lost: while a buffer waits in an open queue some consumer  *)
(* is on its way to it, although notify_one may choose a producer.          *)
WakeupNotLost ==
    ~stop /\ queue # <<>> =>
        \E c \in Consumers : thread[c] \in {"running", "woken"}

(* Stop leaves nobody in wait(), whoever waits for what, and nobody starts  *)
(* to wait after it.                                                        *)
StopFreesAll == stop => Blocked = {}

(* Every buffer pushed is popped in the end, or discarded by Stop.          *)
EveryBufferPopped ==
    \A b \in Buffers : (\E i \in DOMAIN queue : queue[i] = b)
                            ~> ~ \E i \in DOMAIN queue : queue[i] = b

(* The queue behaves as a bounded channel: FIFO, within its capacity,       *)
(* nothing dropped while open, and it never stalls with a buffer in it.     *)
Channel == INSTANCE BoundedChannel WITH items <- queue, closed <- stop

ImplementsChannel == Channel!Spec
=============================================================================
