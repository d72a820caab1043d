------------------------ MODULE UsnJournalQueueProofs ------------------------
(***************************************************************************)
(* Proofs about UsnJournalQueue for every capacity, every number of        *)
(* buffers and, unless a theorem says otherwise, any producers and         *)
(* consumers.                                                              *)
(***************************************************************************)
EXTENDS UsnJournalQueue, TLAPS

LEMMA InitTypeOK == Init => TypeOK
<1> SUFFICES ASSUME Init PROVE TypeOK
  OBVIOUS
<1>1. queue \in Seq(Buffers) /\ Len(queue) <= Capacity
  BY CapacityAssumption DEF Init
<1>2. thread \in [Threads -> {"running", "blocked", "woken", "refused"}]
  BY DEF Init
<1>3. pushed \in 0..MaxBuffers
  BY BuffersAssumption DEF Init
<1> QED BY <1>1, <1>2, <1>3 DEF Init, TypeOK

LEMMA NotifyOneType ==
  ASSUME TypeOK, NEW t \in Threads, NotifyOne(t)
  PROVE  thread' \in [Threads -> {"running", "blocked", "woken", "refused"}]
  BY DEF TypeOK, NotifyOne, Blocked

LEMMA PushLockedType ==
  ASSUME TypeOK, NEW p \in Producers, PushLocked(p)
  PROVE  TypeOK'
<1>0. p \in Threads BY DEF Threads
<1>1. CASE stop /\ thread' = [thread EXCEPT ![p] = "refused"] /\ UNCHANGED <<queue, stop, pushed>>
  BY <1>0, <1>1 DEF TypeOK
<1>2. CASE ~stop /\ Full /\ thread' = [thread EXCEPT ![p] = "blocked"] /\ UNCHANGED <<queue, stop, pushed>>
  BY <1>0, <1>2 DEF TypeOK
<1>3. CASE /\ ~stop /\ ~Full /\ pushed < MaxBuffers
           /\ queue' = Append(queue, pushed + 1) /\ pushed' = pushed + 1
           /\ NotifyOne(p) /\ UNCHANGED stop
  <2>1. pushed + 1 \in Buffers /\ pushed' \in 0..MaxBuffers
    BY <1>3, BuffersAssumption DEF TypeOK, Buffers
  <2>2. queue' \in Seq(Buffers) /\ Len(queue') <= Capacity
    BY <1>3, <2>1, CapacityAssumption DEF TypeOK, Full
  <2>3. thread' \in [Threads -> {"running", "blocked", "woken", "refused"}]
    BY <1>0, <1>3, NotifyOneType
  <2> QED BY <1>3, <2>1, <2>2, <2>3 DEF TypeOK
<1> QED BY <1>1, <1>2, <1>3 DEF PushLocked

LEMMA PopLockedType ==
  ASSUME TypeOK, NEW c \in Consumers, PopLocked(c)
  PROVE  TypeOK'
<1>0. c \in Threads BY DEF Threads
<1>1. CASE stop /\ thread' = [thread EXCEPT ![c] = "refused"] /\ UNCHANGED <<queue, stop, pushed>>
  BY <1>0, <1>1 DEF TypeOK
<1>2. CASE ~stop /\ queue = <<>> /\ thread' = [thread EXCEPT ![c] = "blocked"] /\ UNCHANGED <<queue, stop, pushed>>
  BY <1>0, <1>2 DEF TypeOK
<1>3. CASE ~stop /\ queue # <<>> /\ queue' = Tail(queue) /\ NotifyOne(c) /\ UNCHANGED <<stop, pushed>>
  <2>1. queue' \in Seq(Buffers) /\ Len(queue') <= Capacity
    BY <1>3, CapacityAssumption DEF TypeOK
  <2>2. thread' \in [Threads -> {"running", "blocked", "woken", "refused"}]
    BY <1>0, <1>3, NotifyOneType
  <2> QED BY <1>3, <2>1, <2>2 DEF TypeOK
<1> QED BY <1>1, <1>2, <1>3 DEF PopLocked

LEMMA NextTypeOK == TypeOK /\ [Next]_vars => TypeOK'
<1> SUFFICES ASSUME TypeOK, [Next]_vars PROVE TypeOK'
  OBVIOUS
<1>1. ASSUME NEW p \in Producers, Push(p) \/ PushAgain(p) PROVE TypeOK'
  BY <1>1, PushLockedType DEF Push, PushAgain
<1>2. ASSUME NEW c \in Consumers, Pop(c) \/ PopAgain(c) PROVE TypeOK'
  BY <1>2, PopLockedType DEF Pop, PopAgain
<1>3. ASSUME NEW t \in Threads, SpuriousWake(t) PROVE TypeOK'
  BY <1>3 DEF SpuriousWake, TypeOK
<1>4. CASE Stop
  <2>1. queue' \in Seq(Buffers) /\ Len(queue') <= Capacity
    BY <1>4, CapacityAssumption DEF Stop
  <2>2. thread' \in [Threads -> {"running", "blocked", "woken", "refused"}]
    BY <1>4 DEF Stop, NotifyAll, TypeOK
  <2> QED BY <1>4, <2>1, <2>2 DEF Stop, TypeOK
<1>5. CASE UNCHANGED vars
  BY <1>5 DEF vars, TypeOK
<1> QED BY <1>1, <1>2, <1>3, <1>4, <1>5 DEF Next

(* The queue never holds more than its capacity and every thread is in one  *)
(* of its places, for any producers and consumers.                          *)
THEOREM TypeCorrect == Spec => []TypeOK
  BY InitTypeOK, NextTypeOK, PTL DEF Spec

-----------------------------------------------------------------------------
LEMMA StopFreesAllStep == TypeOK /\ StopFreesAll /\ [Next]_vars => StopFreesAll'
<1> SUFFICES ASSUME TypeOK, StopFreesAll, [Next]_vars, stop' PROVE Blocked' = {}
  BY DEF StopFreesAll
<1>1. ASSUME NEW p \in Producers, PushLocked(p) PROVE Blocked' = {}
  <2>1. stop /\ thread' = [thread EXCEPT ![p] = "refused"]
    BY <1>1 DEF PushLocked
  <2> QED BY <2>1 DEF StopFreesAll, Blocked, TypeOK
<1>2. ASSUME NEW c \in Consumers, PopLocked(c) PROVE Blocked' = {}
  <2>1. stop /\ thread' = [thread EXCEPT ![c] = "refused"]
    BY <1>2 DEF PopLocked
  <2> QED BY <2>1 DEF StopFreesAll, Blocked, TypeOK
<1>3. ASSUME NEW t \in Threads, SpuriousWake(t) PROVE Blocked' = {}
  BY <1>3 DEF SpuriousWake, StopFreesAll, Blocked, TypeOK
<1>4. CASE Stop
  BY <1>4 DEF Stop, NotifyAll, Blocked
<1>5. CASE UNCHANGED vars
  BY <1>5 DEF vars, StopFreesAll, Blocked
<1> QED BY <1>1, <1>2, <1>3, <1>4, <1>5 DEF Next, Push, PushAgain, Pop, PopAgain

(* After Stop no thread is in wait(), for any producers and consumers: the  *)
(* joins of UsnMonitor::Stop do not hang in the queue.                      *)
THEOREM StopFrees == Spec => []StopFreesAll
<1>1. Init => StopFreesAll
  BY DEF Init, StopFreesAll
<1> QED BY <1>1, StopFreesAllStep, TypeCorrect, PTL DEF Spec

-----------------------------------------------------------------------------
(* A thread is turned away only once the queue is stopped.                  *)
RefusedOnlyAfterStop == \A t \in Threads : thread[t] = "refused" => stop

LEMMA RefusedStep ==
  ASSUME TypeOK, RefusedOnlyAfterStop, [Next]_vars
  PROVE  RefusedOnlyAfterStop'
<1>1. ASSUME NEW p \in Producers, PushLocked(p) PROVE RefusedOnlyAfterStop'
  BY <1>1 DEF PushLocked, NotifyOne, Blocked, RefusedOnlyAfterStop, TypeOK
<1>2. ASSUME NEW c \in Consumers, PopLocked(c) PROVE RefusedOnlyAfterStop'
  BY <1>2 DEF PopLocked, NotifyOne, Blocked, RefusedOnlyAfterStop, TypeOK
<1>3. ASSUME NEW t \in Threads, SpuriousWake(t) PROVE RefusedOnlyAfterStop'
  BY <1>3 DEF SpuriousWake, RefusedOnlyAfterStop, TypeOK
<1>4. CASE Stop
  BY <1>4 DEF Stop, RefusedOnlyAfterStop
<1>5. CASE UNCHANGED vars
  BY <1>5 DEF vars, RefusedOnlyAfterStop
<1> QED BY <1>1, <1>2, <1>3, <1>4, <1>5 DEF Next, Push, PushAgain, Pop, PopAgain

(* With several producers notify_one may wake one producer on behalf of     *)
(* another (the violation run); a single producer can only wake consumers.  *)
LEMMA WakeStep ==
  ASSUME NEW p, Producers = {p}, Consumers # {},
         TypeOK, RefusedOnlyAfterStop, WakeupNotLost, [Next]_vars
  PROVE  WakeupNotLost'
<1> DEFINE Coming == \E c \in Consumers : thread[c] \in {"running", "woken"}
<1>0. Threads = {p} \cup Consumers /\ p \notin Consumers
  BY ThreadsAssumption DEF Threads
<1> SUFFICES ASSUME ~stop', queue' # <<>> PROVE Coming'
  BY DEF WakeupNotLost
<1>1. CASE PushLocked(p)
  <2>1. CASE ~stop /\ Full /\ thread' = [thread EXCEPT ![p] = "blocked"] /\ UNCHANGED <<queue, stop, pushed>>
    <3>1. Coming BY <2>1 DEF WakeupNotLost
    <3> QED BY <1>0, <2>1, <3>1 DEF TypeOK
  <2>2. CASE ~stop /\ NotifyOne(p)
    <3>1. CASE Blocked \ {p} = {} /\ thread' = [thread EXCEPT ![p] = "running"]
      <4>1. PICK c \in Consumers : TRUE OBVIOUS
      <4>2. thread[c] \in {"running", "woken"}
        BY <1>0, <2>2, <3>1 DEF Blocked, TypeOK, RefusedOnlyAfterStop
      <4> QED BY <1>0, <3>1, <4>2 DEF TypeOK
    <3>2. CASE \E b \in Blocked \ {p} : thread' = [thread EXCEPT ![p] = "running", ![b] = "woken"]
      BY <1>0, <3>2 DEF Blocked, TypeOK
    <3> QED BY <2>2, <3>1, <3>2 DEF NotifyOne
  <2> QED BY <1>1, <2>1, <2>2 DEF PushLocked
<1>2. ASSUME NEW c \in Consumers, PopLocked(c) PROVE Coming'
  <2>1. c \in Threads /\ ~stop /\ queue # <<>> /\ NotifyOne(c)
    BY <1>0, <1>2 DEF PopLocked
  <2>2. thread'[c] = "running"
    BY <2>1 DEF NotifyOne, Blocked, TypeOK
  <2> QED BY <2>2
<1>3. ASSUME NEW t \in Threads, SpuriousWake(t) PROVE Coming'
  <2>1. Coming BY <1>3 DEF SpuriousWake, WakeupNotLost
  <2> QED BY <1>0, <1>3, <2>1 DEF SpuriousWake, TypeOK
<1>4. CASE Stop
  BY <1>4 DEF Stop
<1>5. CASE UNCHANGED vars
  BY <1>5 DEF vars, WakeupNotLost
<1> QED BY <1>1, <1>2, <1>3, <1>4, <1>5 DEF Next, Push, PushAgain, Pop, PopAgain

(* With one producer, which is how UsnMonitor uses the queue, no wake-up is *)
(* lost, whatever the capacity and however many consumers there are.        *)
THEOREM NoLostWakeup ==
  ASSUME NEW CONSTANT p, Producers = {p}, Consumers # {}
  PROVE  Spec => []WakeupNotLost
<1>1. Init => RefusedOnlyAfterStop /\ WakeupNotLost
  BY DEF Init, RefusedOnlyAfterStop, WakeupNotLost
<1>2. TypeOK /\ RefusedOnlyAfterStop /\ WakeupNotLost /\ [Next]_vars
        => RefusedOnlyAfterStop' /\ WakeupNotLost'
  BY RefusedStep, WakeStep
<1> QED BY <1>1, <1>2, TypeCorrect, PTL DEF Spec

-----------------------------------------------------------------------------
(* The safety half of the refinement, for any producers and consumers: each *)
(* step is a Put, a Take or the Close of a bounded channel, or a stutter.   *)
THEOREM ImplementsChannelSafety == Spec => Channel!Safety
<1>1. Init => Channel!Init
  BY DEF Init, Channel!Init
<1>2. TypeOK /\ [Next]_vars => [Channel!Next]_(Channel!cvars)
  <2> SUFFICES ASSUME TypeOK, [Next]_vars PROVE [Channel!Next]_(Channel!cvars)
    OBVIOUS
  <2>1. ASSUME NEW p \in Producers, PushLocked(p) PROVE [Channel!Next]_(Channel!cvars)
    <3>1. CASE UNCHANGED <<queue, stop>>
      BY <3>1 DEF Channel!cvars
    <3>2. CASE ~stop /\ ~Full /\ pushed < MaxBuffers /\ queue' = Append(queue, pushed + 1) /\ UNCHANGED stop
      <4>1. pushed + 1 \in Buffers
        BY <3>2, BuffersAssumption DEF TypeOK, Buffers
      <4>2. Len(queue) < Capacity
        BY <3>2, CapacityAssumption DEF TypeOK, Full
      <4> QED BY <3>2, <4>1, <4>2 DEF Channel!Next, Channel!Put
    <3> QED BY <2>1, <3>1, <3>2 DEF PushLocked
  <2>2. ASSUME NEW c \in Consumers, PopLocked(c) PROVE [Channel!Next]_(Channel!cvars)
    BY <2>2 DEF PopLocked, Channel!Next, Channel!Take, Channel!cvars
  <2>3. ASSUME NEW t \in Threads, SpuriousWake(t) PROVE [Channel!Next]_(Channel!cvars)
    BY <2>3 DEF SpuriousWake, Channel!cvars
  <2>4. CASE Stop
    BY <2>4 DEF Stop, Channel!Next, Channel!Close
  <2>5. CASE UNCHANGED vars
    BY <2>5 DEF vars, Channel!cvars
  <2> QED BY <2>1, <2>2, <2>3, <2>4, <2>5 DEF Next, Push, PushAgain, Pop, PopAgain
<1> QED BY <1>1, <1>2, TypeCorrect, PTL DEF Spec, Channel!Safety
=============================================================================
