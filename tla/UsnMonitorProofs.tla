-------------------------- MODULE UsnMonitorProofs --------------------------
(* The safety of UsnMonitor for every size of the journal and the queue,    *)
(* every error limit and number of starts, with threads that throw or not,  *)
(* and also when Start is called on a monitor that has not been stopped;    *)
(* then that of the session that runs it.                                   *)
EXTENDS UsnIndexBuild, TLAPS

-----------------------------------------------------------------------------
(* Invariants.                                                              *)

(* Where the reader works on an open volume, where it ends, and where a     *)
(* Stop is past its first step.                                             *)
AtWork   == {"query", "signal", "begin", "populate", "verify", "drain", "recompute",
             "fail", "loop", "reading", "push"}
Winding  == {"exit", "cleanup", "done", "fail_close", "fail_stop"}
Stopping == {"close", "stop_queue", "join", "reset"}

(* The types, but for the number of open handles.                           *)
PlaceTypes ==
    /\ owner \in {"idle", "joining", "waiting", "stop", "close", "stop_queue", "join", "reset"}
    /\ reader \in {"none", "open", "init_fail"} \cup AtWork \cup Winding
    /\ processor \in {"none", "pop", "apply", "done"}
    /\ promise \in {"unset", "ok", "failed"}

FlagTypes ==
    /\ restarting \in BOOLEAN /\ active \in BOOLEAN /\ populating \in BOOLEAN
    /\ failed \in BOOLEAN /\ compromised \in BOOLEAN
    /\ handle \in BOOLEAN /\ taken \in BOOLEAN /\ enricher \in BOOLEAN
    /\ has_queue \in BOOLEAN /\ stopped \in BOOLEAN

(* Apart from FlagTypes for the provers.                                    *)
HistoryTypes == dropped \in BOOLEAN /\ threw \in BOOLEAN

NumberTypes ==
    /\ journal \in [last : 0..MaxRecords, lowest : 1..MaxRecords + 1, id : {1, 2}]
    /\ cursor \in [id : {1, 2}, next : 1..MaxRecords + 1]
    /\ starts \in 0..MaxStarts
    /\ target \in 1..MaxRecords + 1
    /\ errors \in 0..MaxErrors

BufferTypes ==
    /\ items \in Seq(Buffers)
    /\ holding \in Buffers \cup {NoBuffer}
    /\ applying \in Buffers \cup {NoBuffer}
    /\ processor = "apply" => applying # NoBuffer
    /\ reader = "push" => holding # NoBuffer
    /\ applied \in 0..MaxRecords

(* Apart from BufferTypes for the provers.                                  *)
QueueBound == Len(items) <= QueueSize

(* Every open handle is either the member or in the hands of a Stop, and    *)
(* the reader opens one only when there is none.                            *)
Handles ==
    /\ open = (IF handle \/ taken THEN 1 ELSE 0)
    /\ ~(handle /\ taken)
    /\ taken => owner = "close"
    /\ reader \in {"none", "open", "fail_stop", "done"} => ~handle
    /\ reader = "open" => ~taken

(* Who may be where: threads exist between StartThreads and the join.       *)
Threads ==
    /\ reader = "none" <=> processor = "none"
    /\ owner = "reset" => reader = "none"
    /\ owner = "waiting" => reader # "none"
    /\ reader # "none" => has_queue
    /\ owner = "joining" => ~active
    /\ owner \in Stopping => ~active
    /\ reader = "none" => ~active /\ ~enricher

(* Monitoring is active only with a handle and an open queue, and until the *)
(* reader leaves.                                                           *)
Active ==
    /\ active /\ reader \in AtWork => handle
    /\ stopped => ~active
    /\ reader \in Winding => ~active
    /\ processor = "done" => stopped \/ threw

Population ==
    populating => reader \in {"populate", "verify", "drain", "recompute"} \/ threw

(* Why the reader is winding up while nobody stops the monitor, and what a  *)
(* buffer dropped has left.                                                 *)
Reasons ==
    /\ reader \in {"open", "query", "signal"} => promise = "unset"
    /\ reader = "init_fail" => failed \/ promise = "unset"
    /\ owner = "idle" /\ reader # "none" => promise = "ok"
    /\ owner \in {"idle", "waiting"} /\ reader # "none" /\ ~active =>
          compromised \/ failed \/ threw \/ promise = "failed"
    /\ dropped => compromised

(* The buffers of a sequence follow each other from after one record to     *)
(* before another.                                                          *)
Linked(from, s, to) ==
    /\ Len(s) = 0 => to = from + 1
    /\ Len(s) # 0 => s[1][1] = from + 1 /\ to = s[Len(s)][2] + 1
    /\ \A i \in 1..Len(s) - 1 : s[i + 1][1] = s[i][2] + 1

(* Only the live loop and the processor hold buffers, and the loop begins   *)
(* where population and drain have brought the index.                       *)
Stream ==
    /\ holding # NoBuffer => reader = "push"
    /\ applying # NoBuffer => processor = "apply"
    /\ reader \in {"open", "init_fail"} \cup (AtWork \ {"loop", "reading", "push"}) =>
          items = <<>> /\ processor # "apply"
    /\ reader \in {"verify", "drain", "recompute"} => cursor.next = applied + 1

(* NothingSkipped without sequences of ends: the buffer applied follows     *)
(* what is applied, the queue links it to the buffer held or the cursor.    *)
Following == reader \in {"loop", "reading", "push"} /\ ~stopped /\ processor # "done"
Before == IF applying = NoBuffer THEN applied ELSE applying[2]
After  == IF holding = NoBuffer THEN cursor.next ELSE holding[1]

Chain ==
    Following =>
        /\ applying # NoBuffer => applying[1] = applied + 1
        /\ holding # NoBuffer => cursor.next = holding[2] + 1
        /\ Linked(Before, items, After)

(* Everything about handles, threads and flags.                             *)
Control == Handles /\ Threads /\ Active /\ Population /\ Reasons

IInv ==
    /\ PlaceTypes /\ FlagTypes /\ HistoryTypes /\ NumberTypes /\ BufferTypes /\ QueueBound
    /\ Control /\ Stream /\ Chain

(* Where the threads stand and what the reader has promised.                *)
LEMMA PlacesKept == PlaceTypes /\ [Next]_vars => PlaceTypes'
<1> SUFFICES ASSUME PlaceTypes, [Next]_vars PROVE PlaceTypes'
  OBVIOUS
<1> USE DEF PlaceTypes, AtWork, Winding, threads, flags, handles, channel, stream, others,
    notProcessor
<1>1. CASE WriteRecord \/ TrimJournal \/ RecreateJournal
  BY <1>1 DEF WriteRecord, TrimJournal, RecreateJournal
<1>2. CASE Start \/ InitResult \/ Stop
  BY <1>2 DEF Start, InitResult, Stop
<1>3. CASE StartThreads
  BY <1>3 DEF StartThreads, Ended
<1>4. CASE StopLocked \/ CloseTaken \/ StopQueue
  BY <1>4 DEF StopLocked, CloseTaken, StopQueue, Queue!Close
<1>5. CASE JoinThreads \/ ResetQueue
  BY <1>5 DEF JoinThreads, Ended, ResetQueue
<1>6. CASE OpenVolume
  BY <1>6 DEF OpenVolume, Goes, MutexFree
<1>7. CASE QueryJournal \/ SignalInitResult
  BY <1>7 DEF QueryJournal, Goes, SignalInitResult, Signal
<1>8. CASE BeginPopulation \/ SetPopulationFailed
  BY <1>8 DEF BeginPopulation, Goes, SetPopulationFailed
<1>9. CASE PopulateInitialIndex
  BY <1>9 DEF PopulateInitialIndex, PopulationFails
<1>10. CASE VerifyJournal
  BY <1>10 DEF VerifyJournal, PopulationFails, Readable
<1>11. CASE DrainReplayJournalEvents \/ FinishPopulation
  BY <1>11 DEF DrainReplayJournalEvents, DrainEnd, CorruptTail, ReadRecords, Readable,
      FinishPopulation, PopulationFails
<1>12. CASE HandleInitializationFailure
  BY <1>12 DEF HandleInitializationFailure, Goes, Signal, CloseMember, MutexFree,
      Queue!Close
<1>13. CASE TestActive \/ ReadNothing
  BY <1>13 DEF TestActive, ReadNothing, Goes
<1>14. CASE JournalLost
  BY <1>14 DEF JournalLost, Goes, Latch
<1>15. CASE ReadData
  BY <1>15 DEF ReadData, Goes, ReadRecords, Readable
<1>16. CASE ReadError
  BY <1>16 DEF ReadError, Goes, Latch
<1>17. CASE PushBuffer
  BY <1>17 DEF PushBuffer, Goes, Queue!Put
<1>18. CASE ReaderThrows \/ ReaderExit
  BY <1>18 DEF ReaderThrows, ReaderExit, Goes, CloseMember, MutexFree, Queue!Close
<1>19. CASE PopBuffer
  BY <1>19 DEF PopBuffer, Queue!Take
<1>20. CASE ProcessOneBuffer
  BY <1>20 DEF ProcessOneBuffer, CorruptTail
<1>21. CASE ProcessorThrows
  BY <1>21 DEF ProcessorThrows
<1>22. CASE UNCHANGED vars
  BY <1>22 DEF vars
<1> QED BY <1>1, <1>2, <1>3, <1>4, <1>5, <1>6, <1>7, <1>8, <1>9, <1>10, <1>11, <1>12, <1>13,
    <1>14, <1>15, <1>16, <1>17, <1>18, <1>19, <1>20, <1>21, <1>22 DEF Next, OwnerStep,
    ReaderStep, ProcessorStep

(* Flags are flags.                                                         *)
LEMMA FlagsKept == FlagTypes /\ [Next]_vars => FlagTypes'
<1> SUFFICES ASSUME FlagTypes, [Next]_vars PROVE FlagTypes'
  OBVIOUS
<1> USE DEF FlagTypes, threads, flags, handles, channel, stream, others, notProcessor
<1>1. CASE WriteRecord \/ TrimJournal \/ RecreateJournal
  BY <1>1 DEF WriteRecord, TrimJournal, RecreateJournal
<1>2. CASE Start \/ InitResult \/ Stop
  BY <1>2 DEF Start, InitResult, Stop
<1>3. CASE StartThreads
  BY <1>3 DEF StartThreads, Ended
<1>4. CASE StopLocked \/ CloseTaken \/ StopQueue
  BY <1>4 DEF StopLocked, CloseTaken, StopQueue, Queue!Close
<1>5. CASE JoinThreads \/ ResetQueue
  BY <1>5 DEF JoinThreads, Ended, ResetQueue
<1>6. CASE OpenVolume
  BY <1>6 DEF OpenVolume, Goes, MutexFree
<1>7. CASE QueryJournal \/ SignalInitResult
  BY <1>7 DEF QueryJournal, Goes, SignalInitResult, Signal
<1>8. CASE BeginPopulation \/ SetPopulationFailed
  BY <1>8 DEF BeginPopulation, Goes, SetPopulationFailed
<1>9. CASE PopulateInitialIndex
  BY <1>9 DEF PopulateInitialIndex, PopulationFails
<1>10. CASE VerifyJournal
  BY <1>10 DEF VerifyJournal, PopulationFails, Readable
<1>11. CASE DrainReplayJournalEvents \/ FinishPopulation
  <2>1. CASE DrainReplayJournalEvents
    BY <2>1 DEF DrainReplayJournalEvents, DrainEnd, CorruptTail, ReadRecords, Readable
  <2>2. CASE FinishPopulation
    BY <2>2 DEF FinishPopulation, PopulationFails
  <2> QED BY <1>11, <2>1, <2>2
<1>12. CASE HandleInitializationFailure
  BY <1>12 DEF HandleInitializationFailure, Goes, Signal, CloseMember, MutexFree,
      Queue!Close
<1>13. CASE TestActive \/ ReadNothing
  BY <1>13 DEF TestActive, ReadNothing, Goes
<1>14. CASE JournalLost
  BY <1>14 DEF JournalLost, Goes, Latch
<1>15. CASE ReadData
  BY <1>15 DEF ReadData, Goes, ReadRecords, Readable
<1>16. CASE ReadError
  BY <1>16 DEF ReadError, Goes, Latch
<1>17. CASE PushBuffer
  BY <1>17 DEF PushBuffer, Goes, Queue!Put
<1>18. CASE ReaderThrows \/ ReaderExit
  BY <1>18 DEF ReaderThrows, ReaderExit, Goes, CloseMember, MutexFree, Queue!Close
<1>19. CASE PopBuffer
  BY <1>19 DEF PopBuffer, Queue!Take
<1>20. CASE ProcessOneBuffer
  BY <1>20 DEF ProcessOneBuffer, CorruptTail
<1>21. CASE ProcessorThrows
  BY <1>21 DEF ProcessorThrows
<1>22. CASE UNCHANGED vars
  BY <1>22 DEF vars
<1> QED BY <1>1, <1>2, <1>3, <1>4, <1>5, <1>6, <1>7, <1>8, <1>9, <1>10, <1>11, <1>12, <1>13,
    <1>14, <1>15, <1>16, <1>17, <1>18, <1>19, <1>20, <1>21, <1>22 DEF Next, OwnerStep,
    ReaderStep, ProcessorStep

(* So are the two of the history, which buffers and exceptions set.         *)
LEMMA HistoryKept == HistoryTypes /\ [Next]_vars => HistoryTypes'
<1> SUFFICES ASSUME HistoryTypes, [Next]_vars PROVE HistoryTypes'
  OBVIOUS
<1> USE DEF HistoryTypes, stream, others
<1>1. CASE WriteRecord \/ TrimJournal \/ RecreateJournal \/ Start \/ Stop
  BY <1>1 DEF WriteRecord, TrimJournal, RecreateJournal, Start, Stop
<1>2. CASE OwnerStep
  BY <1>2 DEF OwnerStep, StartThreads, InitResult, StopLocked, CloseTaken, StopQueue,
              JoinThreads, ResetQueue
<1>3. CASE OpenVolume \/ QueryJournal \/ SignalInitResult \/ BeginPopulation
           \/ PopulateInitialIndex \/ VerifyJournal
  BY <1>3 DEF OpenVolume, QueryJournal, SignalInitResult, BeginPopulation,
              PopulateInitialIndex, VerifyJournal
<1>4. CASE DrainReplayJournalEvents
  BY <1>4 DEF DrainReplayJournalEvents, CorruptTail
<1>5. CASE FinishPopulation \/ SetPopulationFailed \/ HandleInitializationFailure
           \/ TestActive \/ ReadData \/ ReadNothing \/ JournalLost \/ ReadError
           \/ PushBuffer \/ ReaderExit
  BY <1>5 DEF FinishPopulation, SetPopulationFailed, HandleInitializationFailure, TestActive,
              ReadData, ReadNothing, JournalLost, ReadError, PushBuffer, ReaderExit
<1>6. CASE ReaderThrows
  BY <1>6 DEF ReaderThrows
<1>7. CASE ProcessorStep
  BY <1>7 DEF ProcessorStep, PopBuffer, ProcessOneBuffer, CorruptTail, ProcessorThrows
<1>8. CASE UNCHANGED vars
  BY <1>8 DEF vars
<1> QED BY <1>1, <1>2, <1>3, <1>4, <1>5, <1>6, <1>7, <1>8 DEF Next, ReaderStep

(* Record numbers, starts and errors stay in their ranges.                  *)
LEMMA NumbersKept == NumberTypes /\ [Next]_vars => NumberTypes'
<1> SUFFICES ASSUME NumberTypes, [Next]_vars PROVE NumberTypes'
  OBVIOUS
<1> USE QueueAssumption, ErrorsAssumption, BoundsAssumption DEF NumberTypes, Records,
    threads, flags, handles, channel, stream, others, notProcessor
<1>1. CASE WriteRecord \/ TrimJournal \/ RecreateJournal
  BY <1>1 DEF WriteRecord, TrimJournal, RecreateJournal
<1>2. CASE Start \/ InitResult \/ Stop
  BY <1>2 DEF Start, InitResult, Stop
<1>3. CASE StartThreads
  BY <1>3 DEF StartThreads, Ended
<1>4. CASE StopLocked \/ CloseTaken \/ StopQueue
  BY <1>4 DEF StopLocked, CloseTaken, StopQueue, Queue!Close
<1>5. CASE JoinThreads \/ ResetQueue
  BY <1>5 DEF JoinThreads, Ended, ResetQueue
<1>6. CASE OpenVolume
  BY <1>6 DEF OpenVolume, Goes, MutexFree
<1>7. CASE QueryJournal \/ SignalInitResult
  BY <1>7 DEF QueryJournal, Goes, SignalInitResult, Signal
<1>8. CASE BeginPopulation \/ SetPopulationFailed
  BY <1>8 DEF BeginPopulation, Goes, SetPopulationFailed
<1>9. CASE PopulateInitialIndex
  BY <1>9 DEF PopulateInitialIndex, PopulationFails
<1>10. CASE VerifyJournal
  BY <1>10 DEF VerifyJournal, PopulationFails, Readable
<1>11. CASE DrainReplayJournalEvents \/ FinishPopulation
  BY <1>11 DEF DrainReplayJournalEvents, DrainEnd, CorruptTail, ReadRecords, Readable,
      FinishPopulation, PopulationFails
<1>12. CASE HandleInitializationFailure
  BY <1>12 DEF HandleInitializationFailure, Goes, Signal, CloseMember, MutexFree,
      Queue!Close
<1>13. CASE TestActive \/ ReadNothing
  BY <1>13 DEF TestActive, ReadNothing, Goes
<1>14. CASE JournalLost
  BY <1>14 DEF JournalLost, Goes, Latch
<1>15. CASE ReadData
  BY <1>15 DEF ReadData, Goes, ReadRecords, Readable
<1>16. CASE ReadError
  BY <1>16 DEF ReadError, Goes, Latch
<1>17. CASE PushBuffer
  BY <1>17 DEF PushBuffer, Goes, Queue!Put
<1>18. CASE ReaderThrows \/ ReaderExit
  BY <1>18 DEF ReaderThrows, ReaderExit, Goes, CloseMember, MutexFree, Queue!Close
<1>19. CASE PopBuffer
  BY <1>19 DEF PopBuffer, Queue!Take
<1>20. CASE ProcessOneBuffer
  BY <1>20 DEF ProcessOneBuffer, CorruptTail
<1>21. CASE ProcessorThrows
  BY <1>21 DEF ProcessorThrows
<1>22. CASE UNCHANGED vars
  BY <1>22 DEF vars
<1> QED BY <1>1, <1>2, <1>3, <1>4, <1>5, <1>6, <1>7, <1>8, <1>9, <1>10, <1>11, <1>12, <1>13,
    <1>14, <1>15, <1>16, <1>17, <1>18, <1>19, <1>20, <1>21, <1>22 DEF Next, OwnerStep,
    ReaderStep, ProcessorStep

(* What a buffer is, and that an empty record of one is not.                *)
LEMMA BufferShape ==
    /\ <<>> \in Seq(Buffers) /\ Len(<<>>) = 0
    /\ \A b \in Buffers : /\ b # NoBuffer
                          /\ b[1] \in Records /\ b[2] \in Records
                          /\ b[1] <= b[2]
    /\ \A x, y \in Records : x <= y =>
          <<x, y>> \in Buffers /\ <<x, y>>[1] = x /\ <<x, y>>[2] = y
BY DEF Buffers, NoBuffer

LEMMA EmptyQueue == Len(<<>>) = 0
OBVIOUS

(* Lengths and members of sequences of buffers.                             *)
LEMMA LengthsChange ==
    \A s \in Seq(Buffers) : /\ Len(s) \in Nat
                            /\ \A b \in Buffers \cup {NoBuffer} : Len(Append(s, b)) = Len(s) + 1
                            /\ s # <<>> => Len(Tail(s)) = Len(s) - 1
OBVIOUS

LEMMA SequenceFacts ==
    \A s \in Seq(Buffers) : /\ \A b \in Buffers : Append(s, b) \in Seq(Buffers)
                            /\ s # <<>> => Head(s) \in Buffers /\ Tail(s) \in Seq(Buffers)
OBVIOUS

(* A buffer that begins where the chain ends can be appended,               *)
LEMMA LinkedAppend ==
    ASSUME NEW s \in Seq(Buffers), NEW b \in Buffers, NEW from \in Nat,
           Linked(from, s, b[1])
    PROVE  Linked(from, Append(s, b), b[2] + 1)
<1> DEFINE n == Len(s)
           t == Append(s, b)
<1>1. n \in Nat /\ Len(t) = n + 1 /\ t[n + 1] = b /\ \A i \in 1..n : t[i] = s[i]
  OBVIOUS
<1>2. t[1][1] = from + 1
  <2>1. CASE n = 0
    <3>1. t[1] = b
      BY <1>1, <2>1
    <3> QED BY <2>1, <3>1 DEF Linked
  <2>2. CASE n # 0
    <3>1. t[1] = s[1]
      BY <1>1, <2>2
    <3> QED BY <2>2, <3>1 DEF Linked
  <2> QED BY <2>1, <2>2
<1>3. ASSUME NEW i \in 1..n PROVE t[i + 1][1] = t[i][2] + 1
  <2>1. CASE i < n
    <3>1. i \in 1..n - 1 /\ i + 1 \in 1..n
      BY <1>1, <2>1
    <3>2. t[i + 1] = s[i + 1] /\ t[i] = s[i]
      BY <1>1, <3>1
    <3> QED BY <3>1, <3>2 DEF Linked
  <2>2. CASE i = n
    <3>1. t[i + 1] = b /\ t[i] = s[n] /\ n # 0
      BY <1>1, <2>2
    <3> QED BY <3>1 DEF Linked
  <2> QED BY <1>1, <2>1, <2>2
<1> HIDE DEF n, t
<1>4. Len(t) - 1 = n /\ Len(t) # 0 /\ t[Len(t)] = b
  BY <1>1
<1> QED BY <1>2, <1>3, <1>4 DEF Linked, t

(* and the oldest can be taken from it.                                     *)
LEMMA LinkedTail ==
    ASSUME NEW s \in Seq(Buffers), s # <<>>, NEW from \in Nat, NEW to,
           Linked(from, s, to)
    PROVE  Head(s) \in Buffers /\ Head(s)[1] = from + 1 /\ Linked(Head(s)[2], Tail(s), to)
<1> DEFINE n == Len(s)
           t == Tail(s)
<1>1. /\ n \in Nat /\ n >= 1 /\ Head(s) = s[1] /\ s[1] \in Buffers
      /\ t \in Seq(Buffers) /\ Len(t) = n - 1 /\ \A i \in 1..n - 1 : t[i] = s[i + 1]
  OBVIOUS
<1>2. Len(t) = 0 => to = s[1][2] + 1
  <2> SUFFICES ASSUME Len(t) = 0 PROVE to = s[1][2] + 1
    OBVIOUS
  <2>1. Len(s) = 1
    BY <1>1
  <2> QED BY <2>1 DEF Linked
<1>3. Len(t) # 0 => t[1][1] = s[1][2] + 1 /\ to = t[Len(t)][2] + 1
  <2> SUFFICES ASSUME Len(t) # 0 PROVE t[1][1] = s[1][2] + 1 /\ to = t[Len(t)][2] + 1
    OBVIOUS
  <2>1. t[1] = s[2] /\ t[Len(t)] = s[Len(s)] /\ 1 \in 1..Len(s) - 1
    BY <1>1
  <2>2. s[1 + 1][1] = s[1][2] + 1 /\ to = s[Len(s)][2] + 1
    BY <1>1, <2>1 DEF Linked
  <2> QED BY <2>1, <2>2
<1>4. ASSUME NEW i \in 1..Len(t) - 1 PROVE t[i + 1][1] = t[i][2] + 1
  <2>1. t[i + 1] = s[(i + 1) + 1] /\ t[i] = s[i + 1] /\ i + 1 \in 1..Len(s) - 1
    BY <1>1
  <2> QED BY <2>1 DEF Linked
<1> HIDE DEF n, t
<1>5. s[1][1] = from + 1
  BY <1>1 DEF Linked, n
<1> QED BY <1>1, <1>2, <1>3, <1>4, <1>5 DEF Linked, t

(* The queue never holds more than its capacity.                            *)
LEMMA QueueBoundKept == BufferTypes /\ QueueBound /\ [Next]_vars => QueueBound'
<1> SUFFICES ASSUME BufferTypes /\ QueueBound, [Next]_vars PROVE QueueBound'
  OBVIOUS
<1> USE QueueAssumption DEF BufferTypes, QueueBound, threads, flags, handles, channel,
    stream, others, notProcessor
<1>1. CASE WriteRecord \/ TrimJournal \/ RecreateJournal
  BY <1>1 DEF WriteRecord, TrimJournal, RecreateJournal
<1>2. CASE Start \/ InitResult \/ Stop
  BY <1>2 DEF Start, InitResult, Stop
<1>3. CASE StartThreads
  BY <1>3, EmptyQueue DEF StartThreads, Ended
<1>4. CASE StopLocked \/ CloseTaken \/ StopQueue
  BY <1>4, EmptyQueue DEF StopLocked, CloseTaken, StopQueue, Queue!Close
<1>5. CASE JoinThreads \/ ResetQueue
  BY <1>5 DEF JoinThreads, Ended, ResetQueue
<1>6. CASE OpenVolume
  BY <1>6 DEF OpenVolume, Goes, MutexFree
<1>7. CASE QueryJournal \/ SignalInitResult
  BY <1>7 DEF QueryJournal, Goes, SignalInitResult, Signal
<1>8. CASE BeginPopulation \/ SetPopulationFailed
  BY <1>8 DEF BeginPopulation, Goes, SetPopulationFailed
<1>9. CASE PopulateInitialIndex
  BY <1>9 DEF PopulateInitialIndex, PopulationFails
<1>10. CASE VerifyJournal
  BY <1>10 DEF VerifyJournal, PopulationFails, Readable
<1>11. CASE DrainReplayJournalEvents \/ FinishPopulation
  BY <1>11 DEF DrainReplayJournalEvents, DrainEnd, CorruptTail, ReadRecords, Readable,
      FinishPopulation, PopulationFails
<1>12. CASE HandleInitializationFailure
  BY <1>12, EmptyQueue DEF HandleInitializationFailure, Goes, Signal, CloseMember,
      MutexFree, Queue!Close
<1>13. CASE TestActive \/ ReadNothing
  BY <1>13 DEF TestActive, ReadNothing, Goes
<1>14. CASE JournalLost
  BY <1>14 DEF JournalLost, Goes, Latch
<1>15. CASE ReadData
  BY <1>15 DEF ReadData, Goes, ReadRecords, Readable
<1>16. CASE ReadError
  BY <1>16 DEF ReadError, Goes, Latch
<1>17. CASE PushBuffer
  BY <1>17, LengthsChange DEF PushBuffer, Goes, Queue!Put
<1>18. CASE ReaderThrows \/ ReaderExit
  BY <1>18, EmptyQueue DEF ReaderThrows, ReaderExit, Goes, CloseMember, MutexFree,
      Queue!Close
<1>19. CASE PopBuffer
  BY <1>19, LengthsChange DEF PopBuffer, Queue!Take
<1>20. CASE ProcessOneBuffer
  BY <1>20 DEF ProcessOneBuffer, CorruptTail
<1>21. CASE ProcessorThrows
  BY <1>21 DEF ProcessorThrows
<1>22. CASE UNCHANGED vars
  BY <1>22 DEF vars
<1> QED BY <1>1, <1>2, <1>3, <1>4, <1>5, <1>6, <1>7, <1>8, <1>9, <1>10, <1>11, <1>12, <1>13,
    <1>14, <1>15, <1>16, <1>17, <1>18, <1>19, <1>20, <1>21, <1>22 DEF Next, OwnerStep,
    ReaderStep, ProcessorStep

(* Buffers are runs of records; a thread that uses one has one.             *)
LEMMA BuffersKept == NumberTypes /\ BufferTypes /\ [Next]_vars => BufferTypes'
<1> SUFFICES ASSUME NumberTypes /\ BufferTypes, [Next]_vars PROVE BufferTypes'
  OBVIOUS
<1> USE QueueAssumption, ErrorsAssumption, BoundsAssumption DEF NumberTypes, BufferTypes,
    threads, flags, handles, channel, stream, others, notProcessor
<1>1. CASE WriteRecord \/ TrimJournal \/ RecreateJournal
  BY <1>1 DEF WriteRecord, TrimJournal, RecreateJournal
<1>2. CASE Start \/ InitResult \/ Stop
  BY <1>2 DEF Start, InitResult, Stop
<1>3. CASE StartThreads
  BY <1>3, BufferShape DEF StartThreads, Ended
<1>4. CASE StopLocked \/ CloseTaken \/ StopQueue
  BY <1>4, BufferShape DEF StopLocked, CloseTaken, StopQueue, Queue!Close
<1>5. CASE JoinThreads \/ ResetQueue
  BY <1>5 DEF JoinThreads, Ended, ResetQueue
<1>6. CASE OpenVolume
  BY <1>6 DEF OpenVolume, Goes, MutexFree
<1>7. CASE QueryJournal \/ SignalInitResult
  BY <1>7 DEF QueryJournal, Goes, SignalInitResult, Signal
<1>8. CASE BeginPopulation \/ SetPopulationFailed
  BY <1>8 DEF BeginPopulation, Goes, SetPopulationFailed
<1>9. CASE PopulateInitialIndex
  BY <1>9, BufferShape DEF PopulateInitialIndex, PopulationFails
<1>10. CASE VerifyJournal
  BY <1>10 DEF VerifyJournal, PopulationFails, Readable
<1>11. CASE DrainReplayJournalEvents \/ FinishPopulation
  BY <1>11, BufferShape DEF DrainReplayJournalEvents, DrainEnd, CorruptTail, ReadRecords, Readable,
      FinishPopulation, PopulationFails
<1>12. CASE HandleInitializationFailure
  BY <1>12, BufferShape DEF HandleInitializationFailure, Goes, Signal, CloseMember,
      MutexFree, Queue!Close
<1>13. CASE TestActive \/ ReadNothing
  BY <1>13 DEF TestActive, ReadNothing, Goes
<1>14. CASE JournalLost
  BY <1>14 DEF JournalLost, Goes, Latch
<1>15. CASE ReadData
  <2>1. PICK last \in Records : /\ last \in cursor.next..journal.last
                                /\ holding' = <<cursor.next, last>>
    BY <1>15 DEF ReadData, ReadRecords
  <2>2. cursor.next \in Records /\ cursor.next <= last
    BY <2>1, BoundsAssumption DEF NumberTypes, Records
  <2>3. holding' \in Buffers /\ holding' # NoBuffer
    BY <2>1, <2>2, BufferShape
  <2>4. UNCHANGED <<items, applying, processor, applied>>
    BY <1>15 DEF ReadData, others, channel
  <2> QED BY <2>3, <2>4 DEF BufferTypes
<1>16. CASE ReadError
  BY <1>16 DEF ReadError, Goes, Latch
<1>17. CASE PushBuffer
  <2>1. /\ UNCHANGED <<applying, processor, applied>>
        /\ holding' = NoBuffer /\ reader = "push" /\ reader' # "push"
    BY <1>17 DEF PushBuffer, Goes, others
  <2>2. items' = items \/ items' = Append(items, holding)
    BY <1>17 DEF PushBuffer, Queue!Put
  <2>3. items' \in Seq(Buffers)
    BY <2>1, <2>2, SequenceFacts DEF BufferTypes
  <2> QED BY <2>1, <2>3 DEF BufferTypes
<1>18. CASE ReaderThrows \/ ReaderExit
  BY <1>18, BufferShape DEF ReaderThrows, ReaderExit, Goes, CloseMember, MutexFree,
      Queue!Close
<1>19. CASE PopBuffer
  <2>1. UNCHANGED <<reader, holding, applied>>
    BY <1>19 DEF PopBuffer, notProcessor
  <2>2. CASE Queue!Take /\ processor' = "apply" /\ applying' = Head(items)
    <3>1. applying' \in Buffers /\ applying' # NoBuffer /\ items' \in Seq(Buffers)
      BY <2>2, SequenceFacts, BufferShape DEF Queue!Take, BufferTypes
    <3> QED BY <2>1, <3>1 DEF BufferTypes
  <2>3. CASE processor' = "done" /\ UNCHANGED <<items, applying>>
    BY <2>1, <2>3 DEF BufferTypes
  <2> QED BY <2>2, <2>3, <1>19 DEF PopBuffer
<1>20. CASE ProcessOneBuffer
  <2>1. /\ UNCHANGED <<reader, holding, items>>
        /\ processor' = "pop" /\ applying' = NoBuffer /\ applied' = applying[2]
        /\ processor = "apply"
    BY <1>20 DEF ProcessOneBuffer, notProcessor
  <2>2. applied' \in 0..MaxRecords
    BY <2>1, BufferShape, BoundsAssumption DEF BufferTypes, Records
  <2> QED BY <2>1, <2>2 DEF BufferTypes
<1>21. CASE ProcessorThrows
  BY <1>21, BufferShape DEF ProcessorThrows
<1>22. CASE UNCHANGED vars
  BY <1>22 DEF vars
<1> QED BY <1>1, <1>2, <1>3, <1>4, <1>5, <1>6, <1>7, <1>8, <1>9, <1>10, <1>11, <1>12, <1>13,
    <1>14, <1>15, <1>16, <1>17, <1>18, <1>19, <1>20, <1>21, <1>22 DEF Next, OwnerStep,
    ReaderStep, ProcessorStep

(* Handles, threads, flags and the reasons for an end fit together.         *)
LEMMA ControlStep == PlaceTypes /\ FlagTypes /\ HistoryTypes /\ Control /\ [Next]_vars => Control'
<1> SUFFICES ASSUME PlaceTypes /\ FlagTypes /\ HistoryTypes /\ Control, [Next]_vars PROVE Control'
  OBVIOUS
<1> USE DEF PlaceTypes, FlagTypes, HistoryTypes, Control, Handles, Threads, Active, Population,
    Reasons, AtWork, Winding, Stopping, threads, flags, handles, channel, stream, others,
    notProcessor
<1>1. CASE WriteRecord
  BY <1>1 DEF WriteRecord
<1>2. CASE TrimJournal
  BY <1>2 DEF TrimJournal
<1>3. CASE RecreateJournal
  BY <1>3 DEF RecreateJournal
<1>4. CASE Start
  BY <1>4 DEF Start
<1>5. CASE StartThreads
  BY <1>5 DEF StartThreads, Ended
<1>6. CASE InitResult
  BY <1>6 DEF InitResult
<1>7. CASE Stop
  BY <1>7 DEF Stop
<1>8. CASE StopLocked
  BY <1>8 DEF StopLocked
<1>9. CASE CloseTaken
  BY <1>9 DEF CloseTaken
<1>10. CASE StopQueue
  BY <1>10 DEF StopQueue, Queue!Close
<1>11. CASE JoinThreads
  BY <1>11 DEF JoinThreads, Ended
<1>12. CASE ResetQueue
  BY <1>12 DEF ResetQueue
<1>13. CASE OpenVolume
  BY <1>13 DEF OpenVolume, Goes, MutexFree
<1>14. CASE QueryJournal
  BY <1>14 DEF QueryJournal, Goes
<1>15. CASE SignalInitResult
  BY <1>15 DEF SignalInitResult, Goes, Signal
<1>16. CASE BeginPopulation
  BY <1>16 DEF BeginPopulation, Goes
<1>17. CASE PopulateInitialIndex
  BY <1>17 DEF PopulateInitialIndex, PopulationFails
<1>18. CASE VerifyJournal
  BY <1>18 DEF VerifyJournal, PopulationFails, Readable
<1>19. CASE DrainReplayJournalEvents
  BY <1>19 DEF DrainReplayJournalEvents, DrainEnd, CorruptTail, ReadRecords, Readable
<1>20. CASE FinishPopulation
  BY <1>20 DEF FinishPopulation, PopulationFails
<1>21. CASE SetPopulationFailed
  BY <1>21 DEF SetPopulationFailed, Goes
<1>22. CASE HandleInitializationFailure
  BY <1>22 DEF HandleInitializationFailure, Goes, Signal, CloseMember, MutexFree,
      Queue!Close
<1>23. CASE TestActive
  BY <1>23 DEF TestActive
<1>24. CASE ReadData
  BY <1>24 DEF ReadData, Goes, ReadRecords, Readable
<1>25. CASE ReadNothing
  BY <1>25 DEF ReadNothing, Goes
<1>26. CASE JournalLost
  BY <1>26 DEF JournalLost, Goes, Latch
<1>27. CASE ReadError
  BY <1>27 DEF ReadError, Goes, Latch
<1>28. CASE PushBuffer
  BY <1>28 DEF PushBuffer, Goes, Queue!Put
<1>29. CASE ReaderThrows
  BY <1>29 DEF ReaderThrows
<1>30. CASE ReaderExit
  BY <1>30 DEF ReaderExit, Goes, CloseMember, MutexFree, Queue!Close
<1>31. CASE PopBuffer
  BY <1>31 DEF PopBuffer, Queue!Take
<1>32. CASE ProcessOneBuffer
  BY <1>32 DEF ProcessOneBuffer, CorruptTail
<1>33. CASE ProcessorThrows
  BY <1>33 DEF ProcessorThrows
<1>34. CASE UNCHANGED vars
  BY <1>34 DEF vars
<1> QED BY <1>1, <1>2, <1>3, <1>4, <1>5, <1>6, <1>7, <1>8, <1>9, <1>10, <1>11, <1>12, <1>13,
    <1>14, <1>15, <1>16, <1>17, <1>18, <1>19, <1>20, <1>21, <1>22, <1>23, <1>24, <1>25,
    <1>26, <1>27, <1>28, <1>29, <1>30, <1>31, <1>32, <1>33, <1>34 DEF Next, OwnerStep,
    ReaderStep, ProcessorStep

(* Nothing is under way before the live loop, and population and drain go   *)
(* on from what the index has.                                              *)
LEMMA StreamStep == NumberTypes /\ BufferTypes /\ Stream /\ [Next]_vars => Stream'
<1> SUFFICES ASSUME NumberTypes /\ BufferTypes /\ Stream, [Next]_vars PROVE Stream'
  OBVIOUS
<1> USE DEF NumberTypes, BufferTypes, Stream, AtWork, threads, flags, handles, channel,
    stream, others, notProcessor
<1>1. CASE WriteRecord \/ TrimJournal \/ RecreateJournal
  BY <1>1 DEF WriteRecord, TrimJournal, RecreateJournal
<1>2. CASE Start \/ InitResult \/ Stop
  BY <1>2 DEF Start, InitResult, Stop
<1>3. CASE StartThreads
  BY <1>3 DEF StartThreads, Ended
<1>4. CASE StopLocked \/ CloseTaken \/ StopQueue
  BY <1>4 DEF StopLocked, CloseTaken, StopQueue, Queue!Close
<1>5. CASE JoinThreads \/ ResetQueue
  BY <1>5 DEF JoinThreads, Ended, ResetQueue
<1>6. CASE OpenVolume
  BY <1>6 DEF OpenVolume, Goes, MutexFree
<1>7. CASE QueryJournal \/ SignalInitResult
  BY <1>7 DEF QueryJournal, Goes, SignalInitResult, Signal
<1>8. CASE BeginPopulation \/ SetPopulationFailed
  BY <1>8 DEF BeginPopulation, Goes, SetPopulationFailed
<1>9. CASE PopulateInitialIndex
  BY <1>9 DEF PopulateInitialIndex, PopulationFails
<1>10. CASE VerifyJournal
  BY <1>10 DEF VerifyJournal, PopulationFails, Readable
<1>11. CASE DrainReplayJournalEvents \/ FinishPopulation
  BY <1>11 DEF DrainReplayJournalEvents, DrainEnd, CorruptTail, ReadRecords, Readable,
      FinishPopulation, PopulationFails
<1>12. CASE HandleInitializationFailure
  BY <1>12 DEF HandleInitializationFailure, Goes, Signal, CloseMember, MutexFree,
      Queue!Close
<1>13. CASE TestActive \/ ReadNothing
  BY <1>13 DEF TestActive, ReadNothing, Goes
<1>14. CASE JournalLost
  BY <1>14 DEF JournalLost, Goes, Latch
<1>15. CASE ReadData
  BY <1>15 DEF ReadData, Goes, ReadRecords, Readable
<1>16. CASE ReadError
  BY <1>16 DEF ReadError, Goes, Latch
<1>17. CASE PushBuffer
  BY <1>17 DEF PushBuffer, Goes, Queue!Put
<1>18. CASE ReaderThrows \/ ReaderExit
  BY <1>18 DEF ReaderThrows, ReaderExit, Goes, CloseMember, MutexFree, Queue!Close
<1>19. CASE PopBuffer
  BY <1>19 DEF PopBuffer, Queue!Take
<1>20. CASE ProcessOneBuffer
  BY <1>20 DEF ProcessOneBuffer, CorruptTail
<1>21. CASE ProcessorThrows
  BY <1>21 DEF ProcessorThrows
<1>22. CASE UNCHANGED vars
  BY <1>22 DEF vars
<1> QED BY <1>1, <1>2, <1>3, <1>4, <1>5, <1>6, <1>7, <1>8, <1>9, <1>10, <1>11, <1>12, <1>13,
    <1>14, <1>15, <1>16, <1>17, <1>18, <1>19, <1>20, <1>21, <1>22 DEF Next, OwnerStep,
    ReaderStep, ProcessorStep

(* Steps that leave the stream alone leave the chain alone.                 *)
LEMMA ChainFrame ==
    ASSUME Chain, Following' => Following,
           UNCHANGED <<applied, applying, items, holding, cursor>>
    PROVE  Chain'
BY DEF Chain, Before, After, Linked

(* No step of any thread opens a gap in the chain or overlaps in it.        *)
LEMMA ChainStep == NumberTypes /\ BufferTypes /\ Stream /\ Chain /\ [Next]_vars => Chain'
<1> SUFFICES ASSUME NumberTypes, BufferTypes, Stream, Chain, [Next]_vars PROVE Chain'
  OBVIOUS
<1> USE DEF threads, flags, handles, channel, stream, others, notProcessor
<1>0. /\ cursor.next \in Nat /\ applied \in Nat
      /\ \A b \in Buffers : b[1] \in Nat /\ b[2] \in Nat
  BY BoundsAssumption, BufferShape DEF NumberTypes, BufferTypes, Records
<1>1. CASE WriteRecord \/ TrimJournal \/ RecreateJournal
  BY <1>1, ChainFrame DEF WriteRecord, TrimJournal, RecreateJournal, Following
<1>2. CASE Start \/ Stop
  BY <1>2, ChainFrame DEF Start, Stop, Following
<1>3. CASE StartThreads
  BY <1>3 DEF StartThreads, Chain, Following
<1>4. CASE InitResult \/ StopLocked \/ CloseTaken \/ ResetQueue
  BY <1>4, ChainFrame DEF InitResult, StopLocked, CloseTaken, ResetQueue, Following
<1>5. CASE StopQueue \/ JoinThreads
  BY <1>5 DEF StopQueue, Queue!Close, JoinThreads, Chain, Following
<1>6. CASE OpenVolume \/ QueryJournal \/ SignalInitResult \/ BeginPopulation
  BY <1>6 DEF OpenVolume, QueryJournal, SignalInitResult, BeginPopulation, Goes, Chain, Following
<1>7. CASE PopulateInitialIndex \/ VerifyJournal
  BY <1>7 DEF PopulateInitialIndex, VerifyJournal, PopulationFails, Chain, Following
<1>8. CASE DrainReplayJournalEvents
  BY <1>8 DEF DrainReplayJournalEvents, Chain, Following
(* The live loop begins where the population and the drain have ended.      *)
<1>9. CASE FinishPopulation
  <2> SUFFICES ASSUME Following' PROVE Chain'
    BY DEF Chain
  <2>1. reader = "recompute" /\ processor' = processor
    BY <1>9 DEF FinishPopulation
  <2>2. /\ items = <<>> /\ processor # "apply" /\ cursor.next = applied + 1
        /\ holding = NoBuffer /\ applying = NoBuffer
    BY <2>1 DEF Stream, AtWork
  <2>3. UNCHANGED <<applied, applying, items, holding, cursor>>
    BY <1>9 DEF FinishPopulation
  <2>4. Linked(applied, items, cursor.next)
    BY <2>2, EmptyQueue DEF Linked
  <2> QED BY <2>2, <2>3, <2>4 DEF Chain, Before, After, Linked
<1>10. CASE SetPopulationFailed \/ HandleInitializationFailure
  BY <1>10 DEF SetPopulationFailed, HandleInitializationFailure, Goes, Chain, Following
<1>11. CASE TestActive \/ ReadNothing \/ JournalLost \/ ReadError
  BY <1>11, ChainFrame
  DEF TestActive, ReadNothing, JournalLost, ReadError, Goes, Following
<1>12. CASE ReadData
  <2> SUFFICES ASSUME Following' PROVE Chain'
    BY DEF Chain
  <2>1. PICK last \in Records : /\ holding' = <<cursor.next, last>>
                                /\ cursor' = [cursor EXCEPT !.next = last + 1]
    BY <1>12 DEF ReadData, ReadRecords
  <2>2. /\ reader = "reading" /\ Following
        /\ UNCHANGED <<applied, applying, items>>
    BY <1>12 DEF ReadData, Goes, Following
  <2>3. /\ holding = NoBuffer /\ holding' # NoBuffer /\ After' = After
        /\ cursor'.next = holding'[2] + 1
    BY <2>1, <2>2 DEF Stream, NoBuffer, After, NumberTypes
  <2> QED BY <2>2, <2>3 DEF Chain, Before, Linked
<1>13. CASE PushBuffer
  <2> SUFFICES ASSUME Following' PROVE Chain'
    BY DEF Chain
  <2>1. /\ reader = "push" /\ Following /\ items' = Append(items, holding)
        /\ holding' = NoBuffer /\ UNCHANGED <<applied, applying, cursor>>
    BY <1>13 DEF PushBuffer, Goes, Queue!Put, Following
  <2>2. holding \in Buffers /\ holding # NoBuffer
    BY <2>1 DEF BufferTypes
  <2>3. Before \in Nat /\ items \in Seq(Buffers)
    BY <1>0 DEF Before, BufferTypes
  <2>4. Linked(Before, items, holding[1]) /\ cursor.next = holding[2] + 1
    BY <2>1, <2>2 DEF Chain, After
  <2>5. Linked(Before, Append(items, holding), holding[2] + 1)
    BY <2>2, <2>3, <2>4, LinkedAppend
  <2>6. Before' = Before /\ After' = holding[2] + 1
    BY <2>1, <2>4 DEF Before, After
  <2>7. Linked(Before, items, After)' <=> Linked(Before, Append(items, holding), holding[2] + 1)
    BY <2>1, <2>6 DEF Linked
  <2> QED BY <2>1, <2>5, <2>7 DEF Chain
<1>14. CASE ReaderThrows \/ ReaderExit
  BY <1>14 DEF ReaderThrows, ReaderExit, Goes, Chain, Following
<1>15. CASE PopBuffer
  <2> SUFFICES ASSUME Following' PROVE Chain'
    BY DEF Chain
  <2>1. /\ processor = "pop" /\ Following /\ Queue!Take /\ applying' = Head(items)
        /\ UNCHANGED <<applied, holding, cursor>>
    BY <1>15 DEF PopBuffer, Queue!Take, Following
  <2>2. applying = NoBuffer /\ items # <<>> /\ items' = Tail(items)
    BY <2>1 DEF Stream, Queue!Take
  <2>3. Before = applied /\ Linked(applied, items, After)
    BY <2>1, <2>2 DEF Before, Chain
  <2>4. /\ Head(items) \in Buffers /\ Head(items)[1] = applied + 1
        /\ Linked(Head(items)[2], Tail(items), After)
    BY <1>0, <2>2, <2>3, LinkedTail DEF BufferTypes
  <2>5. Before' = Head(items)[2] /\ After' = After
    BY <2>1, <2>4, BufferShape DEF Before, After
  <2>6. Linked(Before, items, After)' <=> Linked(Head(items)[2], Tail(items), After)
    BY <2>2, <2>5 DEF Linked
  <2> QED BY <2>1, <2>4, <2>6 DEF Chain
<1>16. CASE ProcessOneBuffer
  <2> SUFFICES ASSUME Following' PROVE Chain'
    BY DEF Chain
  <2>1. /\ processor = "apply" /\ Following /\ applying' = NoBuffer /\ applied' = applying[2]
        /\ UNCHANGED <<items, holding, cursor>>
    BY <1>16 DEF ProcessOneBuffer, Following
  <2>2. Before' = Before /\ After' = After
    BY <2>1 DEF Before, After, BufferTypes
  <2> QED BY <2>1, <2>2 DEF Chain, Linked
<1>17. CASE ProcessorThrows
  BY <1>17 DEF ProcessorThrows, Chain, Following
<1>18. CASE UNCHANGED vars
  BY <1>18, ChainFrame DEF vars, Following
<1> QED
  BY <1>1, <1>2, <1>3, <1>4, <1>5, <1>6, <1>7, <1>8, <1>9, <1>10, <1>11, <1>12, <1>13, <1>14,
     <1>15, <1>16, <1>17, <1>18
  DEF Next, OwnerStep, ReaderStep, ProcessorStep
-----------------------------------------------------------------------------
(* The conjunction is inductive.                                            *)
LEMMA InitHolds == Init => IInv
<1> SUFFICES ASSUME Init PROVE IInv
  OBVIOUS
<1>1. PlaceTypes /\ FlagTypes /\ HistoryTypes
  BY DEF Init, PlaceTypes, FlagTypes, HistoryTypes
<1>2. NumberTypes
  BY BoundsAssumption, ErrorsAssumption DEF Init, NumberTypes
<1>3. BufferTypes
  BY BufferShape, BoundsAssumption DEF Init, BufferTypes
<1>4. QueueBound
  BY EmptyQueue, QueueAssumption DEF Init, QueueBound
<1>5. Control
  BY DEF Init, Control, Handles, Threads, Active, Population, Reasons, AtWork, Winding, Stopping
<1>6. Stream /\ Chain
  BY DEF Init, Stream, AtWork, Chain, Following
<1> QED BY <1>1, <1>2, <1>3, <1>4, <1>5, <1>6 DEF IInv

LEMMA Inductive == IInv /\ [Next]_vars => IInv'
BY PlacesKept, FlagsKept, HistoryKept, NumbersKept, BuffersKept, QueueBoundKept, ControlStep,
   StreamStep, ChainStep
DEF IInv

(* The inductive invariant holds throughout.                                *)
THEOREM InvariantHolds == Spec => []IInv
BY InitHolds, Inductive, PTL DEF Spec

(* Types; open among them: the volume handle, which the reader, Stop and the*)
(* failure paths race to close, is never closed twice.                      *)
THEOREM TypeCorrect == Spec => []TypeOK
<1>1. IInv => TypeOK
  <2> SUFFICES ASSUME IInv PROVE TypeOK
    OBVIOUS
  <2>1. /\ owner \in {"idle", "joining", "waiting", "stop", "close", "stop_queue", "join", "reset"}
        /\ reader \in {"none", "open", "query", "signal", "begin", "populate", "verify",
                       "drain", "recompute", "fail", "init_fail", "fail_close", "fail_stop",
                       "loop", "reading", "push", "exit", "cleanup", "done"}
        /\ processor \in {"none", "pop", "apply", "done"}
        /\ promise \in {"unset", "ok", "failed"}
    BY DEF IInv, PlaceTypes, AtWork, Winding
  <2>2. /\ {restarting, active, populating, failed, compromised} \subseteq BOOLEAN
        /\ {handle, taken, enricher, has_queue, stopped} \subseteq BOOLEAN
        /\ {dropped, threw} \subseteq BOOLEAN
    BY DEF IInv, FlagTypes, HistoryTypes
  <2>3. open \in 0..1
    BY DEF IInv, Control, Handles
  <2>4. items \in Seq(Buffers) /\ holding \in Buffers \cup {NoBuffer}
        /\ applying \in Buffers \cup {NoBuffer} /\ applied \in 0..MaxRecords
    BY DEF IInv, BufferTypes
  <2>5. Len(items) <= QueueSize
    BY DEF IInv, QueueBound
  <2> QED BY <2>1, <2>2, <2>3, <2>4, <2>5 DEF IInv, NumberTypes, TypeOK
<1> QED BY <1>1, InvariantHolds, PTL

(* The buffer being applied can be put in front of the chain.               *)
LEMMA LinkedPrepend ==
    ASSUME NEW s \in Seq(Buffers), NEW b \in Buffers, NEW from \in Nat, NEW to,
           b[1] = from + 1, Linked(b[2], s, to)
    PROVE  <<b>> \o s \in Seq(Buffers) /\ Linked(from, <<b>> \o s, to)
<1> DEFINE n == Len(s)
           t == <<b>> \o s
<1>1. /\ n \in Nat /\ t \in Seq(Buffers) /\ Len(t) = n + 1 /\ t[1] = b
      /\ \A i \in 1..n : t[i + 1] = s[i]
  OBVIOUS
<1>2. to = t[Len(t)][2] + 1
  <2>1. CASE n = 0
    BY <1>1, <2>1 DEF Linked
  <2>2. CASE n # 0
    <3>1. t[n + 1] = s[n]
      BY <1>1, <2>2
    <3> QED BY <1>1, <2>2, <3>1 DEF Linked
  <2> QED BY <2>1, <2>2
<1>3. ASSUME NEW i \in 1..n PROVE t[i + 1][1] = t[i][2] + 1
  <2>1. CASE i = 1
    <3>1. n # 0 /\ t[2] = s[1] /\ t[i] = b
      BY <1>1, <2>1
    <3> QED BY <2>1, <3>1 DEF Linked
  <2>2. CASE i # 1
    <3>1. i - 1 \in 1..n - 1 /\ t[i + 1] = s[(i - 1) + 1] /\ t[i] = s[i - 1]
      <4>1. i - 1 \in 1..n /\ (i - 1) + 1 = i
        BY <1>1, <2>2
      <4> QED BY <1>1, <4>1
    <3> QED BY <3>1 DEF Linked
  <2> QED BY <2>1, <2>2
<1> HIDE DEF n, t
<1>4. Len(t) - 1 = n /\ Len(t) # 0
  BY <1>1
<1> QED BY <1>1, <1>2, <1>3, <1>4 DEF Linked, t

(* From the cursor taken before the MFT scan, through the replay drain, the *)
(* queue and the processor, every record reaches the index once and in order,*)
(* for any journal, whatever it drops or becomes; what a corrupt buffer did  *)
(* not bring to the index is latched.                                       *)
THEOREM StreamHasNoGap == Spec => []NothingSkipped
<1>1. IInv => (dropped => compromised)
  BY DEF IInv, Control, Reasons
<1>2. IInv => NothingSkipped
  <2> SUFFICES ASSUME IInv, Following
               PROVE  LET ends == <<applied>> \o [i \in DOMAIN Underway |-> Underway[i][2]]
                      IN  /\ \A i \in DOMAIN Underway : Underway[i][1] = ends[i] + 1
                          /\ cursor.next = ends[Len(ends)] + 1
    BY <1>1 DEF NothingSkipped, Following
  <2> DEFINE front == IF applying = NoBuffer THEN items ELSE <<applying>> \o items
  <2>1. /\ items \in Seq(Buffers) /\ applied \in Nat
        /\ holding # NoBuffer => holding \in Buffers
        /\ applying # NoBuffer => applying \in Buffers
    BY BoundsAssumption DEF IInv, BufferTypes
  <2>2. front \in Seq(Buffers) /\ Linked(applied, front, After)
    <3>1. CASE applying = NoBuffer
      BY <2>1, <3>1 DEF IInv, Chain, Before
    <3>2. CASE applying # NoBuffer
      <4>1. applying[1] = applied + 1 /\ Linked(applying[2], items, After)
        BY <3>2 DEF IInv, Chain, Before
      <4> QED BY <2>1, <3>2, <4>1, LinkedPrepend
    <3> QED BY <3>1, <3>2
  <2>3. Underway = IF holding = NoBuffer THEN front ELSE Append(front, holding)
    <3>1. \A s \in Seq(Buffers) : <<>> \o s = s /\ s \o <<>> = s
      OBVIOUS
    <3>2. \A s \in Seq(Buffers), b \in Buffers : s \o <<b>> = Append(s, b)
      OBVIOUS
    <3> QED BY <2>1, <2>2, <3>1, <3>2 DEF Underway
  <2>4. Underway \in Seq(Buffers) /\ Linked(applied, Underway, cursor.next)
    <3> HIDE DEF front
    <3>1. CASE holding = NoBuffer
      BY <2>2, <2>3, <3>1 DEF After
    <3>2. CASE holding # NoBuffer
      <4>1. After = holding[1] /\ cursor.next = holding[2] + 1
        BY <3>2 DEF IInv, Chain, After
      <4> QED BY <2>1, <2>2, <2>3, <3>2, <4>1, LinkedAppend, SequenceFacts
    <3> QED BY <3>1, <3>2
  <2> DEFINE u == Underway
             n == Len(u)
             ends == <<applied>> \o [i \in DOMAIN u |-> u[i][2]]
  <2> HIDE DEF u
  <2>5. n \in Nat /\ DOMAIN u = 1..n /\ [i \in DOMAIN u |-> u[i][2]] \in Seq(Records)
        /\ Len([i \in DOMAIN u |-> u[i][2]]) = n
    BY <2>4, BufferShape DEF u
  <2>6. Len(ends) = n + 1 /\ ends[1] = applied /\ \A i \in 1..n : ends[i + 1] = u[i][2]
    BY <2>5
  <2> HIDE DEF ends, n
  <2>7. cursor.next = ends[Len(ends)] + 1
    <3>1. n = 0 => cursor.next = applied + 1
      BY <2>4 DEF Linked, u, n
    <3>2. n # 0 => cursor.next = u[n][2] + 1
      BY <2>4 DEF Linked, u, n
    <3> QED BY <2>5, <2>6, <3>1, <3>2
  <2>8. ASSUME NEW i \in 1..n PROVE u[i][1] = ends[i] + 1
    <3>1. CASE i = 1
      <4>1. n # 0
        BY <2>5
      <4>2. u[1][1] = applied + 1
        BY <2>4, <4>1 DEF Linked, u, n
      <4> QED BY <2>6, <3>1, <4>2
    <3>2. CASE i # 1
      <4>1. i - 1 \in 1..n - 1 /\ i - 1 \in 1..n /\ (i - 1) + 1 = i
        BY <2>5, <3>2
      <4>2. u[(i - 1) + 1][1] = u[i - 1][2] + 1
        BY <2>4, <4>1 DEF Linked, u, n
      <4>3. ends[(i - 1) + 1] = u[i - 1][2]
        BY <2>6, <4>1
      <4> QED BY <4>1, <4>2, <4>3
    <3> QED BY <3>1, <3>2
  <2> QED BY <2>5, <2>7, <2>8 DEF u, ends
<1> QED BY <1>2, InvariantHolds, PTL

(* A reader that ended by itself has latched why, unless an exception ended *)
(* it, on every path of ReaderThread and HandleInitializationFailure.       *)
THEOREM DeadReaderSaysWhy == Spec => []NoSilentStop
<1>1. IInv => NoSilentStop
  BY DEF IInv, Control, NoSilentStop, Reasons, Active, Winding, FlagTypes
<1> QED BY <1>1, InvariantHolds, PTL

(* The processor ends only when monitoring has, or by an exception.         *)
THEOREM NoStallBehindActive == Spec => []NoSilentStall
<1>1. IInv => NoSilentStall
  BY DEF IInv, Control, NoSilentStall, Active
<1> QED BY <1>1, InvariantHolds, PTL

(* No handle stays open when the reader has ended and no call runs: of the  *)
(* reader, Stop and the failure path exactly one closes it.                 *)
THEOREM HandleClosedOnce == Spec => []NoHandleLeak
<1>1. IInv => NoHandleLeak
  BY DEF IInv, Control, NoHandleLeak, Ended, Handles, FlagTypes
<1> QED BY <1>1, InvariantHolds, PTL

(* Stop destroys the queue only after reader and processor have ended, on   *)
(* whatever path and timeout it was called; other threads, such as the UI's *)
(* in GetQueueSize, are not part of the statement.                          *)
THEOREM WorkersEndBeforeQueue == Spec => []QueueOutlivesWorkers
<1>1. IInv => QueueOutlivesWorkers
  BY DEF IInv, Control, QueueOutlivesWorkers, Ended, Threads
<1> QED BY <1>1, InvariantHolds, PTL

(* is_populating_index_ does not outlive the reader, unless an exception    *)
(* ended it.                                                                *)
THEOREM PopulationFlagEnds == Spec => []PopulationEnds
<1>1. IInv => PopulationEnds
  BY DEF IInv, Control, PopulationEnds, Ended, Population
<1> QED BY <1>1, InvariantHolds, PTL

(* Stop ends the enricher the reader has started: without a reader none is  *)
(* left.                                                                    *)
THEOREM EnricherEnds == Spec => []NoEnricherLeft
<1>1. IInv => NoEnricherLeft
  BY DEF IInv, Control, NoEnricherLeft, Threads
<1> QED BY <1>1, InvariantHolds, PTL

-----------------------------------------------------------------------------
(* The session (UsnIndexBuild): it keeps the invariant of the monitor it    *)
(* runs, and UI thread and builder call the monitor one after the other.    *)

(* The builder's thread exists once the monitor was started, and has ended  *)
(* where the UI thread replaces the index.                                  *)
Lives ==
    /\ app \in {"boot", "starting"} <=> builder = "none"
    /\ app \in {"clear", "stop_monitor", "wait_stop", "crawling"} => builder = "done"
    /\ build \in [active : BOOLEAN, completed : BOOLEAN, failed : BOOLEAN, cancel : BOOLEAN]

(* Whoever calls the monitor waits for it, and only the bootstrap starts.   *)
Calls ==
    /\ app = "boot" => owner = "idle" /\ reader = "none"
    /\ owner # "idle" => app \in {"starting", "wait_stop"} \/ builder = "wait_stop"
    /\ owner \in {"joining", "waiting"} => app = "starting"
    /\ ~restarting

(* A Stop that has returned has left no threads, and none come back.        *)
Stopped ==
    /\ app = "wait_stop" /\ owner = "idle" => reader = "none"
    /\ app = "crawling" => reader = "none"
    /\ builder = "wait_stop" /\ owner = "idle" => reader = "none"
    /\ build.failed => builder \in {"stop_monitor", "wait_stop", "inactive", "done"}
    /\ build.failed /\ builder \in {"inactive", "done"} => reader = "none"

SessionInv == IInv /\ Lives /\ Calls /\ Stopped

-----------------------------------------------------------------------------
(* A session runs the monitor.                                              *)
LEMMA SessionStepIsMonitorStep == [SessionNext]_allvars => [Next]_vars
<1> SUFFICES ASSUME [SessionNext]_allvars PROVE [Next]_vars
  OBVIOUS
<1> USE DEF Next
<1>1. CASE MonitorStep
  BY <1>1 DEF MonitorStep
<1>2. CASE StartMonitor \/ StartBuilder \/ StopIndexBuilding \/ StartIndexBuilding
  BY <1>2 DEF StartMonitor, StartBuilder, StopIndexBuilding, StartIndexBuilding, CancelBuild
<1>3. CASE UiStep
  BY <1>3 DEF UiStep, JoinBuilder, ClearIndex, StopMonitor, StartCrawl
<1>4. CASE BuilderStep
  BY <1>4 DEF BuilderStep, Poll, Check, BuilderStopsMonitor, Finish
<1>5. CASE UNCHANGED allvars
  BY <1>5 DEF allvars
<1> QED BY <1>1, <1>2, <1>3, <1>4, <1>5 DEF SessionNext

(* What a step of the monitor does to its owner and to threads.             *)
LEMMA MonitorMoves ==
    ASSUME IInv, ~restarting, MonitorStep
    PROVE  /\ UNCHANGED session
           /\ ~restarting'
           /\ owner = "idle" => owner' = "idle"
           /\ owner' \in {"joining", "waiting"} => owner \in {"joining", "waiting"}
           /\ owner # "joining" /\ reader = "none" => reader' = "none"
           /\ owner \notin {"idle", "joining", "waiting"} /\ owner' = "idle" => reader' = "none"
<1> USE DEF threads, flags, handles, channel, stream, others, notProcessor
<1>0. UNCHANGED session
  BY DEF MonitorStep
<1>1. CASE WriteRecord \/ ProcessorStep
  BY <1>0, <1>1 DEF WriteRecord, ProcessorStep, PopBuffer, ProcessOneBuffer, ProcessorThrows
<1>2. CASE OwnerStep
  <2>1. owner = "reset" => reader = "none"
    BY DEF IInv, Control, Threads
  <2> QED BY <1>0, <1>2, <2>1
          DEF OwnerStep, StartThreads, InitResult, StopLocked, CloseTaken, StopQueue,
              JoinThreads, ResetQueue
<1>3. CASE ReaderStep
  <2>1. UNCHANGED <<owner, restarting>>
    BY <1>3 DEF ReaderStep, OpenVolume, QueryJournal, SignalInitResult, BeginPopulation,
                PopulateInitialIndex, VerifyJournal, DrainReplayJournalEvents,
                FinishPopulation, SetPopulationFailed, HandleInitializationFailure,
                TestActive, ReadData, ReadNothing, JournalLost, ReadError, PushBuffer,
                ReaderThrows, ReaderExit
  <2>2. reader # "none"
    BY <1>3 DEF ReaderStep, OpenVolume, QueryJournal, SignalInitResult, BeginPopulation,
                PopulateInitialIndex, VerifyJournal, DrainReplayJournalEvents,
                FinishPopulation, SetPopulationFailed, HandleInitializationFailure,
                TestActive, ReadData, ReadNothing, JournalLost, ReadError, PushBuffer,
                ReaderThrows, ReaderExit, Goes
  <2> QED BY <1>0, <2>1, <2>2
<1> QED BY <1>1, <1>2, <1>3 DEF MonitorStep

LEMMA SessionInitHolds == SessionInit => SessionInv
<1> SUFFICES ASSUME SessionInit PROVE SessionInv
  OBVIOUS
<1>1. IInv
  BY InitHolds DEF SessionInit
<1>2. Lives /\ Calls /\ Stopped
  BY DEF SessionInit, Init, Lives, Calls, Stopped
<1> QED BY <1>1, <1>2 DEF SessionInv

LEMMA SessionInductive == SessionInv /\ [SessionNext]_allvars => SessionInv'
<1> SUFFICES ASSUME SessionInv, [SessionNext]_allvars PROVE SessionInv'
  OBVIOUS
<1>0. IInv'
  BY Inductive, SessionStepIsMonitorStep DEF SessionInv
<1> SUFFICES (Lives /\ Calls /\ Stopped)'
  BY <1>0 DEF SessionInv
<1> USE DEF SessionInv, Lives, Calls, Stopped, vars, threads
<1>1. CASE MonitorStep
  BY <1>1, MonitorMoves DEF session
<1>2. CASE StartMonitor
  <2>1. ~active
    BY <1>2 DEF StartMonitor, IInv, Control, Threads
  <2> QED BY <1>2, <2>1 DEF StartMonitor, Start
<1>3. CASE StartBuilder
  BY <1>3 DEF StartBuilder
<1>4. CASE StopIndexBuilding \/ StartIndexBuilding
  <2>1. /\ app = "running" /\ app' \in {"join", "join_replace"}
        /\ UNCHANGED <<vars, builder>>
        /\ build' = [build EXCEPT !.cancel = TRUE]
    BY <1>4 DEF StopIndexBuilding, StartIndexBuilding, CancelBuild
  <2>2. build'.failed = build.failed /\ Lives'
    BY <2>1
  <2> QED BY <2>1, <2>2
<1>5. CASE JoinBuilder \/ ClearIndex
  BY <1>5 DEF JoinBuilder, ClearIndex
<1>6. CASE StopMonitor
  BY <1>6 DEF StopMonitor, Stop
<1>7. CASE StartCrawl
  BY <1>7 DEF StartCrawl
<1>8. CASE Poll
  BY <1>8 DEF Poll
<1>9. CASE Check
  BY <1>9 DEF Check
<1>10. CASE BuilderStopsMonitor
  BY <1>10 DEF BuilderStopsMonitor, Stop
<1>11. CASE Finish
  BY <1>11 DEF Finish
<1>12. CASE UNCHANGED allvars
  BY <1>12 DEF allvars, session
<1> QED
  BY <1>1, <1>2, <1>3, <1>4, <1>5, <1>6, <1>7, <1>8, <1>9, <1>10, <1>11, <1>12
  DEF SessionNext, UiStep, BuilderStep

-----------------------------------------------------------------------------
(* The invariant of the session holds throughout.                           *)
THEOREM SessionInvariantHolds == SessionSpec => []SessionInv
BY SessionInitHolds, SessionInductive, PTL DEF SessionSpec

(* A session is a behaviour of the monitor: what UsnMonitorProofs shows     *)
(* holds for the sessions of the application.                               *)
THEOREM SessionRunsMonitor == SessionSpec => Init /\ [][Next]_vars
<1>1. SessionInit => Init
  BY DEF SessionInit
<1> QED BY <1>1, SessionStepIsMonitorStep, PTL DEF SessionSpec

(* UsnMonitor::Stop is not made for two callers: the UI thread, which joins *)
(* the builder first, and the builder never call it together, nor while     *)
(* Start runs.                                                              *)
THEOREM StopsAreSerialized == SessionSpec => []StopsSerialized
<1>1. SessionInv => StopsSerialized
  BY DEF SessionInv, Lives, Calls, StopsSerialized
<1> QED BY <1>1, SessionInvariantHolds, PTL

(* A population that failed leaves no threads behind.                       *)
THEOREM FailureStopsMonitor == SessionSpec => []FailedBuildStopsMonitor
<1>1. SessionInv => FailedBuildStopsMonitor
  BY DEF SessionInv, Stopped, FailedBuildStopsMonitor, IInv, Control, Threads
<1> QED BY <1>1, SessionInvariantHolds, PTL

(* Application::StartIndexBuilding stops the monitor before it crawls: from *)
(* then on the monitor does not write to the index.                         *)
THEOREM CrawlIsUndisturbed == SessionSpec => MonitorQuietWhileCrawling
<1>1. SessionInv /\ [SessionNext]_allvars => [app = "crawling" => ~WritesIndex]_allvars
  BY DEF SessionInv, Stopped, WritesIndex, IInv, Control, Threads
<1> QED BY <1>1, SessionInvariantHolds, PTL DEF SessionSpec, MonitorQuietWhileCrawling
=============================================================================
