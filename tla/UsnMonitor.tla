----------------------------- MODULE UsnMonitor -----------------------------
(***************************************************************************)
(* The life of a UsnMonitor (src/src/usn/UsnMonitor.cpp): the thread that   *)
(* calls Start and Stop, the reader thread, which populates the index and  *)
(* then follows the USN journal of the volume, and the processor thread,   *)
(* which applies what the reader queues.                                   *)
(*                                                                         *)
(* Records of the journal are numbered; a buffer is the pair of its first  *)
(* and last record.  Records before the cursor taken when the journal is   *)
(* opened are in the index because the MFT scan that follows sees them;    *)
(* those from the cursor on must be applied.  The queue between the two    *)
(* threads is the channel UsnJournalQueue is shown to implement.           *)
(***************************************************************************)
EXTENDS Naturals, Sequences

CONSTANTS
    QueueSize,    \* config_.max_queue_size
    MaxErrors,    \* max_consecutive_errors_limit
    MaxRecords,   \* bound: records ever written to the journal
    MaxStarts,    \* bound: calls of Start
    MayThrow,     \* whether a thread may meet an exception
    StopsFirst    \* whether Start is called only on a monitor that is stopped

ASSUME QueueAssumption == QueueSize \in Nat \ {0}
ASSUME ErrorsAssumption == MaxErrors \in Nat \ {0}
ASSUME BoundsAssumption == MaxRecords \in Nat /\ MaxStarts \in Nat
ASSUME SwitchAssumption == MayThrow \in BOOLEAN /\ StopsFirst \in BOOLEAN

VARIABLES
    journal,      \* the kernel's: last record, lowest readable record, identity
    owner,        \* where the thread that calls Start and Stop stands
    restarting,   \* whether Start called the Stop that runs
    reader,       \* where reader_thread_ stands, "none" if not joinable
    processor,    \* where processor_thread_ stands, "none" if not joinable
    starts,       \* calls of Start so far
    active,       \* monitoring_active_
    promise,      \* init_promise_: "unset", "ok" or "failed"
    populating,   \* is_populating_index_
    failed,       \* initial_population_failed_
    compromised,  \* index_integrity_compromised_
    handle,       \* whether volume_handle_ is valid
    taken,        \* whether Stop holds a handle it has yet to close
    open,         \* volume handles that are open
    enricher,     \* whether metadata_enricher_ runs
    has_queue,    \* queue_ != nullptr
    items,        \* the buffers queued
    stopped,      \* whether the queue is stopped
    cursor,       \* the reader's journal identity and next record to read
    target,       \* target_usn of the replay drain
    holding,      \* the buffer the reader pushes
    applying,     \* the buffer the processor applies
    errors,       \* consecutive_errors, capped at MaxErrors
    applied,      \* the last record the index reflects, but for what was dropped
    dropped,      \* history: whether a buffer was not applied in full
    threw         \* history: whether an exception has ended a thread

threads == <<owner, restarting, reader, processor>>
flags == <<active, promise, populating, failed, compromised>>
handles == <<handle, taken, open>>
channel == <<has_queue, items, stopped>>
stream == <<cursor, target, holding, applying, errors, applied, dropped, threw>>
vars == <<journal, starts, threads, flags, handles, enricher, channel, stream>>

Records == 1..MaxRecords
Buffers == {b \in Records \X Records : b[1] <= b[2]}
NoBuffer == <<>>

Queue == INSTANCE BoundedChannel WITH Capacity <- QueueSize, closed <- stopped

TypeOK ==
    /\ journal \in [last : 0..MaxRecords, lowest : 1..MaxRecords + 1, id : {1, 2}]
    /\ owner \in {"idle", "joining", "waiting", "stop", "close", "stop_queue", "join", "reset"}
    /\ reader \in {"none", "open", "query", "signal", "begin", "populate", "verify",
                   "drain", "recompute", "fail", "init_fail", "fail_close", "fail_stop",
                   "loop", "reading", "push", "exit", "cleanup", "done"}
    /\ processor \in {"none", "pop", "apply", "done"}
    /\ starts \in 0..MaxStarts
    /\ {restarting, active, populating, failed, compromised} \subseteq BOOLEAN
    /\ promise \in {"unset", "ok", "failed"}
    /\ {handle, taken, enricher, has_queue, stopped} \subseteq BOOLEAN
    /\ open \in 0..1
    /\ items \in Seq(Buffers) /\ Len(items) <= QueueSize
    /\ cursor \in [id : {1, 2}, next : 1..MaxRecords + 1]
    /\ target \in 1..MaxRecords + 1
    /\ holding \in Buffers \cup {NoBuffer}
    /\ applying \in Buffers \cup {NoBuffer}
    /\ errors \in 0..MaxErrors
    /\ applied \in 0..MaxRecords
    /\ {dropped, threw} \subseteq BOOLEAN

Init ==
    /\ journal = [last |-> 0, lowest |-> 1, id |-> 1]
    /\ owner = "idle" /\ restarting = FALSE /\ reader = "none" /\ processor = "none"
    /\ starts = 0
    /\ active = FALSE /\ promise = "unset" /\ populating = FALSE
    /\ failed = FALSE /\ compromised = FALSE
    /\ handle = FALSE /\ taken = FALSE /\ open = 0
    /\ enricher = FALSE
    /\ has_queue = FALSE /\ items = <<>> /\ stopped = TRUE
    /\ cursor = [id |-> 1, next |-> 1] /\ target = 1
    /\ holding = NoBuffer /\ applying = NoBuffer
    /\ errors = 0 /\ applied = 0
    /\ dropped = FALSE /\ threw = FALSE

-----------------------------------------------------------------------------
(* The volume.                                                              *)

WriteRecord ==
    /\ journal.last < MaxRecords
    /\ journal' = [journal EXCEPT !.last = @ + 1]
    /\ UNCHANGED <<starts, threads, flags, handles, enricher, channel, stream>>

(* The journal reaches its size limit and drops its oldest records.         *)
TrimJournal ==
    /\ journal.lowest <= journal.last
    /\ journal' = [journal EXCEPT !.lowest = journal.last + 1]
    /\ UNCHANGED <<starts, threads, flags, handles, enricher, channel, stream>>

RecreateJournal ==
    /\ journal.id = 1
    /\ journal' = [journal EXCEPT !.id = 2]
    /\ UNCHANGED <<starts, threads, flags, handles, enricher, channel, stream>>

Readable == cursor.next >= journal.lowest /\ cursor.id = journal.id

-----------------------------------------------------------------------------
(* The thread that owns the monitor.  mutex_ is held across steps only in   *)
(* Start, while it joins what the session before has left.                  *)

MutexFree == owner # "joining"

Ended(thread) == thread \in {"none", "done"}

Start ==
    /\ owner = "idle" /\ starts < MaxStarts
    /\ StopsFirst => reader = "none"
    /\ starts' = starts + 1
    /\ owner' = IF active THEN "stop" ELSE "joining"
    /\ restarting' = active
    /\ UNCHANGED <<journal, reader, processor, flags, handles, enricher, channel, stream>>

StartThreads ==
    /\ owner = "joining" /\ Ended(reader) /\ Ended(processor)
    /\ failed' = FALSE
    /\ has_queue' = TRUE /\ items' = <<>> /\ stopped' = FALSE
    /\ promise' = "unset"
    /\ active' = TRUE
    /\ reader' = "open" /\ processor' = "pop" /\ owner' = "waiting"
    /\ UNCHANGED <<journal, starts, restarting, populating, compromised, handles, enricher, stream>>

(* Start returns, or stops the monitor again when the reader could not open *)
(* the journal or said nothing for ten seconds.                             *)
InitResult ==
    /\ owner = "waiting"
    /\ \/ promise = "ok" /\ owner' = "idle"
       \/ promise # "ok" /\ owner' = "stop"
    /\ restarting' = FALSE
    /\ UNCHANGED <<journal, starts, reader, processor, flags, handles, enricher, channel, stream>>

Stop ==
    /\ owner = "idle"
    /\ owner' = "stop" /\ restarting' = FALSE
    /\ UNCHANGED <<journal, starts, reader, processor, flags, handles, enricher, channel, stream>>

StopLocked ==
    /\ owner = "stop"
    /\ active' = FALSE
    /\ taken' = handle /\ handle' = FALSE
    /\ owner' = "close"
    /\ UNCHANGED <<journal, starts, restarting, reader, processor, promise, populating, failed,
                   compromised, open, enricher, channel, stream>>

CloseTaken ==
    /\ owner = "close"
    /\ open' = IF taken THEN open - 1 ELSE open
    /\ taken' = FALSE
    /\ owner' = "stop_queue"
    /\ UNCHANGED <<journal, starts, restarting, reader, processor, flags, handle, enricher, channel, stream>>

ResetsQueueEarly ==   \* mutant of StopQueue
    /\ owner = "stop_queue"
    /\ Queue!Close
    /\ has_queue' = FALSE
    /\ owner' = "join"
    /\ UNCHANGED <<journal, starts, restarting, reader, processor, flags, handles, enricher, stream>>

StopQueue ==
    /\ owner = "stop_queue"
    /\ Queue!Close
    /\ owner' = "join"
    /\ UNCHANGED <<journal, starts, restarting, reader, processor, flags, handles, enricher, has_queue, stream>>

JoinsOnly ==   \* mutant of JoinThreads
    /\ owner = "join" /\ Ended(reader) /\ Ended(processor)
    /\ reader' = "none" /\ processor' = "none"
    /\ owner' = "reset"
    /\ UNCHANGED <<journal, starts, restarting, enricher, flags, handles, channel, stream>>

JoinThreads ==
    /\ owner = "join" /\ Ended(reader) /\ Ended(processor)
    /\ reader' = "none" /\ processor' = "none"
    /\ enricher' = FALSE
    /\ owner' = "reset"
    /\ UNCHANGED <<journal, starts, restarting, flags, handles, channel, stream>>

ResetQueue ==
    /\ owner = "reset"
    /\ has_queue' = FALSE
    /\ owner' = IF restarting THEN "joining" ELSE "idle"
    /\ UNCHANGED <<journal, starts, restarting, reader, processor, flags, handles, enricher,
                   items, stopped, stream>>

OwnerStep ==
    StartThreads \/ InitResult \/ StopLocked \/ CloseTaken \/ StopQueue \/ JoinThreads \/ ResetQueue

-----------------------------------------------------------------------------
(* The reader thread.                                                       *)

Goes(from, to) == reader = from /\ reader' = to

others == <<journal, starts, owner, restarting, processor, applying, dropped, threw>>

Signal(result) == promise' = IF promise = "unset" THEN result ELSE promise

ClosesTwice == MutexFree /\ handle' = FALSE /\ open' = open - 1 /\ UNCHANGED taken   \* mutant of CloseMember

KeepsHandle == MutexFree /\ UNCHANGED handles   \* mutant of CloseMember

(* CloseHandle on the member, under the mutex, unless somebody has it.      *)
CloseMember ==
    /\ MutexFree
    /\ handle' = FALSE
    /\ open' = IF handle THEN open - 1 ELSE open
    /\ UNCHANGED taken

OpenVolume ==
    /\ \/ Goes("open", "query") /\ MutexFree /\ handle' = TRUE /\ open' = open + 1
       \/ Goes("open", "init_fail") /\ UNCHANGED <<handle, open>>
    /\ UNCHANGED <<others, flags, taken, enricher, channel, cursor, target, holding, errors, applied>>

(* Once Stop has closed the handle every call on it fails.                  *)
QueryJournal ==
    /\ \/ /\ Goes("query", "signal") /\ open > 0
          /\ cursor' = [id |-> journal.id, next |-> journal.last + 1]
       \/ Goes("query", "init_fail") /\ UNCHANGED cursor
    /\ UNCHANGED <<others, flags, handles, enricher, channel, target, holding, errors, applied>>

SignalInitResult ==
    /\ Goes("signal", "begin")
    /\ Signal("ok")
    /\ UNCHANGED <<others, active, populating, failed, compromised, handles, enricher,
                   channel, cursor, target, holding, errors, applied>>

BeginPopulation ==
    /\ Goes("begin", "populate")
    /\ enricher' = TRUE
    /\ populating' = TRUE
    /\ UNCHANGED <<others, active, promise, failed, compromised, handles, channel,
                   cursor, target, holding, errors, applied>>

LeavesPopulating == reader' = "fail" /\ UNCHANGED <<active, promise, populating, failed>>   \* mutant of PopulationFails

(* Every failure of the population clears one flag and then sets the other. *)
PopulationFails ==
    /\ reader' = "fail"
    /\ populating' = FALSE
    /\ UNCHANGED <<active, promise, failed>>

(* A scan that succeeds has seen the volume: the MFT reader is not modelled *)
(* (RunRawMft also returns true after it met a read error).                 *)
PopulateInitialIndex ==
    /\ reader = "populate"
    /\ \/ /\ reader' = "verify" /\ UNCHANGED flags
          /\ applied' = cursor.next - 1
       \/ PopulationFails /\ UNCHANGED <<compromised, applied>>
    /\ UNCHANGED <<others, handles, enricher, channel, cursor, target, holding, errors>>

VerifyJournal ==
    /\ reader = "verify"
    /\ \/ PopulationFails /\ UNCHANGED <<compromised, target>>     \* the query fails
       \/ /\ open > 0 /\ cursor.id # journal.id
          /\ compromised' = TRUE
          /\ PopulationFails /\ UNCHANGED target
       \/ /\ open > 0 /\ cursor.id = journal.id /\ cursor.next < journal.lowest
          /\ compromised' = TRUE
          /\ reader' = "recompute" /\ UNCHANGED <<active, promise, populating, failed, target>>
       \/ /\ open > 0 /\ Readable
          /\ target' = journal.last + 1
          /\ reader' = "drain" /\ UNCHANGED flags
    /\ UNCHANGED <<others, handles, enricher, channel, cursor, holding, errors, applied>>

DrainStops == cursor' = [cursor EXCEPT !.next = target]   \* mutant of DrainEnd

(* The drain ends at its target, on Stop, and on any failure or empty read; *)
(* monitoring goes on from where it got.                                    *)
DrainEnd == UNCHANGED cursor

(* A read on the volume that returns records: as many as fit.               *)
ReadRecords(last) ==
    /\ open > 0 /\ Readable
    /\ last \in cursor.next..journal.last
    /\ cursor' = [cursor EXCEPT !.next = last + 1]

(* A record that cannot be parsed ends its buffer: the rest is dropped and  *)
(* the index marked as stale, while monitoring goes on.  A rename that fails*)
(* does as much.                                                            *)
CorruptTail ==
    \/ UNCHANGED <<compromised, dropped>>
    \/ compromised' = TRUE /\ dropped' = TRUE

DrainReplayJournalEvents ==
    /\ reader = "drain"
    /\ \/ reader' = "recompute" /\ DrainEnd /\ UNCHANGED <<compromised, dropped, applied>>
       \/ /\ cursor.next < target /\ active
          /\ \E last \in Records : ReadRecords(last) /\ applied' = last
          /\ CorruptTail
          /\ UNCHANGED reader
    /\ UNCHANGED <<journal, starts, owner, restarting, processor, active, promise, populating,
                   failed, handles, enricher, channel, target, holding, applying, errors, threw>>

(* RecomputePathsAndPruneOrphans, and then the privileges are dropped.      *)
FinishPopulation ==
    /\ reader = "recompute"
    /\ \/ /\ reader' = "loop" /\ populating' = FALSE /\ UNCHANGED <<active, promise, failed>>
          /\ errors' = 0
       \/ PopulationFails /\ UNCHANGED errors
    /\ UNCHANGED <<others, compromised, handles, enricher, channel, cursor, target, holding, applied>>

SetPopulationFailed ==
    /\ Goes("fail", "init_fail")
    /\ failed' = TRUE
    /\ UNCHANGED <<others, active, promise, populating, compromised, handles, enricher,
                   channel, cursor, target, holding, errors, applied>>

HandleInitializationFailure ==
    /\ \/ /\ Goes("init_fail", "fail_close")
          /\ active' = FALSE /\ Signal("failed")
          /\ UNCHANGED <<handles, channel>>
       \/ /\ Goes("fail_close", "fail_stop")
          /\ CloseMember
          /\ UNCHANGED <<active, promise, channel>>
       \/ /\ Goes("fail_stop", "done")
          /\ Queue!Close
          /\ UNCHANGED <<active, promise, handles, has_queue>>
    /\ UNCHANGED <<others, populating, failed, compromised, enricher,
                   cursor, target, holding, errors, applied>>

LoopsOn ==   \* mutant of TestActive
    /\ reader = "loop"
    /\ reader' = "reading"
    /\ UNCHANGED <<others, flags, handles, enricher, channel, cursor, target, holding, errors, applied>>

(* The loop tests monitoring_active_ and then reads.                        *)
TestActive ==
    /\ reader = "loop"
    /\ reader' = IF active THEN "reading" ELSE "exit"
    /\ UNCHANGED <<others, flags, handles, enricher, channel, cursor, target, holding, errors, applied>>

ReadData ==
    /\ Goes("reading", "push")
    /\ \E last \in Records : ReadRecords(last) /\ holding' = <<cursor.next, last>>
    /\ errors' = 0
    /\ UNCHANGED <<others, flags, handles, enricher, channel, target, applied>>

(* The read waits for no more data and returns none.                        *)
ReadNothing ==
    /\ Goes("reading", "loop")
    /\ open > 0 /\ Readable
    /\ errors' = 0
    /\ UNCHANGED <<others, flags, handles, enricher, channel, cursor, target, holding, applied>>

DiesSilently == compromised' = compromised /\ active' = FALSE   \* mutant of Latch

LatchOnly == compromised' = TRUE /\ UNCHANGED active   \* mutant of Latch

(* The integrity latch and the end of monitoring.                           *)
Latch == compromised' = TRUE /\ active' = FALSE

(* The journal has wrapped or was deleted.                                  *)
JournalLost ==
    /\ Goes("reading", "exit")
    /\ open > 0 /\ ~Readable
    /\ Latch
    /\ UNCHANGED <<others, promise, populating, failed, handles, enricher, channel,
                   cursor, target, holding, errors, applied>>

(* The handle was closed; ERROR_INVALID_PARAMETER, retried without limit;   *)
(* any other error.                                                         *)
ReadError ==
    /\ \/ /\ open = 0
          /\ Goes("reading", "exit")
          /\ UNCHANGED <<active, compromised, errors>>
       \/ /\ open > 0
          /\ Goes("reading", "loop")
          /\ errors' = IF errors = MaxErrors THEN errors ELSE errors + 1
          /\ UNCHANGED <<active, compromised>>
       \/ /\ open > 0
          /\ errors' = IF errors = MaxErrors THEN errors ELSE errors + 1
          /\ \/ errors' < MaxErrors /\ Goes("reading", "loop") /\ UNCHANGED <<active, compromised>>
             \/ errors' = MaxErrors /\ Goes("reading", "exit") /\ Latch
    /\ UNCHANGED <<others, promise, populating, failed, handles, enricher, channel,
                   cursor, target, holding, applied>>

(* Push waits while the queue is full.                                      *)
PushBuffer ==
    /\ \/ Goes("push", "loop") /\ Queue!Put(holding)
       \/ Goes("push", "exit") /\ stopped /\ UNCHANGED <<items, stopped>>
    /\ holding' = NoBuffer
    /\ UNCHANGED <<others, flags, handles, enricher, has_queue, cursor, target, errors, applied>>

(* The catch clauses of ReaderThread: its whole work is in the try block,   *)
(* what it does before the promise is set too.                              *)
ReaderThrows ==
    /\ MayThrow
    /\ reader \in {"open", "query", "signal", "begin", "populate", "verify", "drain",
                   "recompute", "reading", "push"}
    /\ reader' = "exit"
    /\ active' = FALSE
    /\ holding' = NoBuffer
    /\ threw' = TRUE
    /\ UNCHANGED <<journal, starts, owner, restarting, processor, promise, populating, failed,
                   compromised, handles, enricher, channel, cursor, target, applying, errors, applied,
                   dropped>>

ReaderExit ==
    /\ \/ Goes("exit", "cleanup") /\ Queue!Close /\ UNCHANGED <<handles, has_queue>>
       \/ Goes("cleanup", "done") /\ CloseMember /\ UNCHANGED channel
    /\ UNCHANGED <<others, flags, enricher, cursor, target, holding, errors, applied>>

ReaderStep ==
    \/ OpenVolume \/ QueryJournal \/ SignalInitResult \/ BeginPopulation
    \/ PopulateInitialIndex \/ VerifyJournal \/ DrainReplayJournalEvents
    \/ FinishPopulation \/ SetPopulationFailed \/ HandleInitializationFailure
    \/ TestActive \/ ReadData \/ ReadNothing \/ JournalLost \/ ReadError
    \/ PushBuffer \/ ReaderThrows \/ ReaderExit

-----------------------------------------------------------------------------
(* The processor thread.                                                    *)

notProcessor == <<journal, starts, owner, restarting, reader, active, promise, populating, failed,
                  handles, enricher, has_queue, cursor, target, holding, errors>>

PopBuffer ==
    /\ processor = "pop"
    /\ \/ stopped /\ processor' = "done" /\ UNCHANGED <<items, stopped, applying>>
       \/ Queue!Take /\ processor' = "apply" /\ applying' = Head(items)
    /\ UNCHANGED <<notProcessor, compromised, applied, dropped, threw>>

ProcessOneBuffer ==
    /\ processor = "apply" /\ processor' = "pop"
    /\ applied' = applying[2]
    /\ applying' = NoBuffer
    /\ CorruptTail
    /\ UNCHANGED <<notProcessor, items, stopped, threw>>

(* The catch clauses of ProcessorThread are outside of its loop.            *)
ProcessorThrows ==
    /\ MayThrow
    /\ processor = "apply" /\ processor' = "done"
    /\ applying' = NoBuffer
    /\ threw' = TRUE
    /\ UNCHANGED <<notProcessor, compromised, items, stopped, applied, dropped>>

ProcessorStep == PopBuffer \/ ProcessOneBuffer \/ ProcessorThrows

-----------------------------------------------------------------------------
Next ==
    \/ WriteRecord \/ TrimJournal \/ RecreateJournal
    \/ Start \/ Stop \/ OwnerStep
    \/ ReaderStep
    \/ ProcessorStep

(* The three threads are scheduled, the MFT scan ends, and Start waits ten  *)
(* seconds at most.  A journal that has records for the reader, or has lost *)
(* them, does not answer with nothing or ERROR_INVALID_PARAMETER for ever.  *)
(* Nothing makes the volume change or the owner call Start or Stop.         *)
Fairness ==
    /\ WF_vars(OwnerStep) /\ WF_vars(ReaderStep) /\ WF_vars(ProcessorStep)
    /\ SF_vars(ReadData \/ JournalLost)

Spec == Init /\ [][Next]_vars /\ Fairness

-----------------------------------------------------------------------------
(* The buffers on their way to the index, oldest first.                     *)
Underway ==
    (IF applying = NoBuffer THEN <<>> ELSE <<applying>>)
        \o items \o (IF holding = NoBuffer THEN <<>> ELSE <<holding>>)

(* While the monitor follows the journal, what it has applied, what is      *)
(* under way and what it reads next fit together without a gap or overlap,  *)
(* from the cursor taken before the MFT scan on, through the replay drain;  *)
(* and if a buffer was not applied in full, the index says it may be stale. *)
NothingSkipped ==
    /\ dropped => compromised
    /\ reader \in {"loop", "reading", "push"} /\ ~stopped /\ processor # "done" =>
          LET ends == <<applied>> \o [i \in DOMAIN Underway |-> Underway[i][2]]
          IN  /\ \A i \in DOMAIN Underway : Underway[i][1] = ends[i] + 1
              /\ cursor.next = ends[Len(ends)] + 1

(* A reader that ended by itself has said why, unless it was an exception:  *)
(* the UI shows that the index is stale or that the population failed.      *)
NoSilentStop == owner = "idle" /\ reader = "done" => compromised \/ failed \/ threw

(* The processor does not end while the monitor calls itself active.        *)
NoSilentStall == processor = "done" => ~active \/ threw

(* IsPopulatingIndex(), which the index builder polls and searches wait     *)
(* for, does not outlive the reader.                                        *)
PopulationEnds == Ended(reader) => ~populating \/ threw

(* Reader, Stop and the failure paths race to close the volume handle: it   *)
(* is closed once (TypeOK: open never falls below 0) and not leaked.        *)
NoHandleLeak == owner = "idle" /\ Ended(reader) => open = 0

(* Reader and processor use the queue without the mutex ("queue_ is shared  *)
(* with worker threads", UsnMonitor.cpp:975): Stop destroys it only when    *)
(* both have ended, whatever failed or timed out before.  It says nothing of*)
(* the UI thread, which reads queue_ in GetQueueSize without the mutex too. *)
QueueOutlivesWorkers == ~Ended(reader) \/ ~Ended(processor) => has_queue

(* The reader starts the enricher and Stop ends it on another thread: none  *)
(* is left behind.                                                          *)
NoEnricherLeft == reader = "none" => ~enricher

(* Start and Stop return, whatever the reader is doing.                     *)
CallsReturn == owner # "idle" ~> owner = "idle"

(* Every record reaches the index as long as monitoring goes on, does not   *)
(* tell that the index is stale, and no exception has ended a thread.       *)
CatchesUp ==
    \A r \in Records :
        active /\ journal.last >= r /\ applied < r ~> applied >= r \/ ~active \/ compromised \/ threw
=============================================================================
