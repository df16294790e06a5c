---------------------------- MODULE AuditTrail ----------------------------
(***************************************************************************)
(* The audit trail of src/src/utilities/audit.c: protocol handler threads  *)
(* (the producers) put records into a fixed ring under trail->mutex, one   *)
(* flush thread takes them out and writes them to the log file, and main   *)
(* starts the trail (audit_init) and stops it (audit_shutdown).            *)
(*                                                                         *)
(* A critical section of trail->mutex that no other thread can see into is *)
(* one step.  The flush thread keeps the mutex over its whole drain loop,  *)
(* so that loop is a step per record with the mutex held in between.       *)
(* A record is its sequence number, its producer and the number of the     *)
(* producer's call: the other fields are copied and never looked at.       *)
(***************************************************************************)
EXTENDS Integers, Sequences, FiniteSets

CONSTANTS
  Producers,     \* the handler threads that call audit_record_event
  Capacity,      \* AUDIT_RING_BUFFER_SIZE
  WordMod,       \* 2^64, the modulus of size_t
  MaxEvents,     \* bound: calls of audit_record_event of one producer
  MaxClock       \* bound: seconds that pass

(* The ring is not empty, and its size divides the range of size_t: the    *)
(* code computes (head - count) % capacity in unsigned arithmetic, which   *)
(* is only the intended slot because 4096 divides 2^64.                    *)
ASSUME RingAssumption ==
  /\ Capacity \in Nat \ {0}
  /\ WordMod \in Nat
  /\ WordMod >= Capacity
  /\ WordMod % Capacity = 0

ASSUME BoundsAssumption ==
  /\ MaxEvents \in Nat
  /\ MaxClock \in Nat

VARIABLES
  ring,      \* trail->ring_buffer
  head,      \* trail->head, the slot of the next record
  count,     \* trail->count, the records not yet written
  nextSeq,   \* trail->next_sequence
  total,     \* trail->total_records
  dropped,   \* trail->dropped_records
  running,   \* trail->running
  logFile,   \* trail->current_log_file: NoFile, or the second in its name
  mutex,     \* trail->mutex: is it held by the flush thread?
  flushPc,   \* where the flush thread is
  mainPc,    \* where main is
  clock,     \* time(NULL)
  sent,      \* history: the calls of audit_record_event each producer made
  log,       \* history: the records in the log files, in the order written
  lost,      \* history: the records write_record failed to write
  marked,    \* history: total_records when audit_shutdown cleared running
  late       \* history: producers that called into the freed trail

ringVars == <<ring, head, count, nextSeq, total, dropped>>
fileVars == <<logFile, log, lost>>
vars == <<ring, head, count, nextSeq, total, dropped, running, logFile, mutex,
          flushPc, mainPc, clock, sent, log, lost, marked, late>>

NoFile == -1

Records == [seq : Nat, src : Producers, call : Nat]

(* What calloc leaves in a slot; sequence numbers start at 1. *)
Blank == [seq |-> 0]

Slots == 0 .. (Capacity - 1)

(* The states of main in which the trail exists: after audit_init returned *)
(* 0 and before audit_shutdown freed the ring.                             *)
Alive == {"serve", "join", "close", "free"}
----------------------------------------------------------------------------
(* Mutated forms of definitions of this module, for mutation testing only. *)
NewestSlot == ((head - 1) % WordMod) % Capacity
DropsUncounted == dropped
DrainAbandoned == IF running THEN "lock" ELSE "done"
SleepWhileRunning == running
SleepWhileEmpty == count = 0
JoinSkipped == TRUE
----------------------------------------------------------------------------
(* trail->count >= trail->capacity *)
Full == count >= Capacity

(* idx = (trail->head - trail->count) % trail->capacity, in size_t. *)
Oldest == ((head - count) % WordMod) % Capacity

(* trail->head = (trail->head + 1) % trail->capacity *)
NextHead == (head + 1) % Capacity

(* trail->dropped_records++ *)
OneMoreDropped == dropped + 1

(* while (trail->count == 0 && trail->running) *)
NothingToFlush == count = 0 /\ running

(* Where the flush thread goes from its unlocked test of trail->running:   *)
(* round the loop again, or to the last drain.                             *)
AfterLoopTest == IF running THEN "lock" ELSE "finalLock"

(* pthread_join(trail->flush_thread) returns once the thread has ended. *)
FlushThreadEnded == flushPc = "done"

(* What rotate_log_file can leave in trail->current_log_file: the file is  *)
(* named after the second, a file with that name stays open, any other is  *)
(* closed first, and then open and fdopen may fail.                        *)
RotateLogFile == IF logFile = clock THEN {logFile} ELSE {clock, NoFile}
----------------------------------------------------------------------------
Init ==
  /\ ring = [i \in Slots |-> Blank]
  /\ head = 0 /\ count = 0 /\ nextSeq = 0
  /\ total = 0 /\ dropped = 0
  /\ running = FALSE
  /\ logFile = NoFile
  /\ mutex = FALSE
  /\ flushPc = "none" /\ mainPc = "init"
  /\ clock = 0
  /\ sent = [p \in Producers |-> 0]
  /\ log = <<>> /\ lost = 0 /\ marked = 0 /\ late = {}

(* audit_init.  The directory, the ring, the first log file and the flush  *)
(* thread are set up in turn; when one fails, main gives up, and nobody    *)
(* looks at the trail again.                                               *)
AuditInit ==
  /\ mainPc = "init"
  /\ nextSeq' = 1
  /\ \/ /\ logFile' \in RotateLogFile \ {NoFile}
        /\ running' = TRUE
        /\ flushPc' = "check"
        /\ mainPc' = "serve"
     \/ /\ mainPc' = "failed"
        /\ UNCHANGED <<logFile, running, flushPc>>
  /\ UNCHANGED <<ring, head, count, total, dropped, mutex, clock, sent, log,
                 lost, marked, late>>

(* audit_record_event, called by producer p.  The signal to flush_cond     *)
(* changes nothing here: the flush thread's wait has a timeout, so that it *)
(* may wake at any time.                                                   *)
AuditRecordEvent(p) ==
  /\ mainPc \in Alive
  /\ ~mutex
  /\ sent[p] < MaxEvents
  /\ sent' = [sent EXCEPT ![p] = @ + 1]
  /\ IF Full
     THEN /\ dropped' = OneMoreDropped
          /\ UNCHANGED <<ring, head, count, nextSeq, total>>
     ELSE /\ ring' = [ring EXCEPT ![head] =
                        [seq |-> nextSeq, src |-> p, call |-> sent[p] + 1]]
          /\ nextSeq' = nextSeq + 1
          /\ head' = NextHead
          /\ count' = count + 1
          /\ total' = total + 1
          /\ UNCHANGED dropped
  /\ UNCHANGED <<running, fileVars, mutex, flushPc, mainPc, clock, marked, late>>

(* The same call once audit_shutdown has freed the ring and destroyed the  *)
(* mutex: handler threads are detached and nobody waits for them.          *)
AuditRecordAfterFree(p) ==
  /\ mainPc = "freed"
  /\ sent[p] < MaxEvents
  /\ sent' = [sent EXCEPT ![p] = @ + 1]
  /\ late' = late \cup {p}
  /\ UNCHANGED <<ringVars, running, fileVars, mutex, flushPc, mainPc, clock, marked>>
----------------------------------------------------------------------------
(* write_record.  A record is gone, and nobody is told, when the file      *)
(* cannot be reopened or when fprintf or fflush fails.                     *)
WriteRecord(rec) ==
  \E f \in (IF logFile = NoFile THEN RotateLogFile ELSE {logFile}), ok \in BOOLEAN :
    /\ logFile' = f
    /\ IF ok /\ f # NoFile
       THEN log' = Append(log, rec) /\ lost' = lost
       ELSE log' = log /\ lost' = lost + 1

(* flush_thread_func, one action for each place where another thread can   *)
(* get in or the loop can turn.                                            *)
FlushTest ==
  /\ flushPc = "check"
  /\ flushPc' = AfterLoopTest
  /\ UNCHANGED <<ringVars, running, fileVars, mutex, mainPc, clock, sent, marked, late>>

FlushLock ==
  /\ ~mutex
  /\ \/ flushPc = "lock" /\ flushPc' = "test"
     \/ flushPc = "finalLock" /\ flushPc' = "finalDrain"
  /\ mutex' = TRUE
  /\ UNCHANGED <<ringVars, running, fileVars, mainPc, clock, sent, marked, late>>

FlushSleep ==
  /\ flushPc = "test"
  /\ NothingToFlush
  /\ flushPc' = "wait"
  /\ mutex' = FALSE
  /\ UNCHANGED <<ringVars, running, fileVars, mainPc, clock, sent, marked, late>>

(* The wait ends by a signal, by its timeout or for no reason. *)
FlushWake ==
  /\ flushPc = "wait"
  /\ ~mutex
  /\ flushPc' = "test"
  /\ mutex' = TRUE
  /\ UNCHANGED <<ringVars, running, fileVars, mainPc, clock, sent, marked, late>>

FlushStart ==
  /\ flushPc = "test"
  /\ ~NothingToFlush
  /\ flushPc' = "drain"
  /\ UNCHANGED <<ringVars, running, fileVars, mutex, mainPc, clock, sent, marked, late>>

FlushOne ==
  /\ flushPc \in {"drain", "finalDrain"}
  /\ count > 0
  /\ WriteRecord(ring[Oldest])
  /\ count' = count - 1
  /\ UNCHANGED <<ring, head, nextSeq, total, dropped, running, mutex, flushPc,
                 mainPc, clock, sent, marked, late>>

FlushUnlock ==
  /\ count = 0
  /\ \/ flushPc = "drain" /\ flushPc' = "check"
     \/ flushPc = "finalDrain" /\ flushPc' = "done"
  /\ mutex' = FALSE
  /\ UNCHANGED <<ringVars, running, fileVars, mainPc, clock, sent, marked, late>>

FlushThread ==
  FlushTest \/ FlushLock \/ FlushSleep \/ FlushWake \/ FlushStart \/ FlushOne \/ FlushUnlock
----------------------------------------------------------------------------
(* audit_shutdown: clear running under the mutex, join the flush thread,   *)
(* close the log file, free the ring and destroy the mutex.                *)
ShutdownRequest ==
  /\ mainPc = "serve"
  /\ ~mutex
  /\ running' = FALSE
  /\ marked' = total
  /\ mainPc' = "join"
  /\ UNCHANGED <<ringVars, fileVars, mutex, flushPc, clock, sent, late>>

ShutdownJoin ==
  /\ mainPc = "join"
  /\ FlushThreadEnded
  /\ mainPc' = "close"
  /\ UNCHANGED <<ringVars, running, fileVars, mutex, flushPc, clock, sent, marked, late>>

ShutdownClose ==
  /\ mainPc = "close"
  /\ logFile' = NoFile
  /\ mainPc' = "free"
  /\ UNCHANGED <<ringVars, running, log, lost, mutex, flushPc, clock,
                 sent, marked, late>>

ShutdownFree ==
  /\ mainPc = "free"
  /\ mainPc' = "freed"
  /\ UNCHANGED <<ringVars, running, fileVars, mutex, flushPc, clock, sent, marked, late>>

Tick ==
  /\ clock < MaxClock
  /\ clock' = clock + 1
  /\ UNCHANGED <<ringVars, running, fileVars, mutex, flushPc, mainPc, sent, marked, late>>

(* The process ends with main. *)
Ended == mainPc \in {"failed", "freed"} /\ UNCHANGED vars

Next ==
  \/ AuditInit
  \/ \E p \in Producers : AuditRecordEvent(p) \/ AuditRecordAfterFree(p)
  \/ FlushThread
  \/ ShutdownRequest \/ ShutdownJoin \/ ShutdownClose \/ ShutdownFree
  \/ Tick
  \/ Ended

Spec == Init /\ [][Next]_vars

(* The flush thread is scheduled, and main carries a shutdown it began to  *)
(* its end.  Nothing makes main begin one or makes a producer call.        *)
FairSpec ==
  /\ Spec
  /\ WF_vars(FlushThread)
  /\ WF_vars(ShutdownJoin) /\ WF_vars(ShutdownClose) /\ WF_vars(ShutdownFree)
----------------------------------------------------------------------------
(* The j-th newest slot of the ring, without the wrap of size_t. *)
Back(j) == IF head >= j THEN head - j ELSE head - j + Capacity

(* The records audit_record_event accepted and nobody has written yet,     *)
(* the oldest first.                                                       *)
Pending == [i \in 1 .. count |-> ring[Back(count - i + 1)]]

(* The trail seen as the bounded FIFO of AuditSpec. *)
Abstract == INSTANCE AuditSpec WITH
  Calls <- 1 .. MaxEvents,
  queue <- Pending, out <- log, accepted <- total, refused <- dropped

TypeOK ==
  /\ ring \in [Slots -> Records \cup {Blank}]
  /\ head \in Slots
  /\ count \in 0 .. Capacity
  /\ nextSeq \in Nat /\ total \in Nat /\ dropped \in Nat
  /\ running \in BOOLEAN
  /\ logFile \in Nat \cup {NoFile}
  /\ mutex \in BOOLEAN
  /\ flushPc \in {"none", "check", "lock", "test", "wait", "drain",
                  "finalLock", "finalDrain", "done"}
  /\ mainPc \in {"init", "failed", "freed"} \cup Alive
  /\ clock \in Nat
  /\ sent \in [Producers -> Nat]
  /\ log \in Seq(Records)
  /\ lost \in Nat /\ marked \in Nat
  /\ late \in SUBSET Producers

(* The ring holds the accepted records and nothing else: the j-th newest   *)
(* slot has the j-th highest sequence number given out, whatever the order *)
(* of producers and drains, and also when head has wrapped past count.     *)
RingHoldsPending ==
  \A j \in 1 .. count : ring[Back(j)] # Blank /\ ring[Back(j)].seq = nextSeq - j

(* The flush thread always reads the slot of the oldest record: the        *)
(* unsigned (head - count) % capacity is that slot.                        *)
ReadsOldest == count > 0 => Oldest = Back(count)

(* The log has the records in the order of their sequence numbers, each    *)
(* once, and the events of one handler thread in the order it made them.   *)
LogInOrder ==
  \A i, j \in DOMAIN log : i < j =>
    /\ log[i].seq < log[j].seq
    /\ log[i].src = log[j].src => log[i].call < log[j].call

(* total_records, the numbering and the log agree: a record accepted is    *)
(* in the ring, in the log, or was lost by a failed write; a dropped one   *)
(* takes no number.                                                        *)
Conserved ==
  mainPc \in Alive \cup {"freed"} =>
    /\ total = Len(log) + lost + count
    /\ nextSeq = total + 1

(* The calls of audit_record_event, by producer and number. *)
Calls == UNION {{<<p, n>> : n \in 1 .. sent[p]} : p \in Producers}

(* dropped_records counts every event that was not accepted: every call a  *)
(* producer made is accepted, counted as dropped, or came after the trail  *)
(* was freed.                                                              *)
CallsAccounted == late = {} => Cardinality(Calls) = total + dropped

(* audit_shutdown writes out every record accepted before it cleared       *)
(* running, however producers and the flush thread interleave with it.     *)
ShutdownDrains == flushPc = "done" => Len(log) + lost >= marked

(* audit_shutdown closes the log file only when the flush thread has       *)
(* ended: the thread never finds it closed, in its last drain either.      *)
FileOpenForFlush ==
  flushPc \notin {"none", "done"} => logFile # NoFile

----------------------------------------------------------------------------
(* The inductive invariant behind the safety properties above.             *)

(* How the places of main and of the flush thread constrain each other:    *)
(* running is main's, the flush thread only leaves its loop after it was   *)
(* cleared, and main only closes the file after the thread has ended.      *)
Phases ==
  /\ mainPc = "init" => count = 0 /\ total = 0 /\ log = <<>> /\ lost = 0
                      /\ logFile = NoFile
  /\ running <=> mainPc = "serve"
  /\ flushPc = "none" <=> mainPc \in {"init", "failed"}
  /\ flushPc \in {"finalLock", "finalDrain", "done"} => ~running
  /\ mainPc \in {"close", "free", "freed"} => flushPc = "done"
  /\ mainPc \in {"serve", "join"} => logFile # NoFile

(* The next number is that of the next record to be accepted. *)
Numbered ==
  mainPc # "init" => total = Len(log) + lost + count /\ nextSeq = total + 1

MarkedDrained ==
  /\ marked <= total
  /\ flushPc = "done" => Len(log) + lost >= marked

(* What is in the log was numbered before what is in the ring, and each    *)
(* producer's calls are in order over log, ring and the calls to come.     *)
AcceptedInOrder ==
  /\ \A i \in DOMAIN log :
       /\ log[i].seq < nextSeq - count
       /\ log[i].call <= sent[log[i].src]
       /\ \A j \in 1 .. count :
            log[i].src = ring[Back(j)].src => log[i].call < ring[Back(j)].call
  /\ \A j \in 1 .. count :
       /\ ring[Back(j)].call <= sent[ring[Back(j)].src]
       /\ \A k \in 1 .. count :
            j > k /\ ring[Back(j)].src = ring[Back(k)].src
              => ring[Back(j)].call < ring[Back(k)].call

IInv ==
  /\ TypeOK
  /\ RingHoldsPending
  /\ Phases
  /\ Numbered
  /\ MarkedDrained
  /\ AcceptedInOrder
  /\ LogInOrder
----------------------------------------------------------------------------
(* A record accepted before the shutdown is eventually written or lost by  *)
(* a failed write; it is not left in the ring.                             *)
AcceptedIsWritten ==
  \A n \in 1 .. (MaxEvents * Cardinality(Producers)) :
    (running /\ total >= n) ~> (Len(log) + lost >= n)

(* The trail implements its abstract specification: nothing it accepted is *)
(* reordered, duplicated or overwritten, and it refuses a record only when *)
(* Capacity records wait.                                                  *)
ImplementsFifo == Abstract!Spec

(* A shutdown that began ends, also while producers go on calling.         *)
ShutdownEnds == (mainPc = "join") ~> (mainPc = "freed")
=============================================================================
