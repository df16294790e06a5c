-------------------------- MODULE AuditTrail_proof --------------------------
(***************************************************************************)
(* Proofs about AuditTrail, for every ring size that divides the range of  *)
(* size_t, every set of producers and every number of events.              *)
(***************************************************************************)
EXTENDS AuditTrail, FiniteSetTheorems, TLAPS

-----------------------------------------------------------------------------
(* The arithmetic of the ring.                                             *)

(* All that most proofs need of the ring size.                             *)
LEMMA CapacityPositive == Capacity \in Nat \ {0}
BY RingAssumption

(* Adding a multiple of the divisor does not change the remainder.         *)
LEMMA RemainderOfSum ==
  ASSUME NEW C \in Nat \ {0}, NEW r \in 0 .. (C - 1), NEW k \in Int
  PROVE  (k * C + r) % C = r
OBVIOUS

(* trail->head = (trail->head + 1) % trail->capacity, without the modulus. *)
LEMMA NextHeadValue ==
  ASSUME head \in Slots
  PROVE  NextHead = IF head + 1 = Capacity THEN 0 ELSE head + 1
BY RingAssumption DEF NextHead, Slots

(* The unsigned subtraction of flush_thread_func wraps to the right slot   *)
(* because the ring size divides the range of size_t.                      *)
LEMMA OldestValue ==
  ASSUME head \in Slots, count \in 1 .. Capacity
  PROVE  Oldest = Back(count)
<1>1. CASE head >= count
  BY <1>1, RingAssumption DEF Oldest, Back, Slots
<1>2. CASE head < count
  <2>1. (head - count) % WordMod = head - count + WordMod
    BY <1>2, RingAssumption DEF Slots
  <2>2. PICK k \in Int : WordMod = k * Capacity
    BY RingAssumption
  <2>3. head - count + WordMod = (k - 1) * Capacity + (head - count + Capacity)
    BY <2>2, RingAssumption DEF Slots
  <2>4. head - count + Capacity \in Slots
    BY <1>2, RingAssumption DEF Slots
  <2>5. ((k - 1) * Capacity + (head - count + Capacity)) % Capacity = head - count + Capacity
    <3>1. k - 1 \in Int
      OBVIOUS
    <3>. QED
      BY <2>4, <3>1, RemainderOfSum, RingAssumption DEF Slots
  <2>. QED
    BY <1>2, <2>1, <2>3, <2>5, RingAssumption DEF Oldest, Back, Slots
<1>. QED
  BY <1>1, <1>2, RingAssumption DEF Slots
-----------------------------------------------------------------------------
(* What the two steps that touch the ring do, in the form the proofs use.  *)

(* audit_record_event either drops the event or puts it in the newest slot *)
(* with the next sequence number.                                          *)
RecordEffects(p) ==
  /\ UNCHANGED <<running, mutex, flushPc, mainPc, clock, marked, late,
                 logFile, log, lost>>
  /\ mainPc \in Alive
  /\ sent[p] < MaxEvents
  /\ sent' = [sent EXCEPT ![p] = @ + 1]
  /\ \/ /\ count = Capacity
        /\ dropped' = dropped + 1
        /\ UNCHANGED <<ring, head, count, nextSeq, total>>
     \/ /\ count < Capacity
        /\ ring' = [ring EXCEPT ![head] =
                      [seq |-> nextSeq, src |-> p, call |-> sent[p] + 1]]
        /\ head' = IF head + 1 = Capacity THEN 0 ELSE head + 1
        /\ count' = count + 1
        /\ nextSeq' = nextSeq + 1
        /\ total' = total + 1
        /\ dropped' = dropped

(* audit_record_event does one of the two.                                 *)
LEMMA RecordEffect ==
  ASSUME TypeOK, NEW p \in Producers, AuditRecordEvent(p)
  PROVE  RecordEffects(p)
<1> USE DEF TypeOK, RecordEffects
<1>1. /\ UNCHANGED <<running, mutex, flushPc, mainPc, clock, marked, late,
                     logFile, log, lost>>
      /\ mainPc \in Alive
      /\ sent[p] < MaxEvents
      /\ sent' = [sent EXCEPT ![p] = @ + 1]
  BY DEF AuditRecordEvent, fileVars
<1>2. CASE count >= Capacity
  <2>1. dropped' = dropped + 1 /\ UNCHANGED <<ring, head, count, nextSeq, total>>
    BY <1>2 DEF AuditRecordEvent, OneMoreDropped, Full
  <2>2. count = Capacity
    BY <1>2, CapacityPositive
  <2>. QED
    BY <1>1, <2>1, <2>2
<1>3. CASE ~(count >= Capacity)
  <2>1. /\ ring' = [ring EXCEPT ![head] =
                      [seq |-> nextSeq, src |-> p, call |-> sent[p] + 1]]
        /\ head' = NextHead /\ count' = count + 1 /\ nextSeq' = nextSeq + 1
        /\ total' = total + 1 /\ dropped' = dropped
    BY <1>3 DEF AuditRecordEvent, Full
  <2>2. count < Capacity
    BY <1>3, CapacityPositive
  <2>3. head' = IF head + 1 = Capacity THEN 0 ELSE head + 1
    BY <2>1, NextHeadValue
  <2>. QED
    BY <1>1, <2>1, <2>2, <2>3
<1>. QED
  BY <1>2, <1>3

(* Either way head stays in the ring, and count within its size.           *)
LEMMA RecordStaysInRing ==
  ASSUME TypeOK, NEW p \in Producers, RecordEffects(p)
  PROVE  head' \in Slots /\ count' \in 0 .. Capacity
<1>1. head \in Slots /\ count \in 0 .. Capacity
  BY DEF TypeOK
<1>2. CASE head' = head /\ count' = count
  BY <1>1, <1>2
<1>3. CASE /\ count < Capacity /\ count' = count + 1
           /\ head' = IF head + 1 = Capacity THEN 0 ELSE head + 1
  BY <1>1, <1>3, CapacityPositive DEF Slots
<1>. QED
  BY <1>2, <1>3 DEF RecordEffects

(* The slots hold records, or what calloc left in them.                    *)
LEMMA RecordKeepsRing ==
  ASSUME TypeOK, NEW p \in Producers, RecordEffects(p)
  PROVE  ring' \in [Slots -> Records \cup {Blank}]
<1>1. ring \in [Slots -> Records \cup {Blank}]
  BY DEF TypeOK
<1> DEFINE rec == [seq |-> nextSeq, src |-> p, call |-> sent[p] + 1]
<1>2. rec \in Records
  BY DEF TypeOK, Records
<1> HIDE DEF rec
<1>3. CASE ring' = ring
  BY <1>1, <1>3
<1>4. CASE ring' = [ring EXCEPT ![head] = rec]
  BY <1>1, <1>2, <1>4
<1>. QED
  BY <1>3, <1>4 DEF RecordEffects, rec

(* audit_record_event keeps every field well typed.                        *)
LEMMA RecordTypes ==
  ASSUME TypeOK, NEW p \in Producers, RecordEffects(p)
  PROVE  TypeOK'
<1>1. sent' \in [Producers -> Nat]
  BY DEF TypeOK, RecordEffects
<1>2. nextSeq' \in Nat /\ total' \in Nat /\ dropped' \in Nat
  <2>1. nextSeq \in Nat /\ total \in Nat /\ dropped \in Nat
    BY DEF TypeOK
  <2>2. CASE nextSeq' = nextSeq /\ total' = total /\ dropped' = dropped + 1
    BY <2>1, <2>2
  <2>3. CASE nextSeq' = nextSeq + 1 /\ total' = total + 1 /\ dropped' = dropped
    BY <2>1, <2>3
  <2>. QED
    BY <2>2, <2>3 DEF RecordEffects
<1>3. UNCHANGED <<running, mutex, flushPc, mainPc, clock, marked, late, logFile, log, lost>>
  BY DEF RecordEffects
<1>. QED
  BY <1>1, <1>2, <1>3, RecordStaysInRing, RecordKeepsRing DEF TypeOK

(* A turn of the drain loop takes the oldest record; it ends up in the log *)
(* or is lost, and an open file stays open.                                *)
FlushOneEffects ==
  /\ UNCHANGED <<ring, head, nextSeq, total, dropped, running, mutex,
                 flushPc, mainPc, clock, sent, marked, late>>
  /\ flushPc \in {"drain", "finalDrain"}
  /\ count > 0 /\ count' = count - 1
  /\ Back(count) \in Slots /\ ring[Back(count)] \in Records
  /\ logFile' \in Nat \cup {NoFile}
  /\ logFile # NoFile => logFile' = logFile
  /\ \/ log' = Append(log, ring[Back(count)]) /\ lost' = lost
     \/ log' = log /\ lost' = lost + 1

(* One turn of the drain loop does that.                                   *)
LEMMA FlushOneEffect ==
  ASSUME TypeOK, RingHoldsPending, FlushOne
  PROVE  FlushOneEffects
<1> USE DEF TypeOK, FlushOneEffects
<1>1. /\ UNCHANGED <<ring, head, nextSeq, total, dropped, running, mutex,
                     flushPc, mainPc, clock, sent, marked, late>>
      /\ flushPc \in {"drain", "finalDrain"}
      /\ count > 0 /\ count' = count - 1
      /\ WriteRecord(ring[Oldest])
  BY DEF FlushOne
<1>2. count \in 1 .. Capacity
  BY <1>1, CapacityPositive
<1>3. Oldest = Back(count)
  BY <1>2, OldestValue
<1>4. Back(count) \in Slots
  BY <1>2, CapacityPositive DEF Back, Slots
<1>5. ring[Back(count)] \in Records
  BY <1>2, <1>4 DEF RingHoldsPending
<1>6. PICK f \in (IF logFile = NoFile THEN RotateLogFile ELSE {logFile}), ok \in BOOLEAN :
        /\ logFile' = f
        /\ IF ok /\ f # NoFile
           THEN log' = Append(log, ring[Back(count)]) /\ lost' = lost
           ELSE log' = log /\ lost' = lost + 1
  BY <1>1, <1>3 DEF WriteRecord
<1>7. f \in Nat \cup {NoFile}
  BY DEF RotateLogFile
<1>8. logFile # NoFile => logFile' = logFile
  BY <1>6
<1>9. CASE ok /\ f # NoFile
  <2>1. log' = Append(log, ring[Back(count)]) /\ lost' = lost
    BY <1>6, <1>9
  <2>. QED
    BY <1>1, <1>4, <1>5, <1>6, <1>7, <1>8, <2>1
<1>10. CASE ~(ok /\ f # NoFile)
  BY <1>1, <1>4, <1>5, <1>6, <1>7, <1>8, <1>10
<1>. QED
  BY <1>9, <1>10
-----------------------------------------------------------------------------
(* The state stays well typed; in particular head stays in the ring and    *)
(* count never passes its capacity.                                        *)
LEMMA TypeStep == TypeOK /\ RingHoldsPending /\ [Next]_vars => TypeOK'
<1> SUFFICES ASSUME TypeOK, RingHoldsPending, [Next]_vars
             PROVE  TypeOK'
  OBVIOUS
<1> USE CapacityPositive, BoundsAssumption DEF TypeOK, Slots, Records, Blank, NoFile, Alive
<1>1. CASE AuditInit
  BY <1>1 DEF AuditInit, RotateLogFile
<1>2. ASSUME NEW p \in Producers, AuditRecordEvent(p)
      PROVE  TypeOK'
  BY <1>2, RecordEffect, RecordTypes
<1>3. ASSUME NEW p \in Producers, AuditRecordAfterFree(p)
      PROVE  TypeOK'
  BY <1>3 DEF AuditRecordAfterFree, ringVars, fileVars
<1>4. CASE FlushTest
  BY <1>4 DEF FlushTest, AfterLoopTest, ringVars, fileVars
<1>5. CASE FlushLock
  BY <1>5 DEF FlushLock, ringVars, fileVars
<1>6. CASE FlushSleep
  BY <1>6 DEF FlushSleep, ringVars, fileVars
<1>7. CASE FlushWake
  BY <1>7 DEF FlushWake, ringVars, fileVars
<1>8. CASE FlushStart
  BY <1>8 DEF FlushStart, ringVars, fileVars
<1>9. CASE FlushUnlock
  BY <1>9 DEF FlushUnlock, ringVars, fileVars
<1>10. CASE ShutdownRequest
  BY <1>10 DEF ShutdownRequest, ringVars, fileVars
<1>11. CASE ShutdownJoin
  BY <1>11 DEF ShutdownJoin, ringVars, fileVars
<1>12. CASE ShutdownClose
  BY <1>12 DEF ShutdownClose, ringVars
<1>13. CASE ShutdownFree
  BY <1>13 DEF ShutdownFree, ringVars, fileVars
<1>14. CASE Tick
  BY <1>14 DEF Tick, ringVars, fileVars
<1>15. CASE UNCHANGED vars
  BY <1>15 DEF vars
<1>16. CASE FlushOne
  <2>0. FlushOneEffects
    BY <1>16, FlushOneEffect
  <2>1. log' \in Seq(Records) /\ lost' \in Nat /\ count' \in 0 .. Capacity
    <3>1. CASE log' = Append(log, ring[Back(count)]) /\ lost' = lost
      BY <2>0, <3>1 DEF FlushOneEffects
    <3>2. CASE log' = log /\ lost' = lost + 1
      BY <2>0, <3>2 DEF FlushOneEffects
    <3>. QED
      BY <2>0, <3>1, <3>2 DEF FlushOneEffects
  <2>. QED
    BY <2>0, <2>1 DEF FlushOneEffects
<1>. QED
  BY <1>16, <1>1, <1>2, <1>3, <1>4, <1>5, <1>6, <1>7, <1>8, <1>9, <1>10, <1>11,
     <1>12, <1>13, <1>14, <1>15 DEF Next, FlushThread, Ended
-----------------------------------------------------------------------------
(* The other steps leave the ring, the log and the counts alone.           *)
Quiet ==
  /\ UNCHANGED <<ring, head, count, nextSeq, total, log, lost>>
  /\ \A p \in Producers : sent'[p] >= sent[p]
  /\ mainPc = "init" => mainPc' = "init"

(* Every step records an event, writes one, or leaves the ring alone.      *)
LEMMA StepKinds ==
  ASSUME TypeOK, [Next]_vars
  PROVE  \/ AuditInit
         \/ \E p \in Producers : AuditRecordEvent(p)
         \/ FlushOne
         \/ Quiet
<1>1. ASSUME NEW p \in Producers, AuditRecordAfterFree(p)
      PROVE  Quiet
  BY <1>1 DEF AuditRecordAfterFree, Quiet, ringVars, fileVars, TypeOK
<1>2. UNCHANGED <<ringVars, log, lost, sent>> /\ (mainPc = "init" => mainPc' = "init") => Quiet
  BY DEF Quiet, ringVars, TypeOK
<1>. QED
  BY <1>1, <1>2
     DEF Next, FlushThread, Ended, vars, ringVars, fileVars, FlushTest, FlushLock,
         FlushSleep, FlushWake, FlushStart, FlushUnlock, ShutdownRequest,
         ShutdownJoin, ShutdownClose, ShutdownFree, Tick

(* Pushing a record turns the j-th newest slot into the (j+1)-th newest,   *)
(* and the slot pushed into is none of the occupied ones.                  *)
LEMMA BackAfterPush ==
  ASSUME TypeOK, head' = (IF head + 1 = Capacity THEN 0 ELSE head + 1)
  PROVE  /\ Back(1)' = head
         /\ \A j \in 1 .. (Capacity - 1) :
              Back(j) \in Slots /\ Back(j) # head /\ Back(j + 1)' = Back(j)
BY CapacityPositive DEF TypeOK, Slots, Back

(* The ring goes on holding exactly the pending records.                   *)
LEMMA RingStep == TypeOK /\ RingHoldsPending /\ Phases /\ [Next]_vars => RingHoldsPending'
<1> SUFFICES ASSUME TypeOK, RingHoldsPending, Phases, [Next]_vars
             PROVE  RingHoldsPending'
  OBVIOUS
<1>1. CASE AuditInit
  BY <1>1 DEF AuditInit, RingHoldsPending, Phases, Back
<1>2. ASSUME NEW p \in Producers, AuditRecordEvent(p)
      PROVE  RingHoldsPending'
  <2>0. RecordEffects(p)
    BY <1>2, RecordEffect
  <2>1. CASE UNCHANGED <<ring, head, count, nextSeq>>
    BY <2>1 DEF RingHoldsPending, Back
  <2>2. CASE ~UNCHANGED <<ring, head, count, nextSeq>>
    <3>1. /\ count < Capacity
          /\ ring' = [ring EXCEPT ![head] =
                        [seq |-> nextSeq, src |-> p, call |-> sent[p] + 1]]
          /\ head' = IF head + 1 = Capacity THEN 0 ELSE head + 1
          /\ count' = count + 1
          /\ nextSeq' = nextSeq + 1
      BY <2>0, <2>2 DEF RecordEffects
    <3>2. /\ Back(1)' = head
          /\ \A j \in 1 .. (Capacity - 1) :
               Back(j) \in Slots /\ Back(j) # head /\ Back(j + 1)' = Back(j)
      BY <3>1, BackAfterPush
    <3>3. SUFFICES ASSUME NEW j \in 1 .. count'
                   PROVE  ring'[Back(j)'] # Blank /\ ring'[Back(j)'].seq = nextSeq' - j
      BY DEF RingHoldsPending
    <3>4. CASE j = 1
      <4>1. ring'[Back(j)'] = [seq |-> nextSeq, src |-> p, call |-> sent[p] + 1]
        <5>1. ring \in [Slots -> Records \cup {Blank}] /\ head \in Slots
          BY DEF TypeOK
        <5>. QED
          BY <3>1, <3>2, <3>4, <5>1
      <4>2. nextSeq \in Nat
        BY DEF TypeOK
      <4>. QED
        BY <3>1, <3>4, <4>1, <4>2 DEF Blank
    <3>5. CASE j # 1
      <4>1. j - 1 \in 1 .. count /\ j - 1 \in 1 .. (Capacity - 1)
        BY <3>1, <3>3, <3>5, CapacityPositive DEF TypeOK
      <4>2. Back(j)' = Back(j - 1) /\ Back(j - 1) # head /\ Back(j - 1) \in Slots
        BY <3>2, <4>1
      <4>3. ring[Back(j - 1)] # Blank /\ ring[Back(j - 1)].seq = nextSeq - (j - 1)
        BY <4>1 DEF RingHoldsPending
      <4>4. ring'[Back(j)'] = ring[Back(j - 1)]
        BY <3>1, <4>2 DEF TypeOK
      <4>. QED
        BY <3>1, <4>1, <4>3, <4>4 DEF TypeOK
    <3>. QED
      BY <3>4, <3>5
  <2>. QED
    BY <2>1, <2>2
<1>3. CASE FlushOne
  <2>1. FlushOneEffects
    BY <1>3, FlushOneEffect
  <2>. QED
    BY <2>1 DEF FlushOneEffects, RingHoldsPending, Back, TypeOK
<1>4. CASE Quiet
  BY <1>4 DEF Quiet, RingHoldsPending, Back
<1>. QED
  BY <1>1, <1>2, <1>3, <1>4, StepKinds
-----------------------------------------------------------------------------
(* main and the flush thread keep to their phases.                         *)
LEMMA PhasesStep == TypeOK /\ RingHoldsPending /\ Phases /\ [Next]_vars => Phases'
<1> SUFFICES ASSUME TypeOK, RingHoldsPending, Phases, [Next]_vars
             PROVE  Phases'
  OBVIOUS
<1> USE DEF Phases, NoFile
<1>1. CASE AuditInit
  BY <1>1 DEF AuditInit, RotateLogFile, TypeOK
<1>2. ASSUME NEW p \in Producers, AuditRecordEvent(p)
      PROVE  Phases'
  <2>1. RecordEffects(p)
    BY <1>2, RecordEffect
  <2>. QED
    BY <2>1 DEF RecordEffects, Alive
<1>3. CASE FlushOne
  <2>1. FlushOneEffects
    BY <1>3, FlushOneEffect
  <2>. QED
    BY <2>1 DEF FlushOneEffects
<1>4. ASSUME NEW p \in Producers, AuditRecordAfterFree(p)
      PROVE  Phases'
  BY <1>4 DEF AuditRecordAfterFree, ringVars, fileVars
<1>5. CASE FlushTest
  BY <1>5 DEF FlushTest, AfterLoopTest, ringVars, fileVars
<1>6. CASE FlushLock
  BY <1>6 DEF FlushLock, ringVars, fileVars
<1>7. CASE FlushSleep
  BY <1>7 DEF FlushSleep, ringVars, fileVars
<1>8. CASE FlushWake
  BY <1>8 DEF FlushWake, ringVars, fileVars
<1>9. CASE FlushStart
  BY <1>9 DEF FlushStart, ringVars, fileVars
<1>10. CASE FlushUnlock
  BY <1>10 DEF FlushUnlock, ringVars, fileVars
<1>11. CASE ShutdownRequest
  BY <1>11 DEF ShutdownRequest, ringVars, fileVars
<1>12. CASE ShutdownJoin
  BY <1>12 DEF ShutdownJoin, FlushThreadEnded, ringVars, fileVars
<1>13. CASE ShutdownClose
  BY <1>13 DEF ShutdownClose, ringVars
<1>14. CASE ShutdownFree
  BY <1>14 DEF ShutdownFree, ringVars, fileVars
<1>15. CASE Tick
  BY <1>15 DEF Tick, ringVars, fileVars
<1>16. CASE UNCHANGED vars
  BY <1>16 DEF vars
<1>. QED
  BY <1>1, <1>2, <1>3, <1>4, <1>5, <1>6, <1>7, <1>8, <1>9, <1>10, <1>11,
     <1>12, <1>13, <1>14, <1>15, <1>16 DEF Next, FlushThread, Ended

(* Numbers, counters and the log keep agreeing.                            *)
LEMMA NumberedStep ==
  TypeOK /\ RingHoldsPending /\ Phases /\ Numbered /\ [Next]_vars => Numbered'
<1> SUFFICES ASSUME TypeOK, RingHoldsPending, Phases, Numbered, [Next]_vars
             PROVE  Numbered'
  OBVIOUS
<1>1. CASE AuditInit
  BY <1>1 DEF AuditInit, Numbered, Phases
<1>2. ASSUME NEW p \in Producers, AuditRecordEvent(p)
      PROVE  Numbered'
  <2>1. RecordEffects(p)
    BY <1>2, RecordEffect
  <2>. QED
    BY <2>1 DEF RecordEffects, Numbered, TypeOK
<1>3. CASE FlushOne
  <2>1. FlushOneEffects
    BY <1>3, FlushOneEffect
  <2>2. \/ Len(log') = Len(log) + 1 /\ lost' = lost
        \/ Len(log') = Len(log) /\ lost' = lost + 1
    BY <2>1 DEF FlushOneEffects, TypeOK
  <2>. QED
    <3>1. /\ count' = count - 1 /\ total' = total /\ nextSeq' = nextSeq /\ mainPc' = mainPc
          /\ count \in Int /\ lost \in Int /\ Len(log) \in Int
      BY <2>1 DEF FlushOneEffects, TypeOK
    <3>. QED
      BY <2>2, <3>1 DEF Numbered
<1>4. CASE Quiet
  BY <1>4 DEF Quiet, Numbered
<1>. QED
  BY <1>1, <1>2, <1>3, <1>4, StepKinds

(* Once the flush thread has ended, the records accepted before running    *)
(* was cleared are out of the ring.                                        *)
LEMMA MarkedStep ==
  TypeOK /\ RingHoldsPending /\ Phases /\ Numbered /\ MarkedDrained /\ [Next]_vars
    => MarkedDrained'
<1> SUFFICES ASSUME TypeOK, RingHoldsPending, Phases, Numbered, MarkedDrained, [Next]_vars
             PROVE  MarkedDrained'
  OBVIOUS
<1> USE DEF MarkedDrained, TypeOK
<1>1. CASE AuditInit
  BY <1>1 DEF AuditInit
<1>2. ASSUME NEW p \in Producers, AuditRecordEvent(p)
      PROVE  MarkedDrained'
  <2>1. RecordEffects(p)
    BY <1>2, RecordEffect
  <2>. QED
    BY <2>1 DEF RecordEffects
<1>3. CASE FlushOne
  <2>1. FlushOneEffects
    BY <1>3, FlushOneEffect
  <2>. QED
    BY <2>1 DEF FlushOneEffects
<1>4. CASE FlushUnlock
  <2>1. mainPc # "init" /\ count = 0
    BY <1>4 DEF FlushUnlock, Phases
  <2>2. Len(log) + lost = total
    BY <2>1 DEF Numbered
  <2>. QED
    BY <1>4, <2>2 DEF FlushUnlock, ringVars, fileVars
<1>5. CASE ShutdownRequest
  BY <1>5 DEF ShutdownRequest, Phases, ringVars, fileVars
<1>6. CASE /\ UNCHANGED <<total, marked, log, lost>>
           /\ flushPc' = "done" => flushPc = "done"
  BY <1>6
<1>. QED
  BY <1>1, <1>2, <1>3, <1>4, <1>5, <1>6
     DEF Next, FlushThread, Ended, vars, ringVars, fileVars, AuditRecordAfterFree,
         FlushTest, AfterLoopTest, FlushLock, FlushSleep, FlushWake, FlushStart,
         ShutdownJoin, ShutdownClose, ShutdownFree, Tick
-----------------------------------------------------------------------------
(* Records in the log and in the ring are records, not blank slots.        *)
LEMMA RecordsEverywhere ==
  ASSUME TypeOK, RingHoldsPending
  PROVE  /\ \A j \in 1 .. count :
              /\ Back(j) \in Slots
              /\ ring[Back(j)] \in Records
              /\ ring[Back(j)].call \in Nat /\ ring[Back(j)].src \in Producers
         /\ \A i \in DOMAIN log :
              /\ log[i] \in Records
              /\ log[i].seq \in Nat /\ log[i].call \in Nat /\ log[i].src \in Producers
<1>1. \A j \in 1 .. count : Back(j) \in Slots /\ ring[Back(j)] \in Records
  BY CapacityPositive DEF TypeOK, RingHoldsPending, Back, Slots
<1>2. \A i \in DOMAIN log : log[i] \in Records
  BY DEF TypeOK
<1>. QED
  BY <1>1, <1>2 DEF Records

(* A step that at most counts a call keeps the order.                      *)
LEMMA OrderKept ==
  ASSUME TypeOK, RingHoldsPending, AcceptedInOrder, LogInOrder,
         UNCHANGED <<ring, head, count, nextSeq, log>>,
         \A q \in Producers : sent'[q] \in Nat /\ sent'[q] >= sent[q]
  PROVE  AcceptedInOrder' /\ LogInOrder'
<1>1. LogInOrder'
  BY DEF LogInOrder
<1>2. \A j : Back(j)' = Back(j)
  BY DEF Back
<1>3. \A n \in Nat, q \in Producers : n <= sent[q] => n <= sent'[q]
  BY DEF TypeOK
<1>4. \A i \in DOMAIN log : log[i].call <= sent'[log[i].src]
  BY <1>3, RecordsEverywhere DEF AcceptedInOrder
<1>5. \A j \in 1 .. count : ring[Back(j)].call <= sent'[ring[Back(j)].src]
  BY <1>3, RecordsEverywhere DEF AcceptedInOrder
<1>. QED
  BY <1>1, <1>2, <1>4, <1>5 DEF AcceptedInOrder

(* Log, ring and the calls to come stay in the order of the numbers and of *)
(* each producer's calls.                                                  *)
LEMMA OrderStep ==
  ASSUME TypeOK, RingHoldsPending, Phases, AcceptedInOrder, LogInOrder, [Next]_vars
  PROVE  AcceptedInOrder' /\ LogInOrder'
<1>0. \A j \in 1 .. count : Back(j) \in Slots /\ ring[Back(j)] \in Records
  BY RecordsEverywhere
<1>00. \A i \in DOMAIN log : log[i] \in Records
  BY RecordsEverywhere
<1>1. CASE AuditInit
  <2>1. count' = 0 /\ log' = <<>>
    BY <1>1 DEF AuditInit, Phases
  <2>. QED
    BY <2>1 DEF AcceptedInOrder, LogInOrder
<1>2. ASSUME NEW p \in Producers, AuditRecordEvent(p)
      PROVE  AcceptedInOrder' /\ LogInOrder'
  <2>0. RecordEffects(p)
    BY <1>2, RecordEffect
  <2>00. /\ log' = log
         /\ \A q \in Producers : sent'[q] = IF q = p THEN sent[p] + 1 ELSE sent[q]
    BY <2>0 DEF RecordEffects, TypeOK
  <2>1. LogInOrder'
    BY <2>00 DEF LogInOrder
  <2>2. CASE UNCHANGED <<ring, head, count, nextSeq>>
    <3>1. \A q \in Producers : sent'[q] \in Nat /\ sent'[q] >= sent[q]
      BY <2>00 DEF TypeOK
    <3>. QED
      BY <2>00, <2>2, <3>1, OrderKept
  <2>3. CASE ~UNCHANGED <<ring, head, count, nextSeq>>
    <3>1. /\ count < Capacity
          /\ ring' = [ring EXCEPT ![head] =
                        [seq |-> nextSeq, src |-> p, call |-> sent[p] + 1]]
          /\ head' = IF head + 1 = Capacity THEN 0 ELSE head + 1
          /\ count' = count + 1
          /\ nextSeq' = nextSeq + 1
      BY <2>0, <2>3 DEF RecordEffects
    <3>2. /\ Back(1)' = head
          /\ \A j \in 1 .. (Capacity - 1) :
               Back(j) \in Slots /\ Back(j) # head /\ Back(j + 1)' = Back(j)
      BY <3>1, BackAfterPush
    <3>3. ring'[Back(1)'] = [seq |-> nextSeq, src |-> p, call |-> sent[p] + 1]
      BY <3>1, <3>2 DEF TypeOK
    <3>4. \A j \in 2 .. count' : j - 1 \in 1 .. count /\ ring'[Back(j)'] = ring[Back(j - 1)]
      <4>1. SUFFICES ASSUME NEW j \in 2 .. count'
                     PROVE  j - 1 \in 1 .. count /\ ring'[Back(j)'] = ring[Back(j - 1)]
        OBVIOUS
      <4>2. j - 1 \in 1 .. count /\ j - 1 \in 1 .. (Capacity - 1)
        BY <3>1, <4>1, CapacityPositive DEF TypeOK
      <4>3. Back(j)' = Back(j - 1) /\ Back(j - 1) # head /\ Back(j - 1) \in Slots
        BY <3>2, <4>2
      <4>. QED
        BY <3>1, <4>2, <4>3 DEF TypeOK
    <3>5. AcceptedInOrder'
      <4>1. \A i \in DOMAIN log :
              log[i].seq < nextSeq' - count' /\ log[i].call <= sent'[log[i].src]
        <5>1. nextSeq' - count' = nextSeq - count
          BY <3>1 DEF TypeOK
        <5>2. \A n \in Nat, q \in Producers : n <= sent[q] => n <= sent'[q]
          BY <2>00 DEF TypeOK
        <5>. QED
          BY <5>1, <5>2, RecordsEverywhere DEF AcceptedInOrder
      <4>2. \A i \in DOMAIN log : \A j \in 1 .. count' :
              log[i].src = ring'[Back(j)'].src => log[i].call < ring'[Back(j)'].call
        <5>1. SUFFICES ASSUME NEW i \in DOMAIN log, NEW j \in 1 .. count',
                              log[i].src = ring'[Back(j)'].src
                       PROVE  log[i].call < ring'[Back(j)'].call
          OBVIOUS
        <5>2. CASE j = 1
          <6>1. log[i].src = p /\ ring'[Back(j)'].call = sent[p] + 1
            BY <3>3, <5>1, <5>2
          <6>2. log[i].call <= sent[p] /\ log[i].call \in Nat /\ sent[p] \in Nat
            BY <1>00, <6>1 DEF AcceptedInOrder, TypeOK, Records
          <6>. QED
            BY <6>1, <6>2
        <5>3. CASE j # 1
          <6>1. j - 1 \in 1 .. count /\ ring'[Back(j)'] = ring[Back(j - 1)]
            BY <3>1, <3>4, <5>3 DEF TypeOK
          <6>. QED
            BY <5>1, <6>1 DEF AcceptedInOrder
        <5>. QED
          BY <5>2, <5>3
      <4>3. \A j \in 1 .. count' : ring'[Back(j)'].call <= sent'[ring'[Back(j)'].src]
        <5>1. SUFFICES ASSUME NEW j \in 1 .. count'
                       PROVE  ring'[Back(j)'].call <= sent'[ring'[Back(j)'].src]
          OBVIOUS
        <5>2. CASE j = 1
          BY <2>00, <3>3, <5>2 DEF TypeOK
        <5>3. CASE j # 1
          <6>1. j - 1 \in 1 .. count /\ ring'[Back(j)'] = ring[Back(j - 1)]
            BY <3>1, <3>4, <5>3 DEF TypeOK
          <6>2. /\ ring[Back(j - 1)].call <= sent[ring[Back(j - 1)].src]
                /\ ring[Back(j - 1)] \in Records
            BY <1>0, <6>1 DEF AcceptedInOrder
          <6>. QED
            <7>1. \A n \in Nat, q \in Producers : n <= sent[q] => n <= sent'[q]
              BY <2>00 DEF TypeOK
            <7>. QED
              BY <6>1, <6>2, <7>1, RecordsEverywhere
        <5>. QED
          BY <5>2, <5>3
      <4>4. \A j, k \in 1 .. count' :
              j > k /\ ring'[Back(j)'].src = ring'[Back(k)'].src
                => ring'[Back(j)'].call < ring'[Back(k)'].call
        <5>1. SUFFICES ASSUME NEW j \in 1 .. count', NEW k \in 1 .. count', j > k,
                              ring'[Back(j)'].src = ring'[Back(k)'].src
                       PROVE  ring'[Back(j)'].call < ring'[Back(k)'].call
          OBVIOUS
        <5>2. j - 1 \in 1 .. count /\ ring'[Back(j)'] = ring[Back(j - 1)]
          BY <3>1, <3>4, <5>1 DEF TypeOK
        <5>3. CASE k = 1
          <6>1. ring[Back(j - 1)].src = p /\ ring'[Back(k)'].call = sent[p] + 1
            BY <3>3, <5>1, <5>2, <5>3
          <6>2. ring[Back(j - 1)].call <= sent[p] /\ ring[Back(j - 1)].call \in Nat
            BY <1>0, <5>2, <6>1 DEF AcceptedInOrder, Records
          <6>. QED
            BY <5>2, <6>1, <6>2 DEF TypeOK
        <5>4. CASE k # 1
          <6>1. k - 1 \in 1 .. count /\ ring'[Back(k)'] = ring[Back(k - 1)]
            BY <3>1, <3>4, <5>4 DEF TypeOK
          <6>2. j - 1 > k - 1
            BY <5>1
          <6>. QED
            BY <5>1, <5>2, <6>1, <6>2 DEF AcceptedInOrder
        <5>. QED
          BY <5>3, <5>4
      <4>. QED
        BY <2>00, <4>1, <4>2, <4>3, <4>4 DEF AcceptedInOrder
    <3>. QED
      BY <2>1, <3>5
  <2>. QED
    BY <2>2, <2>3
<1>4. CASE Quiet
  BY <1>4, TypeStep, OrderKept DEF Quiet, TypeOK
<1>3. CASE FlushOne
  <2>0. FlushOneEffects
    BY <1>3, FlushOneEffect
  <2> DEFINE rec == ring[Back(count)]
  <2>1. /\ count' = count - 1 /\ UNCHANGED <<ring, head, nextSeq, sent>>
        /\ count \in 1 .. Capacity /\ rec \in Records
        /\ \A j : Back(j)' = Back(j)
    BY <2>0 DEF FlushOneEffects, Back, TypeOK
  <2>2. rec.seq = nextSeq - count
    BY <2>1 DEF RingHoldsPending
  <2>3. CASE log' = log
    <3>1. LogInOrder'
      BY <2>3 DEF LogInOrder
    <3>2. AcceptedInOrder'
      <4>1. \A i \in DOMAIN log : log[i].seq < nextSeq - count + 1
        BY <2>1, RecordsEverywhere DEF AcceptedInOrder, TypeOK
      <4>2. nextSeq' - count' = nextSeq - count + 1 /\ 1 .. count' \subseteq 1 .. count
        BY <2>1 DEF TypeOK
      <4>. QED
        BY <2>1, <2>3, <4>1, <4>2 DEF AcceptedInOrder
    <3>. QED
      BY <3>1, <3>2
  <2>4. CASE log' = Append(log, rec)
    <3>1. /\ DOMAIN log' = 1 .. (Len(log) + 1)
          /\ DOMAIN log = 1 .. Len(log)
          /\ Len(log) \in Nat
          /\ log'[Len(log) + 1] = rec
          /\ \A i \in 1 .. Len(log) : log'[i] = log[i]
      BY <2>1, <2>4 DEF TypeOK
    <3>2. LogInOrder'
      <4>1. SUFFICES ASSUME NEW i \in DOMAIN log', NEW j \in DOMAIN log', i < j
                     PROVE  /\ log'[i].seq < log'[j].seq
                            /\ log'[i].src = log'[j].src => log'[i].call < log'[j].call
        BY DEF LogInOrder
      <4>2. i \in DOMAIN log /\ log'[i] = log[i]
        BY <3>1, <4>1
      <4>3. CASE j \in DOMAIN log
        BY <3>1, <4>1, <4>2, <4>3 DEF LogInOrder
      <4>4. CASE j = Len(log) + 1
        <5>1. log'[j] = rec
          BY <3>1, <4>4
        <5>2. log[i].seq < nextSeq - count
          BY <4>2 DEF AcceptedInOrder
        <5>3. log[i].src = rec.src => log[i].call < rec.call
          BY <2>1, <4>2 DEF AcceptedInOrder
        <5>. QED
          BY <2>2, <4>2, <5>1, <5>2, <5>3
      <4>. QED
        BY <3>1, <4>3, <4>4
    <3>3. AcceptedInOrder'
      <4>1. ASSUME NEW i \in DOMAIN log'
            PROVE  /\ log'[i].seq < nextSeq' - count'
                   /\ log'[i].call <= sent'[log'[i].src]
                   /\ \A j \in 1 .. count' :
                        log'[i].src = ring'[Back(j)'].src => log'[i].call < ring'[Back(j)'].call
        <5>1. CASE i \in DOMAIN log
          <6>1. log'[i] = log[i] /\ log[i].seq \in Nat
            BY <1>00, <3>1, <5>1 DEF Records
          <6>. QED
            BY <2>1, <5>1, <6>1 DEF AcceptedInOrder, TypeOK
        <5>2. CASE i = Len(log) + 1
          <6>1. log'[i] = rec
            BY <3>1, <5>2
          <6>2. rec.seq < nextSeq' - count'
            BY <2>1, <2>2 DEF TypeOK
          <6>3. rec.call <= sent'[rec.src]
            BY <2>1 DEF AcceptedInOrder
          <6>4. \A j \in 1 .. count' : rec.src = ring[Back(j)].src => rec.call < ring[Back(j)].call
            BY <2>1 DEF AcceptedInOrder
          <6>. QED
            BY <2>1, <6>1, <6>2, <6>3, <6>4
        <5>. QED
          BY <3>1, <4>1, <5>1, <5>2
      <4>2. \A j \in 1 .. count' :
              /\ ring'[Back(j)'].call <= sent'[ring'[Back(j)'].src]
              /\ \A k \in 1 .. count' :
                   j > k /\ ring'[Back(j)'].src = ring'[Back(k)'].src
                     => ring'[Back(j)'].call < ring'[Back(k)'].call
        BY <2>1 DEF AcceptedInOrder
      <4>. QED
        BY <4>1, <4>2 DEF AcceptedInOrder
    <3>. QED
      BY <3>2, <3>3
  <2>. QED
    BY <2>0, <2>3, <2>4 DEF FlushOneEffects
<1>. QED
  BY <1>1, <1>2, <1>3, <1>4, StepKinds
-----------------------------------------------------------------------------
(* IInv is an inductive invariant of the trail.                            *)
THEOREM Invariance == Spec => []IInv
<1>1. Init => IInv
  <2> SUFFICES ASSUME Init PROVE IInv
    OBVIOUS
  <2> USE DEF Init
  <2>1. TypeOK
    <3>1. ring \in [Slots -> Records \cup {Blank}] /\ sent \in [Producers -> Nat]
      OBVIOUS
    <3>2. head \in Slots /\ count \in 0 .. Capacity
      BY CapacityPositive DEF Slots
    <3>3. log \in Seq(Records)
      OBVIOUS
    <3>. QED
      BY <3>1, <3>2, <3>3 DEF TypeOK
  <2>2. RingHoldsPending /\ AcceptedInOrder /\ LogInOrder
    BY DEF RingHoldsPending, AcceptedInOrder, LogInOrder
  <2>3. Phases /\ Numbered /\ MarkedDrained
    BY DEF Phases, Numbered, MarkedDrained
  <2>. QED
    BY <2>1, <2>2, <2>3 DEF IInv
<1>2. IInv /\ [Next]_vars => IInv'
  BY TypeStep, RingStep, PhasesStep, NumberedStep, MarkedStep, OrderStep DEF IInv
<1>. QED
  BY <1>1, <1>2, PTL DEF Spec

(* Type correctness: head stays in the ring and count within capacity.     *)
THEOREM TypeCorrect == Spec => []TypeOK
BY Invariance, PTL DEF IInv

(* The ring never overwrites or forgets a record that was not written yet. *)
THEOREM RingCorrect == Spec => []RingHoldsPending
BY Invariance, PTL DEF IInv

(* The slot flush_thread_func computes in size_t is that of the oldest     *)
(* record, for every ring size that divides the range of size_t.           *)
THEOREM ReadsOldestCorrect == Spec => []ReadsOldest
<1>1. IInv => ReadsOldest
  BY OldestValue, CapacityPositive DEF IInv, TypeOK, ReadsOldest
<1>. QED
  BY <1>1, Invariance, PTL

(* The log is in the order of acceptance, without duplicates, and keeps    *)
(* the order of each handler thread's events.                              *)
THEOREM LogOrderCorrect == Spec => []LogInOrder
BY Invariance, PTL DEF IInv

(* No record disappears without trace: accepted = written + lost by a      *)
(* failed write + waiting.                                                 *)
THEOREM ConservedCorrect == Spec => []Conserved
<1>1. IInv => Conserved
  BY DEF IInv, Conserved, Numbered, Alive
<1>. QED
  BY <1>1, Invariance, PTL

(* When the flush thread has ended, every record accepted before the       *)
(* shutdown began is out of the ring.                                      *)
THEOREM ShutdownDrainsCorrect == Spec => []ShutdownDrains
<1>1. IInv => ShutdownDrains
  BY DEF IInv, ShutdownDrains, MarkedDrained
<1>. QED
  BY <1>1, Invariance, PTL

(* The flush thread never meets a closed log file, so that write_record    *)
(* never calls rotate_log_file.                                            *)
THEOREM FileOpenCorrect == Spec => []FileOpenForFlush
<1>1. IInv => FileOpenForFlush
  BY DEF IInv, FileOpenForFlush, Phases, TypeOK, Alive
<1>. QED
  BY <1>1, Invariance, PTL
-----------------------------------------------------------------------------
(* The trail implements AuditSpec.  The queue of the abstract trail is the *)
(* sequence of pending records read off the ring.                          *)

(* What is read off the ring is a sequence of count records.               *)
PendingIsSequence ==
  /\ Pending \in Seq(Records) /\ Len(Pending) = count
  /\ \A i, j \in 1 .. count : i + j = count + 1 => Pending[i] = ring[Back(j)]

(* Reading off the ring gives such a sequence.                             *)
LEMMA PendingSequence == TypeOK /\ RingHoldsPending => PendingIsSequence
<1> SUFFICES ASSUME TypeOK, RingHoldsPending PROVE PendingIsSequence
  OBVIOUS
<1>1. \A i \in 1 .. count : count - i + 1 \in 1 .. count
  BY DEF TypeOK
<1>2. \A i \in 1 .. count : ring[Back(count - i + 1)] \in Records
  BY <1>1, RecordsEverywhere
<1>3. Pending \in Seq(Records) /\ Len(Pending) = count
  BY <1>2 DEF Pending, TypeOK
<1>4. \A i, j \in 1 .. count : i + j = count + 1 => Pending[i] = ring[Back(j)]
  <2>1. SUFFICES ASSUME NEW i \in 1 .. count, NEW j \in 1 .. count, i + j = count + 1
                 PROVE  Pending[i] = ring[Back(j)]
    OBVIOUS
  <2>2. j = count - i + 1
    BY <2>1 DEF TypeOK
  <2>. QED
    BY <2>2 DEF Pending
<1>. QED
  BY <1>3, <1>4 DEF PendingIsSequence

(* Two sequences with the same length and elements are the same.           *)
LEMMA SameSequence ==
  ASSUME NEW S, NEW a \in Seq(S), NEW b \in Seq(S), Len(a) = Len(b),
         \A i \in 1 .. Len(a) : a[i] = b[i]
  PROVE  a = b
OBVIOUS

(* Every step of the trail is a step of the abstract queue or changes      *)
(* nothing it can see.                                                     *)
LEMMA RefinementStep ==
  ASSUME IInv, IInv', [Next]_vars
  PROVE  [Abstract!Next]_(Abstract!vars)
<1>0. /\ TypeOK /\ RingHoldsPending /\ Phases /\ Numbered /\ AcceptedInOrder
      /\ TypeOK' /\ RingHoldsPending'
  BY DEF IInv
<1>1. PendingIsSequence
  BY <1>0, PendingSequence
<1>2. PendingIsSequence'
  BY <1>0, PendingSequence, PTL
<1>3. CASE AuditInit
  <2>1. count = 0 /\ count' = 0 /\ UNCHANGED <<log, total, dropped>>
    BY <1>0, <1>3 DEF AuditInit, Phases
  <2>2. Pending' = Pending
    BY <2>1 DEF Pending
  <2>. QED
    BY <2>1, <2>2 DEF Abstract!vars
<1>4. ASSUME NEW p \in Producers, AuditRecordEvent(p)
      PROVE  [Abstract!Next]_(Abstract!vars)
  <2>0. RecordEffects(p)
    BY <1>0, <1>4, RecordEffect
  <2>1. CASE count = Capacity
    <3>1. /\ UNCHANGED <<ring, head, count, log, total>>
          /\ dropped' = dropped + 1
      BY <1>0, <2>0, <2>1, CapacityPositive DEF RecordEffects, TypeOK
    <3>2. Pending' = Pending
      BY <3>1 DEF Pending, Back
    <3>3. Abstract!Refuse
      BY <1>1, <2>1, <3>1, <3>2 DEF Abstract!Refuse, PendingIsSequence
    <3>. QED
      BY <3>3 DEF Abstract!Next
  <2>2. CASE count < Capacity
    <3> DEFINE rec == [seq |-> nextSeq, src |-> p, call |-> sent[p] + 1]
    <3>1. /\ ring' = [ring EXCEPT ![head] = rec]
          /\ head' = IF head + 1 = Capacity THEN 0 ELSE head + 1
          /\ count' = count + 1
          /\ total' = total + 1
          /\ UNCHANGED <<log, dropped>>
          /\ mainPc \in Alive /\ sent[p] < MaxEvents
      BY <2>0, <2>2, CapacityPositive DEF RecordEffects, TypeOK
    <3>2. /\ Back(1)' = head
          /\ \A j \in 1 .. (Capacity - 1) :
               Back(j) \in Slots /\ Back(j) # head /\ Back(j + 1)' = Back(j)
      BY <1>0, <3>1, BackAfterPush
    <3>3. rec \in Records
      BY <1>0, SMTT(40) DEF TypeOK, Records
    <3>4. Pending'[count + 1] = rec
      <4>1. count + 1 \in 1 .. count' /\ 1 \in 1 .. count' /\ (count + 1) + 1 = count' + 1
        BY <1>0, <3>1 DEF TypeOK
      <4>2. Pending'[count + 1] = ring'[Back(1)']
        BY <1>2, <4>1 DEF PendingIsSequence
      <4>. QED
        BY <1>0, <3>1, <3>2, <4>2 DEF TypeOK
    <3>5. \A i \in 1 .. count : Pending'[i] = Pending[i]
      <4>1. SUFFICES ASSUME NEW i \in 1 .. count PROVE Pending'[i] = Pending[i]
        OBVIOUS
      <4>2. PICK j \in 1 .. count : i + j = count + 1
        BY <1>0 DEF TypeOK
      <4>3. /\ j \in 1 .. (Capacity - 1) /\ j + 1 \in 1 .. count' /\ i \in 1 .. count'
            /\ i + (j + 1) = count' + 1
        BY <1>0, <2>2, <3>1, <4>2, CapacityPositive DEF TypeOK
      <4>4. Pending'[i] = ring'[Back(j + 1)']
        BY <1>2, <4>3 DEF PendingIsSequence
      <4>5. Pending[i] = ring[Back(j)]
        BY <1>1, <4>2 DEF PendingIsSequence
      <4>6. Back(j + 1)' = Back(j) /\ Back(j) # head /\ Back(j) \in Slots
        BY <3>2, <4>3
      <4>. QED
        BY <1>0, <3>1, <4>4, <4>5, <4>6 DEF TypeOK
    <3>6. Pending' = Append(Pending, rec)
      <4>1. /\ Append(Pending, rec) \in Seq(Records)
            /\ Len(Append(Pending, rec)) = count + 1
            /\ Append(Pending, rec)[count + 1] = rec
            /\ \A i \in 1 .. count : Append(Pending, rec)[i] = Pending[i]
        BY <1>1, <3>3 DEF PendingIsSequence
      <4>2. Pending' \in Seq(Records) /\ Len(Pending') = count + 1
        BY <1>2, <3>1 DEF PendingIsSequence
      <4>3. \A i \in 1 .. (count + 1) : i \in 1 .. count \/ i = count + 1
        BY <1>0 DEF TypeOK
      <4>4. \A i \in 1 .. (count + 1) : Pending'[i] = Append(Pending, rec)[i]
        BY <3>4, <3>5, <4>1, <4>3
      <4>. QED
        BY <4>1, <4>2, <4>4, SameSequence
    <3>7. nextSeq = total + 1 /\ sent[p] + 1 \in 1 .. MaxEvents
      <4>1. mainPc # "init"
        BY <3>1 DEF Alive
      <4>2. sent[p] \in Nat
        BY <1>0 DEF TypeOK
      <4>. QED
        BY <1>0, <3>1, <4>1, <4>2, BoundsAssumption DEF Numbered
    <3>8. Abstract!Accept
      BY <1>1, <2>2, <3>1, <3>6, <3>7 DEF Abstract!Accept, PendingIsSequence
    <3>. QED
      BY <3>8 DEF Abstract!Next
  <2>. QED
    BY <2>0, <2>1, <2>2 DEF RecordEffects
<1>5. CASE FlushOne
  <2>0. FlushOneEffects
    BY <1>0, <1>5, FlushOneEffect
  <2>1. /\ UNCHANGED <<ring, head, total, dropped>>
        /\ count \in Nat /\ count > 0 /\ count' = count - 1
        /\ \A j : Back(j)' = Back(j)
    BY <1>0, <2>0 DEF FlushOneEffects, Back, TypeOK
  <2>2. Pending # <<>> /\ Head(Pending) = ring[Back(count)]
    <3>1. 1 \in 1 .. count /\ count \in 1 .. count /\ 1 + count = count + 1
      BY <2>1
    <3>2. Pending[1] = ring[Back(count)]
      BY <1>1, <3>1 DEF PendingIsSequence
    <3>. QED
      BY <1>1, <2>1, <3>2 DEF PendingIsSequence
  <2>3. Pending' = Tail(Pending)
    <3>1. /\ Tail(Pending) \in Seq(Records) /\ Len(Tail(Pending)) = count - 1
          /\ \A i \in 1 .. (count - 1) : Tail(Pending)[i] = Pending[i + 1]
      BY <1>1, <2>1, <2>2 DEF PendingIsSequence
    <3>2. Pending' \in Seq(Records) /\ Len(Pending') = count - 1
      BY <1>2, <2>1 DEF PendingIsSequence
    <3>3. \A i \in 1 .. (count - 1) : Pending'[i] = Pending[i + 1]
      <4>1. SUFFICES ASSUME NEW i \in 1 .. (count - 1) PROVE Pending'[i] = Pending[i + 1]
        OBVIOUS
      <4>2. PICK j \in 1 .. count' : i + j = count' + 1
        BY <2>1
      <4>3. /\ i \in 1 .. count' /\ i + 1 \in 1 .. count /\ j \in 1 .. count
            /\ (i + 1) + j = count + 1
        BY <2>1, <4>2
      <4>4. Pending'[i] = ring'[Back(j)']
        BY <1>2, <4>2, <4>3 DEF PendingIsSequence
      <4>5. Pending[i + 1] = ring[Back(j)]
        BY <1>1, <4>3 DEF PendingIsSequence
      <4>. QED
        BY <2>1, <4>4, <4>5
    <3>. QED
      BY <3>1, <3>2, <3>3, SameSequence
  <2>4. CASE log' = Append(log, ring[Back(count)])
    <3>1. Abstract!HandOn
      BY <2>1, <2>2, <2>3, <2>4 DEF Abstract!HandOn
    <3>. QED
      BY <3>1 DEF Abstract!Next
  <2>5. CASE log' = log
    <3>1. Abstract!Lose
      BY <2>1, <2>2, <2>3, <2>5 DEF Abstract!Lose
    <3>. QED
      BY <3>1 DEF Abstract!Next
  <2>. QED
    BY <2>0, <2>4, <2>5 DEF FlushOneEffects
<1>6. CASE Quiet /\ dropped' = dropped
  <2>1. Pending' = Pending
    BY <1>6 DEF Quiet, Pending, Back
  <2>. QED
    BY <1>6, <2>1 DEF Quiet, Abstract!vars
<1>7. Quiet /\ ~AuditInit /\ ~FlushOne /\ ~(\E p \in Producers : AuditRecordEvent(p))
        => dropped' = dropped
  BY DEF Next, FlushThread, Ended, vars, ringVars, AuditRecordAfterFree, FlushTest, FlushLock,
         FlushSleep, FlushWake, FlushStart, FlushUnlock, ShutdownRequest,
         ShutdownJoin, ShutdownClose, ShutdownFree, Tick
<1>. QED
  BY <1>0, <1>3, <1>4, <1>5, <1>6, <1>7, StepKinds

(* The ring, the flush thread and the shutdown together implement the      *)
(* bounded FIFO of AuditSpec.                                              *)
THEOREM Refinement == Spec => ImplementsFifo
<1>1. Init => Abstract!Init
  <2>1. Init => Pending = <<>>
    BY DEF Init, Pending
  <2>. QED
    BY <2>1 DEF Init, Abstract!Init
<1>2. IInv /\ IInv' /\ [Next]_vars => [Abstract!Next]_(Abstract!vars)
  BY RefinementStep
<1>. QED
  BY <1>1, <1>2, Invariance, PTL DEF Spec, ImplementsFifo, Abstract!Spec
-----------------------------------------------------------------------------
(* A call more of one producer is one call more.                           *)
LEMMA OneMoreCall ==
  ASSUME TypeOK, NEW p \in Producers, sent' = [sent EXCEPT ![p] = @ + 1], IsFiniteSet(Calls)
  PROVE  IsFiniteSet(Calls') /\ Cardinality(Calls') = Cardinality(Calls) + 1
<1>1. sent[p] \in Nat /\ sent' \in [Producers -> Nat]
  BY DEF TypeOK
<1>2. Calls' = Calls \cup {<<p, sent[p] + 1>>}
  <2>1. \A q \in Producers : \A n : <<q, n>> \in Calls' <=> n \in 1 .. sent'[q]
    BY DEF Calls
  <2>2. \A q \in Producers : \A n : <<q, n>> \in Calls <=> n \in 1 .. sent[q]
    BY DEF Calls
  <2>3. \A c \in Calls' : \E q \in Producers : \E n \in 1 .. sent'[q] : c = <<q, n>>
    BY DEF Calls
  <2>4. \A c \in Calls : \E q \in Producers : \E n \in 1 .. sent[q] : c = <<q, n>>
    BY DEF Calls
  <2>5. \A q \in Producers : sent'[q] = IF q = p THEN sent[q] + 1 ELSE sent[q]
    BY DEF TypeOK
  <2>6. ASSUME NEW c \in Calls' PROVE c \in Calls \cup {<<p, sent[p] + 1>>}
    <3>0. PICK q \in Producers : \E n \in 1 .. sent'[q] : c = <<q, n>>
      BY <2>3
    <3>1. PICK n \in 1 .. sent'[q] : c = <<q, n>>
      BY <3>0
    <3>2. n \in 1 .. sent[q] \/ (q = p /\ n = sent[p] + 1)
      BY <1>1, <2>5
    <3>. QED
      BY <2>2, <3>1, <3>2
  <2>7. ASSUME NEW c \in Calls PROVE c \in Calls'
    <3>0. PICK q \in Producers : \E n \in 1 .. sent[q] : c = <<q, n>>
      BY <2>4
    <3>1. PICK n \in 1 .. sent[q] : c = <<q, n>>
      BY <3>0
    <3>2. n \in 1 .. sent'[q]
      BY <1>1, <2>5 DEF TypeOK
    <3>. QED
      BY <2>1, <3>1, <3>2
  <2>8. <<p, sent[p] + 1>> \in Calls'
    BY <1>1, <2>1, <2>5
  <2>. QED
    BY <2>6, <2>7, <2>8
<1>3. <<p, sent[p] + 1>> \notin Calls
  BY <1>1 DEF Calls
<1>. QED
  BY <1>2, <1>3, FS_AddElement

(* What CallsAccounted counts is finite, which makes it inductive.         *)
AccountIInv == IsFiniteSet(Calls) /\ CallsAccounted

(* Every call is accepted, counted as dropped, or came after the ring was  *)
(* freed, for any number of producers.                                     *)
THEOREM CallsCorrect == Spec => []CallsAccounted
<1>1. Init => AccountIInv
  <2> SUFFICES ASSUME Init PROVE AccountIInv
    OBVIOUS
  <2>1. Calls = {}
    BY DEF Init, Calls
  <2>. QED
    BY <2>1, FS_EmptySet DEF Init, AccountIInv, CallsAccounted
<1>2. TypeOK /\ AccountIInv /\ [Next]_vars => AccountIInv'
  <2> SUFFICES ASSUME TypeOK, AccountIInv, [Next]_vars PROVE AccountIInv'
    OBVIOUS
  <2>0. Cardinality(Calls) \in Nat /\ total \in Nat /\ dropped \in Nat
    BY FS_CardinalityType DEF AccountIInv, TypeOK
  <2>1. ASSUME NEW p \in Producers, AuditRecordEvent(p) PROVE AccountIInv'
    <3>1. RecordEffects(p)
      BY <2>1, RecordEffect
    <3>2. late' = late /\ total' + dropped' = total + dropped + 1
      BY <2>0, <3>1 DEF RecordEffects
    <3>3. IsFiniteSet(Calls') /\ Cardinality(Calls') = Cardinality(Calls) + 1
      BY <3>1, OneMoreCall DEF RecordEffects, AccountIInv
    <3>. QED
      BY <3>2, <3>3 DEF AccountIInv, CallsAccounted
  <2>2. ASSUME NEW p \in Producers, AuditRecordAfterFree(p) PROVE AccountIInv'
    <3>1. late' # {}
      BY <2>2 DEF AuditRecordAfterFree
    <3>2. IsFiniteSet(Calls')
      BY <2>2, OneMoreCall DEF AuditRecordAfterFree, AccountIInv
    <3>. QED
      BY <3>1, <3>2 DEF AccountIInv, CallsAccounted
  <2>3. CASE UNCHANGED <<sent, total, dropped, late>>
    <3>1. Calls' = Calls
      BY <2>3 DEF Calls
    <3>. QED
      BY <2>3, <3>1 DEF AccountIInv, CallsAccounted
  <2>4. CASE FlushOne
    BY <2>3, <2>4 DEF FlushOne
  <2>. QED
    BY <2>1, <2>2, <2>3, <2>4
       DEF Next, FlushThread, Ended, vars, ringVars, fileVars, AuditInit, FlushTest, FlushLock,
           FlushSleep, FlushWake, FlushStart, FlushUnlock, ShutdownRequest,
           ShutdownJoin, ShutdownClose, ShutdownFree, Tick
<1>. QED
  BY <1>1, <1>2, TypeCorrect, PTL DEF Spec, AccountIInv
=============================================================================
