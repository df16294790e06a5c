---------------------------- MODULE Logger_proof ----------------------------
(***************************************************************************)
(* Proofs about Logger, for every set of threads and of signals, level and *)
(* number of calls and of signals delivered, with and without a callback.  *)
(***************************************************************************)
EXTENDS Logger, TLAPS

(* The types of the variables the mutex depends on. *)
LogTypeOK ==
  /\ pc \in [Threads -> {"idle", "lock", "write", "callback"}]
  /\ level \in [Threads -> 0 .. 4]
  /\ handler \in [Threads -> [Signals -> {"none", "lock", "write"}]]
  /\ owner \in Threads \cup {Nobody}

(* A handler that interrupts the writer never gets the mutex, so a thread  *)
(* writes at most once: OneWriter is inductive beside the types.           *)
LogIInv == LogTypeOK /\ OneWriter

(* Each step of a thread or of its handler keeps LogIInv. *)
LEMMA LogStep ==
  ASSUME LogIInv, [Next]_vars
  PROVE  LogIInv'
<1> USE LoggerAssumption DEF LogIInv, LogTypeOK, OneWriter, Nobody
<1>1. ASSUME NEW t \in Threads, NEW l \in 0 .. 4, Log(t, l)
      PROVE  LogIInv'
  BY <1>1 DEF Log, handlerVars
<1>2. ASSUME NEW t \in Threads, Lock(t)
      PROVE  LogIInv'
  BY <1>2 DEF Lock, LockFree, handlerVars
<1>3. ASSUME NEW t \in Threads, Write(t)
      PROVE  LogIInv'
  <2>1. LogTypeOK'
    BY <1>3 DEF Write, OwnerAfterWrite, handlerVars
  <2>2. owner = t /\ pc[t] = "write"
    BY <1>3 DEF Write
  <2>3. \A u \in Threads \ {t} : pc'[u] = pc[u]
    BY <1>3 DEF Write
  <2>4. pc'[t] # "write" /\ owner' = Nobody /\ handler' = handler
    BY <1>3 DEF Write, OwnerAfterWrite, handlerVars
  <2>. QED
    BY <2>1, <2>2, <2>3, <2>4
<1>4. ASSUME NEW t \in Threads, CallbackRuns(t)
      PROVE  LogIInv'
  <2>0. pc' \in [Threads -> {"idle", "lock", "write", "callback"}]
    BY <1>4 DEF CallbackRuns
  <2>1. level' \in [Threads -> 0 .. 4]
    BY <1>4 DEF CallbackRuns, INFO
  <2>2. pc[t] # "write" /\ pc'[t] # "write"
    BY <1>4 DEF CallbackRuns
  <2>3. \A u \in Threads \ {t} : pc'[u] = pc[u]
    BY <1>4 DEF CallbackRuns
  <2>4. owner' = owner /\ handler' = handler
    BY <1>4 DEF CallbackRuns, handlerVars
  <2>. QED
    BY <2>0, <2>1, <2>2, <2>3, <2>4
<1>5. ASSUME NEW t \in Threads, NEW s \in Signals, Signal(t, s)
      PROVE  LogIInv'
  <2>1. pc' = pc /\ level' = level /\ owner' = owner
    BY <1>5 DEF Signal
  <2>2. CASE handler' = handler
    BY <2>1, <2>2
  <2>3. CASE handler' = [handler EXCEPT ![t][s] = "lock"]
    <3>1. handler' \in [Threads -> [Signals -> {"none", "lock", "write"}]]
      BY <2>3
    <3>2. \A u \in Threads, r \in Signals :
            handler'[u][r] = "write" <=> handler[u][r] = "write"
      BY <1>5, <2>3 DEF Signal
    <3>. QED
      BY <2>1, <3>1, <3>2
  <2>. QED
    BY <1>5, <2>2, <2>3 DEF Signal
<1>6. ASSUME NEW t \in Threads, NEW s \in Signals, HandlerLock(t, s)
      PROVE  LogIInv'
  BY <1>6 DEF HandlerLock, LockFree
<1>7. ASSUME NEW t \in Threads, NEW s \in Signals, HandlerWrite(t, s)
      PROVE  LogIInv'
  BY <1>7 DEF HandlerWrite
<1>8. CASE UNCHANGED vars
  BY <1>8 DEF vars, handlerVars
<1>. QED
  BY <1>1, <1>2, <1>3, <1>4, <1>5, <1>6, <1>7, <1>8 DEF Next, Step

(* utilities_log writes one message at a time, whoever is interrupted by a *)
(* signal, or in its handler by the other signal: the mutex is held        *)
(* exactly by the thread that writes, and is free when its error callback  *)
(* runs.                                                                   *)
THEOREM LogLinesWhole == Spec => []OneWriter
<1>1. Init => LogIInv
  BY LoggerAssumption DEF Init, LogIInv, LogTypeOK, OneWriter, Nobody, INFO
<1>2. LogIInv /\ [Next]_vars => LogIInv'
  BY LogStep
<1>3. LogIInv => OneWriter
  BY DEF LogIInv
<1>. QED
  BY <1>1, <1>2, <1>3, PTL DEF Spec
=============================================================================
