------------------------------- MODULE Logger ------------------------------
(***************************************************************************)
(* The log of src/src/utilities/logger.c: utilities_log, with its level,   *)
(* its mutex s_log_mutex and its error callback, called by every thread;   *)
(* and signal_handler of src/main.c, which calls utilities_log in the      *)
(* middle of whatever its thread is doing.  What is written is left out.   *)
(*                                                                         *)
(* A thread inside the handler does nothing else until it returns, unless  *)
(* the other signal interrupts it in turn: signal() blocks a signal only   *)
(* while its own handler runs.                                             *)
(***************************************************************************)
EXTENDS Integers, Sequences

CONSTANTS
  Threads,      \* the threads that log
  Signals,      \* SIGINT and SIGTERM
  Level,        \* utilities_current_level, 0 for VERBOSE to 4 for ERROR
  Callback,     \* s_error_callback is registered
  MaxCalls,     \* bound of the model: the calls of utilities_log
  MaxSignals    \* bound of the model: the signals delivered

Nobody == "nobody"

ASSUME LoggerAssumption ==
  /\ Nobody \notin Threads
  /\ Level \in 0 .. 4
  /\ Callback \in BOOLEAN
  /\ MaxCalls \in Nat
  /\ MaxSignals \in Nat

VARIABLES
  pc,         \* where each thread is, outside of the handler
  level,      \* the level of the message it is logging
  handler,    \* where its handler of each signal is
  nested,     \* the signals it is handling, the one that runs last
  owner,      \* the thread that holds s_log_mutex
  calls,      \* the calls made so far
  signals,    \* the signals delivered so far
  running     \* g_running

handlerVars == <<handler, nested, signals, running>>
vars == <<pc, level, owner, calls, handlerVars>>

ERROR == 4
INFO == 2

(* A thread that executes its own code, not a handler. *)
Free(t) == nested[t] = <<>>

(* A thread that executes the handler of signal s. *)
Handles(t, s) == nested[t] # <<>> /\ nested[t][Len(nested[t])] = s
----------------------------------------------------------------------------
(* Mutated forms, for mutation testing only: the callback called with the  *)
(* mutex held, a lock that is not waited for.                              *)
CallbackHoldsLock(t, l) == IF l = ERROR /\ Callback THEN t ELSE Nobody
LockNotWaitedFor == TRUE
----------------------------------------------------------------------------
(* The first test of utilities_log. *)
Filtered(l) == l < Level /\ l # ERROR

(* pthread_mutex_lock returns when nobody holds the mutex; the mutex is of *)
(* the default kind, which its owner cannot take again.                    *)
LockFree == owner = Nobody

(* The mutex is given back before the callback is called. *)
OwnerAfterWrite(t, l) == Nobody
----------------------------------------------------------------------------
Init ==
  /\ pc = [t \in Threads |-> "idle"]
  /\ level = [t \in Threads |-> INFO]
  /\ handler = [t \in Threads |-> [s \in Signals |-> "none"]]
  /\ nested = [t \in Threads |-> <<>>]
  /\ owner = Nobody
  /\ calls = 0
  /\ signals = 0
  /\ running = TRUE

(* utilities_log is called, and the message is formatted. *)
Log(t, l) ==
  /\ Free(t) /\ pc[t] = "idle"
  /\ calls < MaxCalls
  /\ calls' = calls + 1
  /\ level' = [level EXCEPT ![t] = l]
  /\ pc' = [pc EXCEPT ![t] = IF Filtered(l) THEN "idle" ELSE "lock"]
  /\ UNCHANGED <<owner, handlerVars>>

Lock(t) ==
  /\ Free(t) /\ pc[t] = "lock"
  /\ LockFree
  /\ owner' = t
  /\ pc' = [pc EXCEPT ![t] = "write"]
  /\ UNCHANGED <<level, calls, handlerVars>>

(* The message is written, the mutex given back, the callback called. *)
Write(t) ==
  /\ Free(t) /\ pc[t] = "write"
  /\ owner' = OwnerAfterWrite(t, level[t])
  /\ pc' = [pc EXCEPT ![t] = IF level[t] = ERROR /\ Callback THEN "callback" ELSE "idle"]
  /\ UNCHANGED <<level, calls, handlerVars>>

(* The callback returns, or logs a message of its own first. *)
CallbackRuns(t) ==
  /\ Free(t) /\ pc[t] = "callback"
  /\ \/ /\ pc' = [pc EXCEPT ![t] = "idle"]
        /\ UNCHANGED <<level, calls>>
     \/ /\ calls < MaxCalls
        /\ calls' = calls + 1
        /\ level' = [level EXCEPT ![t] = INFO]
        /\ pc' = [pc EXCEPT ![t] = IF Filtered(INFO) THEN "idle" ELSE "lock"]
  /\ UNCHANGED <<owner, handlerVars>>
----------------------------------------------------------------------------
(* SIGINT or SIGTERM is delivered to a thread, whether the stop has been   *)
(* asked for or not: signal_handler clears g_running and logs at level     *)
(* INFO.                                                                   *)
Signal(t, s) ==
  /\ handler[t][s] = "none"
  /\ signals < MaxSignals
  /\ signals' = signals + 1
  /\ running' = FALSE
  /\ \/ Filtered(INFO) /\ UNCHANGED <<handler, nested>>
     \/ /\ ~Filtered(INFO)
        /\ handler' = [handler EXCEPT ![t][s] = "lock"]
        /\ nested' = [nested EXCEPT ![t] = Append(@, s)]
  /\ UNCHANGED <<pc, level, owner, calls>>

HandlerLock(t, s) ==
  /\ Handles(t, s) /\ handler[t][s] = "lock"
  /\ LockFree
  /\ owner' = t
  /\ handler' = [handler EXCEPT ![t][s] = "write"]
  /\ UNCHANGED <<pc, level, calls, nested, signals, running>>

(* The message is written and the mutex given back; the handler returns to *)
(* what it interrupted.                                                    *)
HandlerWrite(t, s) ==
  /\ Handles(t, s) /\ handler[t][s] = "write"
  /\ owner' = Nobody
  /\ handler' = [handler EXCEPT ![t][s] = "none"]
  /\ nested' = [nested EXCEPT ![t] = SubSeq(@, 1, Len(@) - 1)]
  /\ UNCHANGED <<pc, level, calls, signals, running>>

Step(t) ==
  \/ Lock(t) \/ Write(t) \/ CallbackRuns(t)
  \/ \E s \in Signals : HandlerLock(t, s) \/ HandlerWrite(t, s)

Next ==
  \E t \in Threads : \/ \E l \in 0 .. 4 : Log(t, l)
                     \/ \E s \in Signals : Signal(t, s)
                     \/ Step(t)

Spec == Init /\ [][Next]_vars

(* Every thread runs while it is not blocked. *)
FairSpec == Spec /\ \A t \in Threads : WF_vars(Step(t))
----------------------------------------------------------------------------
(* A handler that waits for the mutex its own thread holds. *)
Stuck(t) == owner = t /\ \E s \in Signals : Handles(t, s) /\ handler[t][s] = "lock"

(* Log lines are never mixed, those of handlers and of the handlers that   *)
(* interrupt them included: the owner of the mutex is the one thread that  *)
(* writes, in one place at a time, and when nobody writes the mutex is     *)
(* free, so that nothing but a signal makes a thread wait for itself.  The *)
(* error callback may log, since the mutex has been given back by then.    *)
OneWriter ==
  \A t \in Threads :
    /\ owner = t <=> \/ pc[t] = "write"
                    \/ \E s \in Signals : handler[t][s] = "write"
    /\ \A s \in Signals : handler[t][s] = "write" =>
         /\ pc[t] # "write"
         /\ \A r \in Signals : handler[t][r] = "write" => r = s

(* Every call of utilities_log returns, unless some handler is stuck. *)
CallsReturn ==
  \A t \in Threads : pc[t] = "lock" ~> (pc[t] = "idle" \/ \E u \in Threads : Stuck(u))
=============================================================================
