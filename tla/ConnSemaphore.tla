--------------------------- MODULE ConnSemaphore ---------------------------
(***************************************************************************)
(* conn_semaphore_t of src/main.c: the counting semaphore, built on a      *)
(* mutex and a condition variable, that bounds the connections served at   *)
(* once.  Listener threads acquire a permit for each connection they       *)
(* accepted; the permit is released by the handler of that connection.     *)
(*                                                                         *)
(* Each critical section of s->mutex is one step.  pthread_cond_wait is    *)
(* two: falling asleep, which frees the mutex, and going on after a wake-  *)
(* up, which takes it again and tests the condition again.                 *)
(***************************************************************************)
EXTENDS Integers, FiniteSets

CONSTANTS
  Listeners,       \* the threads that acquire: one per service of service_map
  Conns,           \* the connections permits are taken for; bound of the model
  MaxConnections   \* s->max, max_connections of the configuration

ASSUME SemaphoreAssumption ==
  /\ IsFiniteSet(Listeners)
  /\ IsFiniteSet(Conns)
  /\ MaxConnections \in Nat \ {0}

VARIABLES
  count,     \* s->count
  asleep,    \* the threads in pthread_cond_wait
  woken,     \* the threads woken and about to take the mutex again
  inside     \* history: the connections that have a permit

semVars == <<count, asleep, woken, inside>>

(* Mutated forms, for mutation testing only. *)
NobodySignalled == {asleep}
ResumeWithoutTest == FALSE

(* s->count >= s->max *)
SemFull == count >= MaxConnections

(* pthread_cond_signal wakes one of the sleepers, if there is any: the     *)
(* sleepers it can leave.                                                  *)
AfterSignal == IF asleep = {} THEN {{}} ELSE {asleep \ {t} : t \in asleep}

(* The test of the while loop in acquire, made again after each wake-up.   *)
SemStillFull == SemFull
----------------------------------------------------------------------------
SemInit == count = 0 /\ asleep = {} /\ woken = {} /\ inside = {}

(* conn_semaphore_acquire gets the permit at once. *)
SemAcquire(t, c) ==
  /\ t \notin asleep \cup woken
  /\ c \notin inside
  /\ ~SemFull
  /\ count' = count + 1
  /\ inside' = inside \cup {c}
  /\ UNCHANGED <<asleep, woken>>

(* conn_semaphore_acquire has to wait. *)
SemSleep(t) ==
  /\ t \notin asleep \cup woken
  /\ SemFull
  /\ asleep' = asleep \cup {t}
  /\ UNCHANGED <<count, woken, inside>>

(* pthread_cond_wait may return without a signal. *)
SemSpuriousWake(t) ==
  /\ t \in asleep
  /\ asleep' = asleep \ {t}
  /\ woken' = woken \cup {t}
  /\ UNCHANGED <<count, inside>>

(* A woken thread finds a permit, or sleeps again. *)
SemResume(t, c) ==
  /\ t \in woken
  /\ c \notin inside
  /\ ~SemStillFull
  /\ woken' = woken \ {t}
  /\ count' = count + 1
  /\ inside' = inside \cup {c}
  /\ UNCHANGED asleep

SemSleepAgain(t) ==
  /\ t \in woken
  /\ SemStillFull
  /\ woken' = woken \ {t}
  /\ asleep' = asleep \cup {t}
  /\ UNCHANGED <<count, inside>>

(* conn_semaphore_release *)
SemRelease(c) ==
  /\ c \in inside
  /\ count' = count - 1
  /\ inside' = inside \ {c}
  /\ asleep' \in AfterSignal
  /\ woken' = woken \cup (asleep \ asleep')

SemNext ==
  \/ \E t \in Listeners, c \in Conns : SemAcquire(t, c) \/ SemResume(t, c)
  \/ \E t \in Listeners : SemSleep(t) \/ SemSpuriousWake(t) \/ SemSleepAgain(t)
  \/ \E c \in Conns : SemRelease(c)

SemSpec == SemInit /\ [][SemNext]_semVars
----------------------------------------------------------------------------
SemTypeOK ==
  /\ count \in Int
  /\ asleep \subseteq Listeners
  /\ woken \subseteq Listeners
  /\ inside \subseteq Conns

(* count is the number of connections being served, and that never passes  *)
(* max_connections.                                                        *)
ServedWithinMax == count = Cardinality(inside) /\ Cardinality(inside) <= MaxConnections

(* No wake-up is lost: while a thread sleeps, every free permit has a      *)
(* woken thread on its way to it.  So no listener sleeps beside a permit   *)
(* that nobody will take.                                                  *)
NoLostWakeup == asleep # {} => MaxConnections - count <= Cardinality(woken)

SemIInv == SemTypeOK /\ asleep \cap woken = {} /\ ServedWithinMax /\ NoLostWakeup
=============================================================================
