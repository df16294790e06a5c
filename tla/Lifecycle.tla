----------------------------- MODULE Lifecycle -----------------------------
(***************************************************************************)
(* The life of a connection: the listener threads and the handler threads  *)
(* of src/main.c, the session table of src/src/service/session.c, the      *)
(* semaphore between them (ConnSemaphore), the stop signal and the end of  *)
(* main.  The kernel gives out the lowest free descriptor, and does so     *)
(* again as soon as a handler has closed one.                              *)
(*                                                                         *)
(* What a protocol service does between its start and its close of the     *)
(* descriptor is left to the session modules; here it is one step.         *)
(***************************************************************************)
EXTENDS ConnSemaphore, SequencesExt

CONSTANTS
  Fds,              \* the descriptors left for connections (RLIMIT_NOFILE)
  TableSize         \* SESSION_TABLE_SIZE

NoConn == "no connection"
NoFd == -1

ASSUME LifecycleAssumption ==
  /\ NoConn \notin Conns
  /\ Fds \subseteq Nat
  /\ TableSize \in Nat \ {0}

VARIABLES
  running,    \* g_running
  mainPc,     \* where main is
  lpc,        \* where each listener thread is
  lconn,      \* the connection each listener has accepted and not passed on
  port,       \* the listener each connection was made to
  cstate,     \* where each connection and its handler thread are
  fd,         \* the descriptor of each connection
  openFds,    \* the descriptors of connections open in the kernel
  table,      \* session_bucket: the connections of each bucket, newest first
  freed,      \* the connection objects passed to connection_destroy
  misused     \* history: handlers that used freed memory

netVars == <<port, cstate, fd, openFds>>
vars == <<running, mainPc, lpc, lconn, port, cstate, fd, openFds, table, freed,
          count, asleep, woken, inside, misused>>

(* Handler threads between session_table_add and session_table_remove. *)
Registered == {c \in Conns : cstate[c] \in {"serving", "closed"}}

(* Threads run while the process lives. *)
Alive == mainPc \notin {"exited", "crashed"}
----------------------------------------------------------------------------
(* Mutated forms, for mutation testing only: too much taken out of a       *)
(* bucket, a descriptor closed again, a permit not given back.             *)
RemoveAll(bucket, f) == SelectSeq(bucket, LAMBDA c : fd[c] # f)
CloseAgain(c) ==
  /\ Alive
  /\ cstate[c] = "removed"
  /\ cstate' = [cstate EXCEPT ![c] = "done"]
  /\ openFds' = openFds \ {fd[c]}
  /\ SemRelease(c)
  /\ UNCHANGED <<running, mainPc, lpc, lconn, port, fd, table, freed, misused>>
KeepPermit(c) ==
  /\ Alive
  /\ cstate[c] = "removed"
  /\ cstate' = [cstate EXCEPT ![c] = "done"]
  /\ UNCHANGED <<running, mainPc, lpc, lconn, port, fd, openFds, table, freed, semVars, misused>>
----------------------------------------------------------------------------
(* accept returns the lowest descriptor that is free. *)
FreeFds == IF Fds \subseteq openFds THEN {} ELSE {Min(Fds \ openFds)}

(* hash_int *)
Hash(f) == f % TableSize

(* session_table_add puts a node at the head of its bucket. *)
Pushed(bucket, c) == <<c>> \o bucket

(* session_table_remove takes the first node with descriptor f, whoever    *)
(* added it: the place of that node, 0 if there is none.                   *)
FirstWith(bucket, f) == SelectInSeq(bucket, LAMBDA c : fd[c] = f)

(* The bucket without that node. *)
Removed(bucket, f) == IF FirstWith(bucket, f) = 0 THEN bucket
                      ELSE RemoveAt(bucket, FirstWith(bucket, f))

(* The connections in the table. *)
Nodes == UNION {ToSet(table[h]) : h \in DOMAIN table}

(* The table is there until main has called session_table_destroy. *)
TableAlive == mainPc \in {"spawn", "join"}
----------------------------------------------------------------------------
Init ==
  /\ running = TRUE
  /\ mainPc = "spawn"
  /\ lpc = [l \in Listeners |-> "none"]
  /\ lconn = [l \in Listeners |-> NoConn]
  /\ port = [c \in Conns |-> CHOOSE l \in Listeners : TRUE]
  /\ cstate = [c \in Conns |-> "none"]
  /\ fd = [c \in Conns |-> NoFd]
  /\ openFds = {}
  /\ table = [h \in 0 .. (TableSize - 1) |-> <<>>]
  /\ freed = {}
  /\ SemInit
  /\ misused = {}

(* main starts a listener thread, which may fail; the loop goes on. *)
StartListener(l) ==
  /\ mainPc = "spawn"
  /\ lpc[l] = "none"
  /\ \E s \in {"setup", "unstarted"} : lpc' = [lpc EXCEPT ![l] = s]
  /\ mainPc' = IF \A k \in Listeners \ {l} : lpc[k] # "none" THEN "join" ELSE "spawn"
  /\ UNCHANGED <<running, lconn, netVars, table, freed, semVars, misused>>

(* socket, bind and listen; each may fail, and then the thread ends. *)
ListenerSetup(l) ==
  /\ Alive
  /\ lpc[l] = "setup"
  /\ \E s \in {"test", "ended"} : lpc' = [lpc EXCEPT ![l] = s]
  /\ UNCHANGED <<running, mainPc, lconn, netVars, table, freed, semVars, misused>>

(* while (g_running) *)
ListenerTest(l) ==
  /\ Alive
  /\ lpc[l] = "test"
  /\ lpc' = [lpc EXCEPT ![l] = IF running THEN "accept" ELSE "ended"]
  /\ UNCHANGED <<running, mainPc, lconn, netVars, table, freed, semVars, misused>>

(* A peer connects; the kernel keeps the connection until it is accepted. *)
Connect(c, l) ==
  /\ Alive
  /\ cstate[c] = "none"
  /\ lpc[l] \in {"test", "accept", "acquire", "spawn", "giveback"}
  /\ cstate' = [cstate EXCEPT ![c] = "pending"]
  /\ port' = [port EXCEPT ![c] = l]
  /\ UNCHANGED <<running, mainPc, lpc, lconn, fd, openFds, table, freed, semVars, misused>>

Accept(l, c) ==
  /\ Alive
  /\ lpc[l] = "accept"
  /\ cstate[c] = "pending" /\ port[c] = l
  /\ \E f \in FreeFds :
       /\ fd' = [fd EXCEPT ![c] = f]
       /\ openFds' = openFds \cup {f}
  /\ cstate' = [cstate EXCEPT ![c] = "accepted"]
  /\ lconn' = [lconn EXCEPT ![l] = c]
  /\ lpc' = [lpc EXCEPT ![l] = "acquire"]
  /\ UNCHANGED <<running, mainPc, port, table, freed, semVars, misused>>

(* accept fails on a connection that was aborted, which is then gone, or   *)
(* for want of a descriptor, which leaves it pending; the loop goes on.    *)
AcceptFails(l, c) ==
  /\ Alive
  /\ lpc[l] = "accept"
  /\ cstate[c] = "pending" /\ port[c] = l
  /\ \/ cstate' = [cstate EXCEPT ![c] = "refused"]
     \/ FreeFds = {} /\ cstate' = cstate
  /\ lpc' = [lpc EXCEPT ![l] = "test"]
  /\ UNCHANGED <<running, mainPc, lconn, port, fd, openFds, table, freed, semVars, misused>>

(* conn_semaphore_acquire *)
Acquire(l) ==
  /\ Alive
  /\ lpc[l] = "acquire"
  /\ \/ /\ SemAcquire(l, lconn[l]) \/ SemResume(l, lconn[l])
        /\ lpc' = [lpc EXCEPT ![l] = "spawn"]
     \/ /\ SemSleep(l) \/ SemSleepAgain(l)
        /\ lpc' = lpc
  /\ UNCHANGED <<running, mainPc, lconn, netVars, table, freed, misused>>

(* pthread_cond_wait in it may return without a signal. *)
SpuriousWake(l) ==
  /\ Alive
  /\ SemSpuriousWake(l)
  /\ UNCHANGED <<running, mainPc, lpc, lconn, netVars, table, freed, misused>>

SpawnHandler(l) ==
  /\ Alive
  /\ lpc[l] = "spawn"
  /\ cstate' = [cstate EXCEPT ![lconn[l]] = "started"]
  /\ lconn' = [lconn EXCEPT ![l] = NoConn]
  /\ lpc' = [lpc EXCEPT ![l] = "test"]
  /\ UNCHANGED <<running, mainPc, port, fd, openFds, table, freed, semVars, misused>>

(* malloc or pthread_create fails: the listener closes the descriptor, *)
SpawnFails(l) ==
  /\ Alive
  /\ lpc[l] = "spawn"
  /\ openFds' = openFds \ {fd[lconn[l]]}
  /\ cstate' = [cstate EXCEPT ![lconn[l]] = "turned"]
  /\ lpc' = [lpc EXCEPT ![l] = "giveback"]
  /\ UNCHANGED <<running, mainPc, lconn, port, fd, table, freed, semVars, misused>>

(* and then gives the permit back: between the two another listener may    *)
(* get the descriptor, but not the permit.                                 *)
GiveBack(l) ==
  /\ Alive
  /\ lpc[l] = "giveback"
  /\ SemRelease(lconn[l])
  /\ cstate' = [cstate EXCEPT ![lconn[l]] = "refused"]
  /\ lconn' = [lconn EXCEPT ![l] = NoConn]
  /\ lpc' = [lpc EXCEPT ![l] = "test"]
  /\ UNCHANGED <<running, mainPc, port, fd, openFds, table, freed, misused>>
----------------------------------------------------------------------------
(* connection_handler: connection_create and session_table_add. *)
HandlerAdd(c) ==
  /\ Alive
  /\ cstate[c] = "started"
  /\ cstate' = [cstate EXCEPT ![c] = "serving"]
  /\ IF TableAlive
     THEN /\ table' = [table EXCEPT ![Hash(fd[c])] = Pushed(@, c)]
          /\ UNCHANGED misused
     ELSE misused' = misused \cup {c} /\ UNCHANGED table
  /\ UNCHANGED <<running, mainPc, lpc, lconn, port, fd, openFds, freed, semVars>>

(* calloc or malloc fails in one of the two, which do not test the result: *)
(* the process is brought down.                                            *)
CreateFails(c) ==
  /\ Alive
  /\ cstate[c] = "started"
  /\ mainPc' = "crashed"
  /\ UNCHANGED <<running, lpc, lconn, netVars, table, freed, semVars, misused>>

(* The service ends and closes the descriptor, with conn still in use. *)
HandlerClose(c) ==
  /\ Alive
  /\ cstate[c] = "serving"
  /\ openFds' = openFds \ {fd[c]}
  /\ cstate' = [cstate EXCEPT ![c] = "closed"]
  /\ UNCHANGED <<running, mainPc, lpc, lconn, port, fd, table, freed, semVars, misused>>

(* session_table_remove(a->sessions, fd): by descriptor, not by object. *)
HandlerRemove(c) ==
  /\ Alive
  /\ cstate[c] = "closed"
  /\ cstate' = [cstate EXCEPT ![c] = "removed"]
  /\ LET bucket == table[Hash(fd[c])]
         n == FirstWith(bucket, fd[c])
     IN  IF TableAlive
         THEN /\ table' = [table EXCEPT ![Hash(fd[c])] = Removed(bucket, fd[c])]
              /\ freed' = IF n = 0 THEN freed ELSE freed \cup {bucket[n]}
              /\ UNCHANGED misused
         ELSE misused' = misused \cup {c} /\ UNCHANGED <<table, freed>>
  /\ UNCHANGED <<running, mainPc, lpc, lconn, port, fd, openFds, semVars>>

(* conn_semaphore_release; the thread ends. *)
HandlerRelease(c) ==
  /\ Alive
  /\ cstate[c] = "removed"
  /\ cstate' = [cstate EXCEPT ![c] = "done"]
  /\ SemRelease(c)
  /\ UNCHANGED <<running, mainPc, lpc, lconn, port, fd, openFds, table, freed, misused>>

(* A handler that uses a connection or a table that was freed may bring    *)
(* the process down; the other outcome, that the memory still holds what   *)
(* it held, is in the actions above.                                       *)
UseAfterFree(c) ==
  /\ Alive
  /\ \/ cstate[c] = "serving" /\ c \in freed
     \/ cstate[c] \in {"started", "closed"} /\ ~TableAlive
  /\ mainPc' = "crashed"
  /\ misused' = misused \cup {c}
  /\ UNCHANGED <<running, lpc, lconn, netVars, table, freed, semVars>>
----------------------------------------------------------------------------
(* SIGINT or SIGTERM, the first one or another: signal_handler clears      *)
(* g_running.  The thread that runs the handler may be a listener in       *)
(* accept, whose call then fails with EINTR or is restarted, depending on  *)
(* the C library; the others stay in accept.                               *)
StopSignal ==
  /\ Alive
  /\ running' = FALSE
  /\ \/ lpc' = lpc
     \/ \E l \in Listeners : lpc[l] = "accept" /\ lpc' = [lpc EXCEPT ![l] = "test"]
  /\ UNCHANGED <<mainPc, lconn, netVars, table, freed, semVars, misused>>

(* main joins the listeners in turn.  Joining one that pthread_create did  *)
(* not start reads an uninitialized pthread_t: the call fails and main     *)
(* goes on, or the process crashes.                                        *)
JoinListeners ==
  /\ mainPc = "join"
  /\ \/ /\ \A l \in Listeners : lpc[l] \in {"ended", "unstarted"}
        /\ mainPc' = "destroy"
     \/ /\ \E l \in Listeners : lpc[l] = "unstarted"
        /\ mainPc' = "crashed"
  /\ UNCHANGED <<running, lpc, lconn, netVars, table, freed, semVars, misused>>

(* session_table_destroy: every connection left in the table is destroyed. *)
DestroyTable ==
  /\ mainPc = "destroy"
  /\ freed' = freed \cup Nodes
  /\ table' = [h \in DOMAIN table |-> <<>>]
  /\ mainPc' = "audit"
  /\ UNCHANGED <<running, lpc, lconn, netVars, semVars, misused>>

(* audit_shutdown (module AuditTrail); then main returns. *)
MainReturns ==
  /\ mainPc = "audit"
  /\ mainPc' = "exited"
  /\ UNCHANGED <<running, lpc, lconn, netVars, table, freed, semVars, misused>>

ListenerStep(l) ==
  \/ StartListener(l) \/ ListenerSetup(l) \/ ListenerTest(l)
  \/ Acquire(l) \/ SpawnHandler(l) \/ SpawnFails(l) \/ GiveBack(l)
  \/ \E c \in Conns : Accept(l, c) \/ AcceptFails(l, c)

HandlerStep(c) == HandlerAdd(c) \/ HandlerClose(c) \/ HandlerRemove(c) \/ HandlerRelease(c)

MainStep == JoinListeners \/ DestroyTable \/ MainReturns

Next ==
  \/ \E l \in Listeners : ListenerStep(l)
  \/ \E c \in Conns : HandlerStep(c)
  \/ \E c \in Conns : CreateFails(c) \/ UseAfterFree(c)
  \/ \E l \in Listeners : SpuriousWake(l)
  \/ \E c \in Conns, l \in Listeners : Connect(c, l)
  \/ StopSignal
  \/ MainStep

Spec == Init /\ [][Next]_vars

(* Every thread is scheduled.  A peer leaves at some time, so that its     *)
(* service ends; nobody has to connect and nobody has to send a signal.    *)
FairSpec ==
  /\ Spec
  /\ \A l \in Listeners : WF_vars(ListenerStep(l))
  /\ \A c \in Conns : WF_vars(HandlerStep(c))
  /\ WF_vars(MainStep)
----------------------------------------------------------------------------
(* The connections whose descriptor is open. *)
Open == {c \in Conns : cstate[c] \in {"accepted", "started", "serving"}}

(* The connections that hold a permit of the semaphore. *)
Admitted == {c \in Conns : \/ cstate[c] \in {"turned", "started", "serving", "closed", "removed"}
                           \/ \E l \in Listeners : lconn[l] = c /\ lpc[l] = "spawn"}

(* Every thread that closes a descriptor closes its own: the descriptors   *)
(* open in the kernel are those of the connections not yet closed, and no  *)
(* two of these share one, however often descriptors are used again.       *)
DescriptorsOwned ==
  /\ openFds = {fd[c] : c \in Open}
  /\ \A c, d \in Open : fd[c] = fd[d] => c = d

(* For each descriptor the table holds as many nodes as there are handlers *)
(* between session_table_add and session_table_remove with it: a handler   *)
(* that takes the node of another leaves its own for the other to take, so *)
(* that no remove comes up empty and no node stays behind.  Each remove    *)
(* destroys one connection object, so that none is leaked either.  Nor     *)
(* does the table ever point to freed memory: session_table_remove reads   *)
(* the descriptor of every node it passes.  Each node is in the bucket of  *)
(* its descriptor, and no connection has two.                              *)
TableBalanced ==
  /\ Nodes \cap freed = {}
  /\ \A h \in DOMAIN table : \A i, j \in DOMAIN table[h] :
       Hash(fd[table[h][i]]) = h /\ (table[h][i] = table[h][j] => i = j)
  /\ TableAlive =>
       /\ \A f \in Fds : Cardinality({c \in Nodes : fd[c] = f})
                           = Cardinality({c \in Registered : fd[c] = f})
       /\ Cardinality(freed) = Cardinality({c \in Conns : cstate[c] \in {"removed", "done"}})

(* Permits are held by the connections between acquire and release and by  *)
(* nobody else, so the semaphore bounds the handler threads.               *)
PermitsMatchHandlers == inside = Admitted /\ ServedWithinMax

(* A connection that was accepted is served to its end or turned away, and *)
(* gives back its permit, unless the process is over: listeners that wait  *)
(* for permits never wait for each other.                                  *)
AcceptedIsFinished ==
  \A c \in Conns : cstate[c] = "accepted" ~> (cstate[c] \in {"refused", "done"} \/ ~Alive)

(* README.md, 65: every connection is managed through the session table.   *)
(* While its handler serves it, a connection is in the table.              *)
ServedIsInTable == \A c \in Conns : TableAlive /\ cstate[c] = "serving" => c \in Nodes

(* Once the stop signal was handled the program closes down, and the only  *)
(* thing that can hold it up is a listener that waits in accept: not the   *)
(* semaphore, the table or the handlers.                                   *)
StopWaitsForAcceptOnly ==
  ~running ~> (~Alive \/ \E l \in Listeners : lpc[l] = "accept")
=============================================================================
