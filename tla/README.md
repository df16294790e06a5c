# HoneyDew: a TLA+ verification project

HoneyDew is a multi-threaded honeypot in C. This directory holds TLA+ models of
its threads, its audit trail and its protocol services, TLC configurations that
check them on small instances, and TLAPS proofs of the central properties for
every size. Paths below are relative to the repository; `audit.c` is
`src/utilities/audit.c`, the services are in `src/service/`.

## 1. The system

| Part | State | Operations | Interacts with |
|---|---|---|---|
| `main` (`main.c`) | `g_running`, listener threads | start-up, signal handler, join, destroy, exit | everything |
| listeners and handlers (`main.c`) | one accepted connection per listener | accept, acquire, spawn; create, add, serve, remove, release | kernel descriptors, semaphore, session table |
| connection semaphore (`main.c`) | `count`, `max`, condition variable | acquire, release | listeners wait, handlers release |
| session table (`session.c`) | buckets of nodes | create, add, remove, destroy (`get` is never called) | handlers, `main` |
| audit trail (`audit.c`) | ring, numbering, log file, flush thread | init, record, flush, rotate, shutdown | handlers produce, the flush thread consumes, `main` stops it |
| logger (`logger.c`) | level, mutex, callback, file | log, set level, callback | every thread and the signal handler |
| SSH host key (`main.c`) | two files | directory, validate, generate | `ssh-keygen`, restarts |
| HTTP (`dispatcher.c`, `finite_state.c`, `session.c`) | reassembly buffer, FSM state | append, extract a line, answer | one handler thread |
| Telnet, SSH, FTP, SMTP | dialogue, login counter, buffers | one per line or key | audit trail (SMTP: none) |
| MySQL, PostgreSQL, QuestDB | start-up, login, queries; receive buffer | one per packet | audit trail |
| Redis | receive buffer shared by two parsers | one per segment and per command | audit trail |
| POP3, IMAP | user name, tag | one per segment | audit trail |
| DNS | one query | parse, answer | audit trail |
| service map (`dispatcher.c`) | a constant table | a port's service is called with the connection | handlers |

What is hard about it:

* *Threads.* A thread for each service, a detached thread for each connection,
  a flush thread. Descriptors are used again by the kernel as soon as they are
  closed. The stop signal may interrupt any thread anywhere.
* *Limits.* The ring is full, permits run out, descriptors run out, buffers are
  filled to the last byte, unsigned indices wrap.
* *Failure.* `malloc`, `pthread_create`, `accept`, `realloc`, writes to the log
  and `ssh-keygen` fail; the process is killed half-way through making a key.
* *Streams.* TCP cuts what peers send as it likes; several services take what
  one `recv` returns as one message.
* *End.* Nothing waits for handler threads when the process closes down.

`PROJECT.json` lists each hazard with its line and the properties that watch it.

## 2. Modules

| Module | Models | Composition |
|---|---|---|
| `AuditSpec` | what the trail promises: a bounded FIFO that numbers what it accepts | abstract |
| `AuditTrail` | `audit.c`: ring, mutex, flush thread, log file, shutdown | implements `AuditSpec` (`Abstract`) |
| `ConnSemaphore` | `conn_semaphore_t` | used by `Lifecycle` |
| `Lifecycle` | `main.c` threads, descriptors, session table, stop signal | extends `ConnSemaphore`, whose actions are part of its own |
| `HttpService` | reassembly buffer, `extract_line`, `handle_http`, `run_http_service` | |
| `TelnetSession` | `telnet_honeypot.c` | |
| `SshSession` | `ssh_honeypot.c` | |
| `Session` | what the services below share: place, local variables, events, replies, the descriptor | base |
| `FtpSession`, `SmtpSession`, `MySqlSession`, `RedisSession`, `DnsSession` | the service of that name | extend `Session` |
| `MailboxSession` | `pop3_honeypot.c`, `imap_honeypot.c` | extends `Session` |
| `PgSession` | `postgresql_honeypot.c`, `questdb_honeypot.c`, which share their start-up | extends `Session` |
| `ServiceMap` | `service_map` and the call of a service by `connection_handler` | composes the seven modules above |
| `HostKey` | `ensure_ssh_host_key` over crashes and restarts | |
| `Logger` | `utilities_log` and `signal_handler` | |
| `..._proof` | proofs about the module of that name; `Lifecycle_proof` has those about `ConnSemaphore`, `ServiceMap_proof` those about the modules it composes | extend it |
| `MC...` | values for the constants, and properties that only TLC needs | |

Each module has a section of *mutated forms*: plausible faults, one of which is
put in place of a definition to see that a property notices it (`mutants` in
`PROJECT.json`). They are used for nothing else.

### Correspondence to the code

*AuditTrail.* The variables are the fields of `audit_trail_t` and the program
counters of `main` and of the flush thread; `log`, `lost`, `sent`, `marked`
and `late` are history. A critical section of `trail->mutex` is one
action, except that the flush thread keeps the mutex over its drain loop, which
has one action per record. The test of `running` at the head of the loop is
outside the mutex and is an action of its own. `size_t` arithmetic is modulo
`WordMod`; that `Capacity` divides it is an assumption (4096 divides 2^64).
`pthread_cond_timedwait` wakes at any time, which its timeout justifies.

*ConnSemaphore.* `acquire` is the immediate case, falling asleep, and going on
after a wake-up (which tests again); `release` wakes one sleeper of any.

*Lifecycle.* One action per step between which another thread can act: accept,
acquire, spawn, `session_table_add`, the service's `close`, `session_table_remove`,
release; closing the descriptor and giving back the permit of a connection whose
thread could not be made are two. A failed allocation in `connection_create` or
`session_table_add`, which nobody tests, ends the process (`CreateFails`). The
kernel hands out the lowest free descriptor. Joining a listener that
was never started reads an uninitialized `pthread_t`: both outcomes are there. So
are both outcomes of using freed memory (`UseAfterFree` ends the process, the
other actions go on with what the memory still holds).

*Session modules.* One action per message, line or character, following the
code's branches; `audit` is the sequence of events the session records. Texts
are left out. `HttpService` lets TCP cut the stream anywhere, and ends the
process where the answer's memory is not there (`HandleLineCrashes`). `TelnetSession`
encodes items into bytes and runs the code's filter over them; a `recv` brings at most
`RecvSize - 1` bytes and may begin and stop within a command (`Segments`), of which
the rest comes with the next. `SshSession` takes libssh's messages and failures as
choices of the environment; the four calls of the set-up fail each on its own, and
`owned` says whether libssh would close the descriptor: `ssh_bind_accept_fd` may fail
before or after it has handed it to the session.

*Session and the modules that extend it.* `local` is a record of the local
variables of `run_..._service` and of histories, `pc` the place in it, `closes`
counts the calls of `close`. One instance of `ServiceMap` is one session;
sessions share nothing but the trail and the descriptors, which `AuditTrail` and
`Lifecycle` cover, and in MySQL a counter whose value is only sent. What bytes are depends on what the code looks at:

* `FtpSession`: one `recv` completes a batch of lines. `strncat` appends as many bytes
  as it is told to, and a bound below 0 is none, `size_t` being unsigned.
* `SmtpSession`: lines of bytes, read until CR LF or a full buffer; a verb is one
  byte. The Base64 decoder computes on the real alphabet. `send` and `recv` may
  fail in the middle of a dialogue.
* `MySqlSession`: packets by size and by the two places that are read; the receive
  buffer keeps what a shorter packet does not overwrite, and `username` is a
  pointer into it.
* `RedisSession`: the bytes of commands, inline or as arrays; a header and its
  number are one byte. TCP cuts anywhere. The buffer keeps what is behind the
  bytes that `memmove` moves, and `strstr` sees it.
* `PgSession`: the list of strings of a start-up message, cut at any byte; what
  lies behind an unfinished value is any of a few leftovers. `UserReads` is the last byte that
  `strncpy` may read of it. A segment is a sequence of messages, of which the query loop
  reads the first; each branch of a query sends its own ReadyForQuery.
* `MailboxSession`: segments with one line, several lines or a part of one.
* `DnsSession`: bytes are numbers; of a reply its kind, its size and the bytes of
  the receive buffer that it copies.

*HostKey.* The process may be killed after every step; `ssh-keygen` writes its
two files in several. A kill is taken to reach `ssh-keygen` as well, as one of the
process group or of the machine does; a child that outlives its parent and writes
beside the next start is left out, and so are the prefixes of a file that differ
only in how much of it is there.

*Logger.* A signal handler runs on top of its thread's own step, and the handler of
the other signal on top of that one.

## 3. Runs

Passing runs (bounds in the `.cfg` files):

| Run | Shows | Why the bounds are enough |
|---|---|---|
| `audit` | FIFO refinement, order of the log, counted drops, shutdown drains and ends, accepted records get written, the flush thread never finds its file closed | a ring of 2 with 4 records wraps, fills, drops and drains while shutting down |
| `lifecycle` | descriptors, nodes, objects and permits stay in step; nothing leaks; bound on served connections, no lost wake-up | 3 connections on 2 descriptors of one bucket, 2 permits: a descriptor is used again while its old node is there, and a listener sleeps while two handlers serve. Connections are interchangeable (symmetry) |
| `lifecycle_live` | every accepted connection ends; after the stop signal only a listener in `accept` holds up the program | 1 permit, 2 listeners: one always waits. No symmetry, which liveness forbids |
| `http` | the first line is answered once, under every segmentation and allocation failure, the one that ends the process included; the buffer is never overrun; the session ends | all streams of 5 bytes over CR, LF and another byte; the buffer doubles three times |
| `telnet` | a `recv` that begins between two items leaves their text, whatever it stops in; echo, attempts and trail agree | 2 whole items and parts of the commands before and behind them, every cut of every command, at most 5 bytes a `recv`; buffers of 3 and 2 bytes, which these fill |
| `ssh` | recorded commands are the edited ones; login at the last attempt; handler and libssh close the descriptor once, but for one path (`ClosedOnce`) | 6 keys on a buffer of 3 fill, erase, interrupt and submit |
| `services` | see below | every service with all the sessions of its bounds: FTP, 4 lines in batches of 2; SMTP, 4 lines on a mail of 5 bytes and lines of 16; MySQL, 3 packets of sizes on both sides of every offset; Redis, 2 commands in 3 segments cut anywhere, within the limits of the parsers and beyond them (one argument, and one byte of an argument, more than there is room for), on a buffer of 24 bytes, which NULs fill; PostgreSQL, every list cut at every byte; QuestDB and POP3, 3 and 4 segments; IMAP, 2 segments with every way to write a LOGIN; DNS, queries whose answer just fits or not, cut at every byte, and arbitrary bodies of 4 bytes. Bounds are per service, since a session has one |
| `host_key` | starts only with a whole private key and its public file; keeps good and foreign keys | 3 generated keys: two crashes in generation |
| `logger` | one writer, and the mutex is free when nobody writes; calls return unless a handler is stuck | 2 threads, 4 calls, 3 signals of 2 kinds, a callback that logs |

What `services` shows:

| Property | Says |
|---|---|
| `SessionAccounted` | on every way out of every service the descriptor is closed, once; seven services record one connection, first, and one disconnection, last, SMTP records nothing and MySQL no end before a login (see the observations) |
| `WithinBuffers` | the directory of FTP, the mail of SMTP, the buffer of Redis and the reply of DNS are never overrun; PostgreSQL and QuestDB read the user's name inside their buffer but for one case (see the observations) |
| `TrailTellsLogin`, `OneEventOneReply` | FTP: the trail tells who is logged in; each line has one event and one reply, and a session with a granted login only ends on QUIT or with its peer |
| `SmtpCapturesMeant`, `SmtpInStep` | the credentials captured are those encoded, whatever the padding; replies and lines stay in step, and no line of a mail is taken for a command |
| `RefusalsInStep` | MySQL: each packet is refused once, with the number after its own; the recorded name is the one sent, and refusals name it until a packet overwrites it |
| `RedisRecordsAll`, `RedisEndsOnRequest` | commands that come whole and are within the limits are recorded and answered as sent, however many are in a segment, and those beyond the limits do not touch the ones behind them; only QUIT, SHUTDOWN and the peer end a session |
| `PgUserAsNamed`, `QuestInStep` | the user recorded is the one named; each simple query of QuestDB that comes alone is recorded and followed by one ReadyForQuery, whichever branch answers it |
| `Pop3PairsHalves`, `ImapLoginAsMeant` | of segments of one line, no password is joined to the name of an earlier attempt; LOGIN is recorded as meant, in quotes or not |
| `DnsAnswersAsked` | a framed query is recorded with its name, marked as an attack just if it asks for a zone, and answered once, framed |

Runs that find a disagreement between the code and what the repository says of
it (`findings` in `PROJECT.json` quotes the lines):

| Run | What the code does |
|---|---|
| `audit_shutdown_loss` | a record accepted after the last drain is freed with the ring |
| `lifecycle_reuse` | removing by a descriptor already closed takes the node, and frees the object, of the connection that got it next |
| `redis_cut` | a command that TCP delivers in two parts is taken for two commands, neither of which was sent |

`lifecycle_reuse` is worth reading beside `TableBalanced`: the theft of a node is
a swap. The handler robbed later takes the node that was left, so nothing leaks
and no remove fails, which is why tests do not show it.

### Observations

The models follow the code also where a document or a log message says something
else. These points came up while modelling; no run is spent on them. The properties
say what does hold instead, and none of them claims what the last column says.

| Code | What it does | What is said |
|---|---|---|
| `audit.c:158` | the file opened at the start is the only one of the process: `write_record` calls `rotate_log_file` only while no file is open | README.md:54 and 301, docs/audit_pipeline.mmd:25 and 37: log files are rotated automatically |
| `audit.c:168` | a record whose write fails is gone, and no counter says so (`lost` is a history variable of the model) | nothing |
| `main.c:275` | the stop signal does not wake a listener in `accept` (`StopWaitsForAcceptOnly` says that this is all that delays the end) | main.c:155, "closing down gracefully" |
| `main.c:366` | `main` destroys the table and returns while handlers are serving (`UseAfterFree` has the outcomes) | main.c:369, "closed down gracefully" |
| `telnet_honeypot.c:289` | every pair is recorded as a failure, the one that opens the shell too (`DialogueInStep`) | README.md:897, a login is recorded as a success |
| `telnet_honeypot.c:293` | the shell opens after `TELNET_MAX_AUTH_ATTEMPTS` pairs | README.md:606-625, it opens after the first |
| `telnet_honeypot.c:132` | the filter begins anew with each `recv`: of a command cut in two, the second part is text of the line; an IAC that is the last byte of a `recv` is text as well (`LineIsText` is about a `recv` that begins between two items, and names the IAC) | telnet_honeypot.c:121 and README.md:990, IAC bytes are stripped |
| `ssh_honeypot.c:163` | the ways out before a shell is open (lines 80, 93, 105, 113, 169, ...) record no end, also when passwords are in the trail | README.md:96 and docs/connection_lifecycle.mmd:24, the whole life of a connection, its end recorded |
| `mysql_honeypot.c:289` | a session without a login records no end (`SessionAccounted`) | the same |
| `smtp_honeypot.c:248` | the SMTP service records nothing in the trail (`SessionAccounted`) | the same, and docs/connection_lifecycle.mmd:18, the connection is recorded |
| `finite_state.c:53` | memory that is not there ends the process (also session.c:37 and 79): `HandleLineCrashes`, `CreateFails` | nothing |
| `ssh_honeypot.c:103` | when `ssh_bind_accept_fd` fails after the session got the descriptor, `ssh_free` closes it and the handler closes the number again (the exception of `ClosedOnce`) | nothing |
| `ftp_honeypot.c:144` | the first password is refused | README.md:575, it is accepted |
| `mysql_honeypot.c:257` | two sessions may get the same connection ID: the mutex belongs to the connection, the counter to all | README.md:936, a greeting that conforms to the protocol |
| `mysql_honeypot.c:341` | refusals name what the latest long packet has at that place (`RefusalsInStep`) | README.md:937, the user name is that of the login |
| `smtp_honeypot.c:96` | a line that does not fit is read as several; its tail may be a command or the dot | smtp_honeypot.c:26, the mail ends with CR LF . CR LF |
| `redis_honeypot.c:633` | line ends behind the bytes moved are still seen: bytes of an earlier command may be taken again when a later one is cut | redis_honeypot.c:607, complete commands |
| `redis_honeypot.c:87` | an array of too many arguments is left to the inline parser, which takes each of its lines for a command; arguments that are too long are cut (`RedisRecordsAll` says how far it goes) | nothing |
| `redis_honeypot.c:222` | fixed replies have lengths that are not those of their strings; the error for an unknown command loses its CR LF when it is long | redis_honeypot.c:70, RESP |
| `pop3_honeypot.c:61` | what one `recv` returns is one command: of `USER u` and `PASS p` in one segment all is the name, no attempt is recorded, and a later `PASS q` goes with that name (`Pop3PairsHalves` speaks of segments) | pop3_honeypot.c:101, its own CAPA answer, PIPELINING |
| `imap_honeypot.c:96` | literals, and escapes inside quotes, are not understood | its own banner, LITERAL+ |
| `questdb_honeypot.c:340` | the SQL of a Parse message is neither logged nor recorded (`QuestInStep` speaks of simple queries) | README.md:90 and 298, SQL is captured |
| `questdb_honeypot.c:269` | the peer is let in, and the trail has a failure; messages behind the first of a segment are dropped, a Bind, Execute or Sync is not answered | nothing; the reply of the same login says it succeeded |
| `postgresql_honeypot.c:59` | a value without its NUL is read on behind the message and, near its end, behind the buffer (QuestDB alike; the exception of `WithinBuffers`) | nothing; `strnlen` in the line above takes care of the length |
| `dns_honeypot.c:180` | a frame cut by TCP is taken for a message without a length, and the length for its identifier | nothing |
| `dns_honeypot.c:116` | an answer to a question without its class copies up to two bytes that nobody sent (`WithinBuffers` says no more) | nothing; the sizes are only tested against the reply's buffer |
| `logger.c:205` | the signal handler waits for the mutex that its own thread holds, and every other thread at its next log line (`Stuck`; `OneWriter` and `CallsReturn` say that nothing else can) | main.c:155, "closing down gracefully"; README.md:153, made safe for threads by a mutex |

### Fairness

`AuditTrail`: the flush thread is scheduled, and a shutdown that began goes on;
nobody has to record or to shut down. `Lifecycle`: every listener, handler and `main` runs; a service ends at some
time (its peer leaves); nobody has to connect or send a signal. `HttpService`:
the handler runs and the peer sends or leaves. `Logger`: a thread that is not
blocked runs. Only weak fairness is used. Where a mutex is contended, weak
fairness of the whole thread is enough because critical sections are finite.

Deadlock is checked except in `Lifecycle` and `Logger`, whose processes really may
stop: the process exits, peers connect no more, or a handler is stuck.

## 4. Proofs

`AuditTrail_proof` proves for any set of producers, any capacity that divides the
range of `size_t` (`RingAssumption`) and any bounds:

* `Invariance`: `Spec => []IInv`. The properties are not inductive alone. `IInv`
  adds how the phases of `main` and of the flush thread go together (`Phases`:
  the flush thread leaves its loop only after `running` was cleared, and `main`
  closes the file only after the join), that the next number follows from what
  was accepted (`Numbered`), that what was accepted before the shutdown is marked
  (`MarkedDrained`), and that log, ring and coming calls are ordered for each
  producer (`AcceptedInOrder`). The proof has one lemma per conjunct; two lemmas
  (`RecordEffect`, `FlushOneEffect`) say what the two actions on the ring do to
  it, and `NextHeadValue` and `OldestValue` reduce the modular arithmetic to a
  case distinction, so that only they need the divisibility assumption.
* `TypeCorrect`, `RingCorrect`, `ReadsOldestCorrect`, `LogOrderCorrect`,
  `ConservedCorrect`, `ShutdownDrainsCorrect`, `FileOpenCorrect`: from `Invariance`.
* `Refinement`: `Spec => ImplementsFifo`. `Pending`, the ring read from the oldest
  record on, is the abstract queue; recording appends to it, flushing removes its
  head, every other step stutters.
* `CallsCorrect`: every call is accepted or counted as dropped. What is counted is
  the set `Calls` of pairs of a producer and a number; `AccountIInv` adds that it is
  finite, so that one more call is one more element.

`Lifecycle_proof` first proves of the semaphore alone, for any finite sets of
listeners and connections and any positive number of permits, `BoundCorrect` (never
more served than permits) and `WakeupCorrect` (no lost wake-up), from `SemIInv`,
which adds that sleepers and woken listeners are disjoint. Then, of the whole
program and any set of descriptors and number of buckets (`LifecycleAssumption`):

* `LifeInvariance`. `LifeIInv` adds to the properties that an accepted connection
  is in the hands of one listener, which does nothing else until it has passed it
  on (`Handoff`), that a connection keeps its descriptor (`FdsGiven`), and that
  only connections that entered the table are in it or freed by it (`TableIInv`).
  Without `Handoff` two listeners might spawn, or close, the same connection.
* `DescriptorsCorrect`, `PermitsCorrect` and `TableCorrect` follow. The last is a
  counting argument: a remove takes one node out of those of its descriptor and
  its caller out of the registered ones of the same descriptor, whichever
  connection the node belongs to; that nodes are in the bucket of their descriptor
  and not there twice is what makes the bucket's sequence and the set `Nodes` agree.
* `ProgramWakeups` carries `WakeupCorrect` over to the program: each of its steps is a
  step of the semaphore or leaves it alone (the lemma `SemaphoreCalls`).

`Logger_proof`: `LogLinesWhole`, for any number of threads and calls, with and
without a callback. `OneWriter` is inductive beside the types.

`HostKey_proof`, for any number of starts and keys. `KeyIInv` says what each place
of start-up knows of the two files (`Progress`: there is no public file while a
private one is being written, ...), that a pair found is still there (`PairKept`),
and that the files are never of two different pairs (`OfOnePair`). That the latter
holds of the files before the first start is an assumption (`FilesAssumption`): the
code compares nothing, so that a whole private key beside the public file of another
would be served as it is. `WholePairServed`, `IdentitySafe` and the action
property `ForeignFileSafe` follow.

`HttpService_proof`, for all streams of any length, segments, and capacities:
`HttpInvariance` and `HttpAnswersFirstLine`. `HttpIInv` says that until a line is
handled the buffer is exactly what was received (unless `realloc` failed), and
that `recv` is reached only without a line in it; so the line that is found is
the first one of the stream. `NewCapFits` shows that the doubling loop stops at a
capacity that is enough, `LineTextIsFirstLine` that `extract_line` cuts what
`FirstLine` defines.

`SshSession_proof`: `SshInvariance`, `SshLoginCorrect`;
`TelnetSession_proof`: `TelnetInvariance`, `TelnetInStep`; for any limits on attempts, lines
and names. Both invariants read the trail by place: where the handler stands says
how many attempts were answered, and that number says what each event of the trail is.

`SshCommandsCorrect`: the commands recorded are the lines typed. `Lines` folds the
keys into the line that stands after each of them; `CommandIInv` says that `cmd_buf`
is the last of these (`LineInBuffer`), that the events of commands stand at
`MaxAuth + 2` and behind, as many as there are submitted keys, and that the event of
a key is at the place given by how many were submitted before it (`CommandsByPlace`).

`TelnetReadsText`: the line of a `recv` that begins between two items is the text that
was meant, up to where it stops. `LineIInv` is what one read
makes of one input (`IsLineOf`), and its proof is about the filter: `FilterText` shows,
by induction from the end of the input, that from the first byte of every item on
`telnet_strip_iac` leaves the meanings of the items from there on. `StepIs` is the step
of the induction: the filter goes over a plain byte, an escaped IAC, an option, a
sub-negotiation or another command as a whole, and lands on the next item; of a command
that the `recv` stops in it leaves nothing but an IAC that came last.

`ServiceMap_proof`, for all sets of messages and all sizes that the assumptions of the
session modules allow; their values in the code are among them:

| Theorem | From | Why the property is not inductive |
|---|---|---|
| `SessionsAccounted` | `Account`: the trail is open (connection first, no end) until the place `ended` and complete there; MySQL has an end only behind a login | the property speaks of the places of events; each step only adds at the end |
| `FtpAnswersOnce` | `FtpCounts`: the counts of lines, events and replies, with the types of the session's variables and the directory absolute and within its buffer | what a line does depends on all of them; that the limit on attempts never ends a session needs `FtpGrantOn <= FtpMaxAttempts` |
| `FtpTrailTellsLogin` | `FtpTells`: at every place of the trail, and for its end the variables of the session | the variables are what the next event is made from |
| `RedisServesOn`, `BuffersHold` | `RedisFits`, `SmtpFits`, `DnsFits`, `FtpCounts`, with `StrncatFits` (the two bounds of `ftp_handle_cwd` leave room for the NUL) and `NameReadInside` (where `strncpy` stops) | what the parsers consume has to be a number within the buffer |
| `MySqlRefuses` | `MySqlTells`: refusals by packet, the sequence byte of the latest long packet in the receive buffer, and the name of the login there while no later packet reaches it | a name is a pointer into a buffer that later packets overwrite |
| `Pop3Pairs` | `Pop3Tells`: the name kept is that of the latest USER or PASS in the trail | PASS reads the variable, the property the trail |
| `SmtpStaysInStep` | `SmtpTells`: while the stream is intact nothing is left over from a line, every reply is to a line that suits it (`AllAnswered`), and the place of the dialogue says what the last reply was and what has come since: no dot in a mail, nothing behind a challenge, only blank lines elsewhere (`SmtpPlace`) | the property compares replies with lines; which line a reply is to depends on the dialogue |
| `SmtpCaptures` | `CaptureIInv`: every record holds what was decoded of its text; with `DecodedBytes`: `base64_decode` of the encoding of any bytes is these bytes and at most two zeros behind them (`SextetIs`: each digit is found at its own place; `TripleSextets`: four sextets give back the 24 bits; `EqualParts`: groups of equal length are found at multiples of it), and `PlainMeant`, `LoginPartMeant`: the strings between the NULs, with or without padding | the property is about what the peer encoded, the step about the text it received |
| `PgFindsUser` | `UserKept`: the name waiting for its password, and the name of an attempt, are those the search may find in the message kept; with what `UserNames` is of a list of parameters that is whole | the property is about the list, the step about the strings and NULs in the buffer |
| `QuestAnswersOnce` | `QuestTells`: not logged in and nothing answered, or one ready message more than queries in the segments so far, and an event for each query at its place | what is ready has to be counted together with what was asked |
| `DnsAnswersQuestion` | `DnsTells`: nothing is recorded before the query; with `QuestionAsks` (where `Question` puts the labels), `FrameFound` (the length in front is recognized) and `NameFound`: from the place of each label on, `dns_parse_domain_name` finds this and the labels behind it, by induction from the last | the property is about the question, the step about bytes |
| `ImapParsesLogin` | `ImapTold`: an attempt has behind it the command it was parsed from; with `LoginArgsMeant`, what the parser makes of every way to write a LOGIN | the property is about what was meant, the step about what is parsed |

Where these proofs need something of a recursive function (the arguments of an
array, the labels of a name, the doubling of the capacity), that the function exists
and that its values are of their type is shown by induction in the form of
`InductionBySet`: the set of the numbers for which it holds is all of `Nat`.

Assumptions: every theorem rests on the named `ASSUME`s of its modules, which TLC
evaluates for the instances, and on nothing else. They are types, sizes that are not
0, room for the texts the code itself puts into a buffer, and markers (`Nobody`,
`NoConn`, `EmptyUser`) that are not values. `MailboxAssumption` further says that a
LOGIN has a tag before it and that words have no quote inside, which IMAP would
have to escape and the code does not understand (see the observations). Those about
peers say what the format itself demands: a line of SMTP has no CR LF inside, a
parameter of PostgreSQL no NUL, a text of Telnet no IAC that is not escaped, a label
of DNS 1 to 63 bytes (here without NUL), a user name or password of SMTP no NUL.

Only model-checked, and why:

| Property | Reason |
|---|---|
| `AcceptedIsWritten`, `ShutdownEnds`, `AcceptedIsFinished`, `StopWaitsForAcceptOnly`, `SessionEnds`, `CallsReturn` | liveness, which is beyond the prover |
| `ClosedOnce` | finite: nothing of it depends on a constant |
| `RedisRecordsAll` | what `strtok_r` makes of a line, a fold with a filter (`FoldLeft`, `SelectSeq`), which the provers do not see into, for commands that follow each other in the buffer |

## 5. Not modelled, and the plan

Not modelled: `handle_ssh` and `extract_ssh_banner`, `session_table_get` and
`connection_consume_buffer` (no callers), formatting and output of the logger,
the contents of packets and texts, identifiers from random sources, the
configuration (its values are constants), the build. The overlong `addr_len` in
`accept` concerns memory layout and is out of scope.

`utilities_enable_file_logging` and the masking, progress, retry and CloudWatch helpers
of the logger have no caller.

What could come next:

1. Proofs: `RedisRecordsAll`, for arrays, by an induction as in `NameFound`.
2. Composition: sessions as producers of the audit trail.
