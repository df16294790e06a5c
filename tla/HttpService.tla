---------------------------- MODULE HttpService ----------------------------
(***************************************************************************)
(* A session of the HTTP service: run_http_service and extract_line of     *)
(* src/src/service/dispatcher.c, the state machine handle_http of          *)
(* src/src/service/finite_state.c, and the reassembly buffer of a          *)
(* connection (connection_append_data, session.c).                         *)
(*                                                                         *)
(* The peer sends a byte stream that TCP cuts into segments as it likes.   *)
(* A byte is CR, LF or another one; the text of the answer is left out.    *)
(***************************************************************************)
EXTENDS Integers, SequencesExt

CONSTANTS
  Streams,      \* the byte streams a peer may send
  RecvSize,     \* sizeof(buf) of run_http_service
  FirstCap,     \* the first capacity of the buffer, 4096
  MaxCap        \* bound of the model: the largest capacity realloc gives

ASSUME HttpAssumption ==
  /\ Streams \subseteq Seq({"CR", "LF", "x"})
  /\ RecvSize \in Nat \ {0}
  /\ FirstCap \in Nat \ {0}
  /\ MaxCap \in Nat

VARIABLES
  pc,         \* where the handler thread is
  state,      \* conn->state
  stream,     \* what the peer sends, all of it
  received,   \* history: how much of it recv has returned
  buffer,     \* conn->tcp_reassembly_buffer up to buffer_length
  capacity,   \* conn->buffer_capacity
  intact,     \* history: no append was dropped for want of memory
  lines,      \* history: the lines given to handle_http
  responses,  \* history: the answers sent
  fdOpen      \* the descriptor is open

vars == <<pc, state, stream, received, buffer, capacity, intact, lines, responses, fdOpen>>
----------------------------------------------------------------------------
(* Mutated forms, for mutation testing only: a CR that is kept, a close    *)
(* that is left out.                                                       *)
TextWithCR(buf, i) == SubSeq(buf, 1, i - 1)
CloseLeftOut == pc = "done" /\ fdOpen /\ UNCHANGED vars
----------------------------------------------------------------------------
(* The capacity connection_append_data asks for: the buffer is doubled     *)
(* until the data fit.                                                     *)
NewCap(cap, need) ==
  LET doubled[k \in 0 .. need] ==
        IF k = 0 THEN IF cap = 0 THEN FirstCap ELSE cap * 2 ELSE doubled[k - 1] * 2
  IN  doubled[Min({k \in 0 .. need : need <= doubled[k]})]

(* extract_line: the place of the first LF, 0 if there is none; the line   *)
(* before it, without one CR at its end; what stays in the buffer.         *)
LineEnd(buf) == SelectInSeq(buf, LAMBDA b : b = "LF")
LineText(buf, i) ==
  SubSeq(buf, 1, IF i > 1 /\ buf[i - 1] = "CR" THEN i - 2 ELSE i - 1)
AfterLine(buf, i) == SubSeq(buf, i + 1, Len(buf))

(* handle_http: the next state, and whether there is an answer. *)
NextState(s) == CASE s = "BANNER" -> "WAIT_CMD" [] s = "WAIT_CMD" -> "CLOSE" [] OTHER -> s
Answers(s) == s = "WAIT_CMD"
----------------------------------------------------------------------------
(* connection_create, on an accepted connection. *)
Init ==
  /\ pc = "start"
  /\ state = "BANNER"
  /\ stream \in Streams
  /\ received = 0
  /\ buffer = <<>>
  /\ capacity = 0
  /\ intact = TRUE
  /\ lines = <<>>
  /\ responses = 0
  /\ fdOpen = TRUE

(* handle_http is called without input before the first recv. *)
Start ==
  /\ pc = "start"
  /\ pc' = "recv"
  /\ state' = NextState(state)
  /\ responses' = IF Answers(state) THEN responses + 1 ELSE responses
  /\ UNCHANGED <<stream, received, buffer, capacity, intact, lines, fdOpen>>

(* recv returns n bytes, and connection_append_data stores them, or drops  *)
(* them when realloc fails.                                                *)
Recv(n) ==
  /\ pc = "recv"
  /\ n <= Len(stream) - received
  /\ received' = received + n
  /\ LET need == Len(buffer) + n
         data == SubSeq(stream, received + 1, received + n)
     IN  \/ /\ need <= capacity
            /\ buffer' = buffer \o data
            /\ UNCHANGED <<capacity, intact>>
         \/ /\ need > capacity
            /\ NewCap(capacity, need) <= MaxCap
            /\ buffer' = buffer \o data
            /\ capacity' = NewCap(capacity, need)
            /\ UNCHANGED intact
         \/ /\ need > capacity
            /\ intact' = FALSE
            /\ UNCHANGED <<buffer, capacity>>
  /\ pc' = "extract"
  /\ UNCHANGED <<state, stream, lines, responses, fdOpen>>

(* recv returns 0 or an error: the peer is gone.  An error may come before *)
(* all of the stream was read.                                             *)
RecvEnds ==
  /\ pc = "recv"
  /\ pc' = "done"
  /\ UNCHANGED <<state, stream, received, buffer, capacity, intact, lines, responses, fdOpen>>

(* A line is extracted and handled; the session is over when that left the *)
(* state machine in CLOSE.                                                 *)
HandleLine ==
  /\ pc = "extract"
  /\ LET i == LineEnd(buffer)
     IN  /\ i # 0
         /\ lines' = Append(lines, LineText(buffer, i))
         /\ buffer' = AfterLine(buffer, i)
  /\ state' = NextState(state)
  /\ responses' = IF Answers(state) THEN responses + 1 ELSE responses
  /\ pc' = IF state' = "CLOSE" THEN "done" ELSE "extract"
  /\ UNCHANGED <<stream, received, capacity, intact, fdOpen>>

(* handle_http copies the answer into memory that it does not test: with   *)
(* none left, the null pointer ends the whole process, in the middle of    *)
(* the line.  The kernel closes the descriptor.                            *)
HandleLineCrashes ==
  /\ pc = "extract"
  /\ LineEnd(buffer) # 0
  /\ Answers(state)
  /\ pc' = "crashed"
  /\ fdOpen' = FALSE
  /\ UNCHANGED <<state, stream, received, buffer, capacity, intact, lines, responses>>

(* No line yet, or no memory for one: back to recv. *)
NoLine ==
  /\ pc = "extract"
  /\ \/ LineEnd(buffer) = 0 /\ UNCHANGED intact
     \/ LineEnd(buffer) # 0 /\ intact' = FALSE
  /\ pc' = "recv"
  /\ UNCHANGED <<state, stream, received, buffer, capacity, lines, responses, fdOpen>>

Close ==
  /\ pc = "done"
  /\ fdOpen
  /\ fdOpen' = FALSE
  /\ UNCHANGED <<pc, state, stream, received, buffer, capacity, intact, lines, responses>>

Ended == ~fdOpen /\ UNCHANGED vars

Service ==
  \/ Start
  \/ \E n \in 1 .. RecvSize : Recv(n)
  \/ RecvEnds
  \/ HandleLine
  \/ HandleLineCrashes
  \/ NoLine
  \/ Close

Next == Service \/ Ended

Spec == Init /\ [][Next]_vars

(* The handler thread runs, and the peer sends the rest of its stream or   *)
(* closes the connection: recv does not block for ever.                    *)
FairSpec == Spec /\ WF_vars(Service)
----------------------------------------------------------------------------
(* The first line of a stream, as the peer means it: what comes before the *)
(* first LF, less a CR right before that.                                  *)
FirstLine(s) ==
  LET before == {i \in DOMAIN s : \A j \in 1 .. i : s[j] # "LF"}
      line == SubSeq(s, 1, Cardinality(before))
  IN  IF line # <<>> /\ Last(line) = "CR" THEN Front(line) ELSE line

(* However the stream was cut into segments, the session answers the first *)
(* line of it, once, as soon as its LF has been received; and before that  *)
(* it answers nothing.  Not even lost memory makes it answer twice, or     *)
(* answer without a line (that it may end the process instead is           *)
(* HandleLineCrashes); and connection_append_data never writes past the    *)
(* end of the buffer.                                                      *)
FirstLineAnswered ==
  /\ (intact /\ pc \in {"recv", "done"}) =>
       LET got == SubSeq(stream, 1, received)
       IN  IF \E i \in DOMAIN got : got[i] = "LF"
           THEN lines = <<FirstLine(got)>> /\ responses = 1
           ELSE lines = <<>> /\ responses = 0
  /\ responses <= 1 /\ (responses = 1 <=> state = "CLOSE")
  /\ Len(buffer) <= capacity

(* Every session comes to its end and gives back its descriptor, or takes  *)
(* the process with it.                                                    *)
SessionEnds == <>(~fdOpen)
=============================================================================
