--------------------------- MODULE PipeTransfer ----------------------------
(***************************************************************************)
(* pipe_send and pipe_receive of src/pipes_unix.c, byte by byte: several     *)
(* calls of each, made by any threads and processes, on one FIFO.  A send    *)
(* is made once; a receive is made once, as by a subscribing client, or again *)
(* and again, as by the loops of the client and of the server.               *)
(***************************************************************************)
EXTENDS Integers, Sequences, FiniteSets

CONSTANTS
    Sends,      \* calls of pipe_send, each with a frame of its own
    Receives,   \* calls of pipe_receive that may be under way together
    Size,       \* data_size of each send
    Attempts,   \* the time-out of a send, in attempts to open of 50 ms
    Capacity,   \* how many bytes the FIFO holds
    Atomic,     \* PIPE_BUF: a write of so many bytes enters whole or not at all
    Chunk,      \* the buffer of pipe_receive, 2048 bytes in the code
    Patience,   \* the time-out of each receive, in polls of 50 ms
    Once,       \* the receives that are made once
    Wrap        \* SIZE_MAX + 1

ASSUME PipeAssumption ==
    /\ Sends \cap Receives = {}
    /\ {Capacity, Atomic, Chunk, Attempts, Wrap} \subseteq Nat \ {0}
    /\ Atomic <= Capacity
    /\ Size \in [Sends -> 1..(Wrap - 2)]
    /\ Patience \in [Receives -> Nat \ {0}]

VARIABLES
    send,       \* of each send: where it is (pc), its failed attempts to open, its
                \* total_bytes_written (a size_t) and its rc
    receive,    \* of each receive: where it is (pc), whether *data is not NULL
                \* (alloc), the bytes copied as places in the stream (got), its
                \* time_elapsed in polls (idle), its rc; whether the FIFO was open for
                \* writing since it opened it (met: POLLHUP may come); and as history
                \* how many polls did wait, and whether another receive was under way
    stream,     \* history: every byte that entered the FIFO, in order
    front,      \* how many bytes of the stream have left the FIFO
    exhausted   \* history: a realloc failed

vars == <<send, receive, stream, front, exhausted>>

NewSend == [pc |-> "none", tries |-> 0, total |-> 0, rc |-> "NO_DATA_AVAILABLE"]

NewReceive == [pc |-> "none", alloc |-> FALSE, got |-> <<>>, idle |-> 0,
               rc |-> "NO_DATA_AVAILABLE", met |-> FALSE, waited |-> 0, mixed |-> FALSE]

Init ==
    /\ send = [s \in Sends |-> NewSend]
    /\ receive = [r \in Receives |-> NewReceive]
    /\ stream = <<>> /\ front = 0
    /\ exhausted = FALSE

-----------------------------------------------------------------------------
(* The FIFO *)

Byte(s, i) == [of |-> s, at |-> i]

\* The bytes first to last of the frame of s.
Piece(s, first, last) == [i \in 1..(last - first + 1) |-> Byte(s, first + i - 1)]

Writers == {s \in Sends : send[s].pc \in {"poll", "write", "close"}}
Readers == {r \in Receives : receive[r].pc \in {"poll", "read", "close"}}

Held == Len(stream) - front
Free == Capacity - Held

\* POLLOUT: a page of PIPE_BUF bytes is free.
Writable == Free >= Atomic

Smaller(m, n) == IF m <= n THEN m ELSE n

\* Faulty variant: a small write enters in part as well.
WrittenInPart(n) == Smaller(n, Free)

\* How many of n bytes a write takes, 0 standing for -1 and EAGAIN.
Written(n) == IF n > Atomic THEN Smaller(n, Free) ELSE IF n <= Free THEN n ELSE 0

\* What is left in a FIFO is lost when the last descriptor on it is closed.
LeftBy(call) == front' = IF (Writers \cup Readers) \subseteq {call} THEN Len(stream) ELSE front

-----------------------------------------------------------------------------
(* pipe_send *)

SendGoes(s, from, to) ==
    send[s].pc = from /\ send' = [send EXCEPT ![s].pc = to]

SendReturns(s, from, code) ==
    send[s].pc = from /\ send' = [send EXCEPT ![s].pc = "done", ![s].rc = code]

SendStarts(s) ==
    /\ SendGoes(s, "none", "open")
    /\ UNCHANGED <<receive, stream, front, exhausted>>

\* With a time-out of 0 open is never called, and the descriptor is what is on
\* the stack: -1, one that is not open (poll reports POLLNVAL for ever), or one
\* of another file, where the frame goes.
SendUnopened(s) ==
    /\ \/ SendReturns(s, "none", "OPEN_FAILED")
       \/ SendGoes(s, "none", "spin")
       \/ SendGoes(s, "none", "astray")
    /\ UNCHANGED <<receive, stream, front, exhausted>>

SendOpens(s) ==
    /\ Readers # {}
    /\ send[s].pc = "open"
    /\ send' = [send EXCEPT ![s].pc = "poll", ![s].tries = 0]
    /\ receive' = [r \in Receives |-> [receive[r] EXCEPT !.met = @ \/ r \in Readers]]
    /\ UNCHANGED <<stream, front, exhausted>>

\* Faulty variant: the time slept is not counted.
SendOpenFailsUncounted(s) ==
    /\ Readers = {}
    /\ SendGoes(s, "open", "open")
    /\ UNCHANGED <<receive, stream, front, exhausted>>

\* A FIFO that nobody reads, or that is gone, does not open; 50 ms of sleep.
SendOpenFails(s) ==
    /\ Readers = {}
    /\ send[s].pc = "open"
    /\ IF send[s].tries + 1 < Attempts
       THEN send' = [send EXCEPT ![s].tries = @ + 1]
       ELSE SendReturns(s, "open", "OPEN_FAILED")
    /\ UNCHANGED <<receive, stream, front, exhausted>>

SendPolls(s) ==
    /\ Writable
    /\ SendGoes(s, "poll", "write")
    /\ UNCHANGED <<receive, stream, front, exhausted>>

\* No room in all the time-out: the error is noted, and the loop goes on.  (With
\* no reader the poll returns POLLERR at once, and the loop spins.)
SendPollTimesOut(s) ==
    /\ ~Writable /\ Readers # {}
    /\ send[s].pc = "poll"
    /\ send' = [send EXCEPT ![s].rc = "WRITE_FAILED"]
    /\ UNCHANGED <<receive, stream, front, exhausted>>

\* Faulty variants: a write that failed counts as a whole one; the count is signed.
CountAfterWhole(s, n) == IF n = 0 THEN Size[s] ELSE send[s].total + n
CountAfterSigned(s, n) == send[s].total + (IF n = 0 THEN -1 ELSE n)

\* What write returned is added, the -1 of a write that failed included.
CountAfter(s, n) == (send[s].total + (IF n = 0 THEN Wrap - 1 ELSE n)) % Wrap

SendWrites(s) ==
    LET n == Written(Size[s] - send[s].total)
        count == CountAfter(s, n)
    IN  /\ Readers # {}
        /\ send[s].pc = "write"
        /\ send' = [send EXCEPT ![s].pc = IF count < Size[s] THEN "poll" ELSE "close",
                                ![s].total = count]
        /\ stream' = stream \o Piece(s, send[s].total + 1, send[s].total + n)
        /\ UNCHANGED <<receive, front, exhausted>>

\* The last reader has closed since the poll: SIGPIPE ends the process.
SendKilled(s) ==
    /\ Readers = {}
    /\ SendGoes(s, "write", "killed")
    /\ LeftBy(s)
    /\ UNCHANGED <<receive, stream, exhausted>>

SendCloses(s) ==
    /\ SendReturns(s, "close", IF send[s].total = Size[s] THEN "SUCCESS" ELSE send[s].rc)
    /\ LeftBy(s)
    /\ UNCHANGED <<receive, stream, exhausted>>

SendStep(s) ==
    \/ SendOpens(s) \/ SendOpenFails(s)
    \/ SendPolls(s) \/ SendPollTimesOut(s)
    \/ SendWrites(s) \/ SendKilled(s) \/ SendCloses(s)

-----------------------------------------------------------------------------
(* pipe_receive *)

ReceiveGoes(r, from, to) ==
    receive[r].pc = from /\ receive' = [receive EXCEPT ![r].pc = to]

\* The FIFO is there: a receive whose open fails returns without a trace.
ReceiveOpens(r) ==
    /\ receive[r].pc = "none"
    /\ receive' = [q \in Receives |->
          IF q = r THEN [NewReceive EXCEPT !.pc = "poll", !.met = (Writers # {}),
                                           !.mixed = (Readers # {})]
          ELSE [receive[q] EXCEPT !.mixed = @ \/ q \in Readers]]
    /\ UNCHANGED <<send, stream, front, exhausted>>

\* Faulty variant: the first pause ends a call that has nothing yet.
AfterNothingEager(r) == [receive[r] EXCEPT !.pc = "close", !.idle = @ + 1]

\* Time counts while nothing was received; with data a pause is the end.
AfterNothing(r) ==
    IF receive[r].alloc THEN [receive[r] EXCEPT !.pc = "close"]
    ELSE [receive[r] EXCEPT !.pc = IF receive[r].idle + 1 < Patience[r] THEN "poll" ELSE "close",
                            !.idle = @ + 1]

\* A poll of 50 ms without an event.
ReceiveWaits(r) ==
    /\ receive[r].pc = "poll"
    /\ Held = 0 /\ (Writers # {} \/ ~receive[r].met)
    /\ receive' = [receive EXCEPT ![r] = [AfterNothing(r) EXCEPT !.waited = @ + 1]]
    /\ UNCHANGED <<send, stream, front, exhausted>>

\* Faulty variant: no time is counted where none has passed.
ReceiveHangsUpUncounted(r) ==
    /\ Held = 0 /\ Writers = {} /\ receive[r].met
    /\ ReceiveGoes(r, "poll", IF receive[r].alloc THEN "close" ELSE "poll")
    /\ UNCHANGED <<send, stream, front, exhausted>>

\* POLLHUP, once the writers have gone: the poll returns at once.
ReceiveHangsUp(r) ==
    /\ receive[r].pc = "poll"
    /\ Held = 0 /\ Writers = {} /\ receive[r].met
    /\ receive' = [receive EXCEPT ![r] = AfterNothing(r)]
    /\ UNCHANGED <<send, stream, front, exhausted>>

\* A signal: the loop ends.
ReceiveInterrupted(r) ==
    /\ receive[r].pc = "poll"
    /\ Held = 0
    /\ receive' = [receive EXCEPT ![r].pc = "close", ![r].rc = "READ_FAILED"]
    /\ UNCHANGED <<send, stream, front, exhausted>>

ReceivePolls(r) ==
    /\ Held > 0
    /\ ReceiveGoes(r, "poll", "read")
    /\ UNCHANGED <<send, stream, front, exhausted>>

Taken == Smaller(Chunk, Held)

\* Faulty variant: every part is copied to the beginning of the buffer.
AppendedOver(r) == [i \in 1..Taken |-> front + i]

Appended(r) == receive[r].got \o [i \in 1..Taken |-> front + i]

ReceiveReads(r) ==
    /\ receive[r].pc = "read"
    /\ Held > 0
    /\ receive' = [receive EXCEPT ![r].pc = "poll", ![r].alloc = TRUE, ![r].got = Appended(r)]
    /\ front' = front + Taken
    /\ UNCHANGED <<send, stream, exhausted>>

\* realloc fails: *data is NULL, *data_size counts the bytes that were read.
ReceiveExhausted(r) ==
    /\ receive[r].pc = "read"
    /\ Held > 0
    /\ receive' = [receive EXCEPT ![r].pc = "close", ![r].alloc = FALSE,
                                  ![r].got = Appended(r), ![r].rc = "BAD_ALLOC"]
    /\ front' = front + Taken
    /\ exhausted' = TRUE
    /\ UNCHANGED <<send, stream>>

\* Another receive took everything since the poll, and a writer is there: EAGAIN.
ReceiveReadsNothing(r) ==
    /\ receive[r].pc = "read"
    /\ Held = 0 /\ Writers # {}
    /\ receive' = [receive EXCEPT ![r] = AfterNothing(r)]
    /\ UNCHANGED <<send, stream, front, exhausted>>

\* Or none is there: read returns 0.  The first realloc to 0 bytes returns a
\* block, another frees it and returns NULL.
ReceiveReadsEnd(r) ==
    /\ receive[r].pc = "read"
    /\ Held = 0 /\ Writers = {}
    /\ IF receive[r].alloc /\ receive[r].got = <<>>
       THEN receive' = [receive EXCEPT ![r].pc = "close", ![r].alloc = FALSE,
                                       ![r].rc = "BAD_ALLOC"]
       ELSE receive' = [receive EXCEPT ![r].pc = "poll", ![r].alloc = TRUE]
    /\ UNCHANGED <<send, stream, front, exhausted>>

\* What the call returns: whatever ended the loop, some bytes make it a success.
Result(r) == IF receive[r].got # <<>> THEN "SUCCESS" ELSE receive[r].rc

ReceiveCloses(r) ==
    /\ receive[r].pc = "close"
    /\ receive' = [receive EXCEPT ![r] =
          IF r \in Once THEN [NewReceive EXCEPT !.pc = "done"] ELSE NewReceive]
    /\ LeftBy(r)
    /\ UNCHANGED <<send, stream, exhausted>>

ReceiveStep(r) ==
    \/ ReceiveWaits(r) \/ ReceiveHangsUp(r) \/ ReceivePolls(r) \/ ReceiveReads(r)
    \/ ReceiveReadsNothing(r) \/ ReceiveReadsEnd(r) \/ ReceiveCloses(r)

-----------------------------------------------------------------------------

Next ==
    \/ \E s \in Sends : SendStarts(s) \/ SendUnopened(s) \/ SendStep(s)
    \/ \E r \in Receives :
          \/ ReceiveOpens(r) \/ ReceiveStep(r)
          \/ ReceiveInterrupted(r) \/ ReceiveExhausted(r)

Spec == Init /\ [][Next]_vars

\* A call under way goes on; nobody has to make one, no signal or lack of memory
\* has to end it.
FairSpec ==
    /\ Spec
    /\ \A s \in Sends : WF_vars(SendStep(s))
    /\ \A r \in Receives : WF_vars(ReceiveStep(r))

-----------------------------------------------------------------------------
(* Correctness *)

\* The type invariant.
TypeOK ==
    /\ send \in [Sends ->
          [pc : {"none", "open", "poll", "write", "close", "done", "killed", "spin", "astray"},
           tries : Nat, total : 0..(Wrap - 1),
           rc : {"NO_DATA_AVAILABLE", "WRITE_FAILED", "OPEN_FAILED", "SUCCESS"}]]
    /\ receive \in [Receives ->
          [pc : {"none", "poll", "read", "close", "done"}, alloc : BOOLEAN, got : Seq(Nat),
           idle : Nat, rc : {"NO_DATA_AVAILABLE", "READ_FAILED", "BAD_ALLOC"},
           met : BOOLEAN, waited : Nat, mixed : BOOLEAN]]
    /\ stream \in Seq([of : Sends, at : Nat]) /\ front \in 0..Len(stream)
    /\ exhausted \in BOOLEAN

Small(s) == Size[s] <= Atomic

\* Where in the stream the bytes of s are.
Places(s) == {p \in DOMAIN stream : stream[p].of = s}

Adjacent(P) == \A p, q \in P : \A k \in p..q : k \in P

\* Every byte of the frame entered, once and in order.
Complete(s) ==
    /\ Cardinality(Places(s)) = Size[s]
    /\ \A p \in Places(s) : stream[p].at = Cardinality({q \in Places(s) : q <= p})

\* pipe_send: a send that succeeded wrote its frame, every byte once and in order,
\* if the frame is small or nobody wrote into it; a small frame whose send failed
\* left nothing in the FIFO.
SendAllOrNothing ==
    \A s \in Sends : send[s].pc = "done" =>
        /\ send[s].rc = "SUCCESS" /\ (Small(s) \/ Adjacent(Places(s))) => Complete(s)
        /\ send[s].rc # "SUCCESS" /\ Small(s) => Places(s) = {}

\* pipe_receive: what it returns is one piece of the stream and cuts no small
\* frame, if no other receive was under way and no memory was lacking ("in order
\* to prevent data cut").
ReceivedWhole ==
    \A r \in Receives : receive[r].pc = "close" /\ Result(r) = "SUCCESS" /\ receive[r].alloc
                          /\ ~receive[r].mixed /\ ~exhausted =>
        LET got == receive[r].got
            mine == {got[i] : i \in DOMAIN got}
        IN  /\ \A i \in DOMAIN got : got[i] = got[1] + i - 1
            /\ \A s \in Sends : Small(s) => Places(s) \subseteq mine \/ Places(s) \cap mine = {}

\* pipe_receive gives up after its whole time-out, unless a writer had the FIFO
\* open, from when on POLLHUP ends every wait at once, or another receive emptied it.
GivesUpAfterTimeOut ==
    \A r \in Receives : receive[r].pc = "close" /\ Result(r) = "NO_DATA_AVAILABLE"
                          /\ ~receive[r].met /\ ~receive[r].mixed =>
        receive[r].waited = Patience[r]

\* Frames enter the FIFO and bytes leave it as FrameFifo has it.
Fifo == INSTANCE FrameFifo
ImplementsFrameFifo == Fifo!Spec

SendUnderWay(s) == send[s].pc \in {"open", "poll", "write", "close"}
SendOver(s) == send[s].pc \in {"done", "killed"}

\* "This function will try to write data until all data has been written or if
\* the elapsed time reaches timeout" (README.md of pipe_send).
SendTimesOut == \A s \in Sends : SendUnderWay(s) ~> SendOver(s)

\* pipe_send returns, or SIGPIPE ends its process, if somebody keeps reading.
SendReturnsWhenRead == []<>(\E r \in Receives : receive[r].pc = "poll") => SendTimesOut

\* pipe_receive returns: once the writers pause, the idle polls end it.
ReceiveReturns == \A r \in Receives : r \in Readers ~> r \notin Readers
=============================================================================
