------------------------- MODULE PipeTransferProofs -------------------------
(***************************************************************************)
(* Proofs about PipeTransfer, for every number of calls, every size of the   *)
(* frames and of the FIFO, every time-out.                                 *)
(***************************************************************************)
EXTENDS PipeTransfer, SequenceTheorems, TLAPS

Cell == [of : Sends, at : Nat]

SendPcs == {"none", "open", "poll", "write", "close", "done", "killed", "spin", "astray"}
SendCodes == {"NO_DATA_AVAILABLE", "WRITE_FAILED", "OPEN_FAILED", "SUCCESS"}
SendRecord == [pc : SendPcs, tries : Nat, total : 0..(Wrap - 1), rc : SendCodes]

ReceiveRecord ==
    [pc : {"none", "poll", "read", "close", "done"}, alloc : BOOLEAN, got : Seq(Nat),
     idle : Nat, rc : {"NO_DATA_AVAILABLE", "READ_FAILED", "BAD_ALLOC"},
     met : BOOLEAN, waited : Nat, mixed : BOOLEAN]

\* The FIFO never holds more than it can.
HeldFits == Held <= Capacity

\* A send that still writes has not written everything, and nothing of a small
\* frame; a failed write is counted past the end.
Remaining ==
    \A s \in Sends : send[s].pc \in {"none", "open", "poll", "write"} =>
        /\ send[s].total < Size[s]
        /\ Small(s) => /\ send[s].total = 0
                       /\ \A p \in DOMAIN stream : stream[p].of # s

Inductive == TypeOK /\ HeldFits /\ Remaining

\* A step by which nothing enters the FIFO.
Quiet ==
    /\ send' \in [Sends -> SendRecord] /\ receive' \in [Receives -> ReceiveRecord]
    /\ stream' = stream /\ front' \in front..Len(stream) /\ exhausted' \in BOOLEAN
    /\ \A s \in Sends : send'[s].pc \in {"none", "open", "poll", "write"} =>
          /\ send[s].pc \in {"none", "open", "poll", "write"}
          /\ send'[s].total = send[s].total

-----------------------------------------------------------------------------

LEMMA Constants ==
    /\ Capacity \in Nat /\ Atomic \in Nat /\ Chunk \in Nat /\ Attempts \in Nat /\ Wrap \in Nat
    /\ Atomic > 0 /\ Chunk > 0 /\ Wrap > 0 /\ Atomic <= Capacity
    /\ \A s \in Sends : Size[s] \in Nat /\ Size[s] > 0 /\ Size[s] + 2 <= Wrap
    /\ \A r \in Receives : Patience[r] \in Nat /\ Patience[r] > 0
BY PipeAssumption

LEMMA TypeMeans ==
    TypeOK <=> /\ send \in [Sends -> SendRecord]
               /\ receive \in [Receives -> ReceiveRecord]
               /\ stream \in Seq(Cell) /\ front \in 0..Len(stream)
               /\ exhausted \in BOOLEAN
BY DEF TypeOK, SendRecord, SendPcs, SendCodes, ReceiveRecord, Cell

LEMMA InitTypes == Init => TypeOK
<1> SUFFICES ASSUME Init PROVE TypeOK
    OBVIOUS
<1>1. NewSend \in SendRecord
    BY Constants DEF NewSend, SendRecord, SendPcs, SendCodes
<1>2. <<>> \in Seq(Nat) /\ <<>> \in Seq(Cell) /\ Len(<<>>) = 0
    OBVIOUS
<1>3. NewReceive \in ReceiveRecord
    BY <1>2 DEF NewReceive, ReceiveRecord
<1>4. send \in [Sends -> SendRecord] /\ receive \in [Receives -> ReceiveRecord]
    BY <1>1, <1>3 DEF Init
<1>5. stream = <<>> /\ front = 0 /\ exhausted \in BOOLEAN
    BY DEF Init
<1>6. stream \in Seq(Cell) /\ Len(stream) = 0
    BY <1>5
<1>7. front \in 0..Len(stream)
    BY <1>5, <1>6
<1> QED
    BY <1>4, <1>5, <1>6, <1>7, TypeMeans

\* What a write adds: how much enters, of which frame, where.
LEMMA WrittenProperties ==
    ASSUME TypeOK, HeldFits, Remaining, NEW s \in Sends, send[s].pc = "write"
    PROVE  LET n == Written(Size[s] - send[s].total)
               count == CountAfter(s, n)
               piece == Piece(s, send[s].total + 1, send[s].total + n)
           IN  /\ n \in Nat /\ n <= Free /\ send[s].total + n <= Size[s]
               /\ Small(s) => n \in {0, Size[s]}
               /\ count \in 0..(Wrap - 1)
               /\ n > 0 => count = send[s].total + n
               /\ n = 0 /\ send[s].total = 0 => count >= Size[s]
               /\ piece \in Seq(Cell) /\ Len(piece) = n
               /\ \A i \in 1..n : piece[i].of = s
<1> DEFINE total == send[s].total
<1> DEFINE n == Written(Size[s] - total)
<1> DEFINE piece == Piece(s, total + 1, total + n)
<1>1. total \in Nat /\ total < Size[s]
    BY Constants DEF TypeOK, Remaining
<1>2. Free \in Nat
    BY Constants DEF TypeOK, HeldFits, Held, Free
<1>3. Size[s] - total \in Nat /\ Size[s] - total > 0
    BY <1>1, Constants
<1>4. n \in Nat /\ n <= Free /\ total + n <= Size[s]
    BY <1>1, <1>2, <1>3, Constants DEF Written, Smaller
<1>5. Small(s) => n \in {0, Size[s]}
    BY <1>1, <1>2, Constants DEF Written, Small, Remaining
<1> HIDE DEF n, total
<1>6. n > 0 => CountAfter(s, n) = total + n
    <2>1. ASSUME n > 0 PROVE total + n \in 0..(Wrap - 1) /\ CountAfter(s, n) = (total + n) % Wrap
        BY <2>1, <1>1, <1>4, Constants DEF CountAfter, total
    <2> QED
        BY <2>1, Constants
<1>7. CountAfter(s, n) \in 0..(Wrap - 1)
    <2>1. total + (IF n = 0 THEN Wrap - 1 ELSE n) \in Int
        BY <1>1, <1>4, Constants
    <2> QED
        BY <2>1, Constants DEF CountAfter, total
<1>8. n = 0 /\ total = 0 => CountAfter(s, n) >= Size[s]
    <2>1. ASSUME n = 0, total = 0 PROVE CountAfter(s, n) = (Wrap - 1) % Wrap
        BY <2>1, Constants DEF CountAfter, total
    <2> QED
        BY <2>1, Constants
<1>9. piece = [i \in 1..n |-> [of |-> s, at |-> total + i]]
    BY <1>1, <1>4 DEF Piece, Byte
<1>10. \A i \in 1..n : [of |-> s, at |-> total + i] \in Cell
    BY <1>1, <1>4 DEF Cell
<1>11. piece \in [1..n -> Cell]
    BY <1>9, <1>10
<1>12. piece \in Seq(Cell) /\ Len(piece) = n
    <2>1. piece \in Seq(Cell)
        BY <1>4, <1>11, SeqDef
    <2> QED
        BY <2>1, <1>4, <1>11, LenProperties
<1> QED
    BY <1>4, <1>5, <1>6, <1>7, <1>8, <1>9, <1>12 DEF n, total

-----------------------------------------------------------------------------
(* The steps that write nothing *)

LEMMA LengthOfStream ==
    ASSUME TypeOK
    PROVE  /\ stream \in Seq(Cell) /\ Len(stream) \in Nat /\ front \in 0..Len(stream)
           /\ send \in [Sends -> SendRecord] /\ receive \in [Receives -> ReceiveRecord]
           /\ exhausted \in BOOLEAN /\ Held \in Nat
BY TypeMeans, LenProperties DEF Held

\* One send changes, and goes on only where it was going on.
LEMMA QuietSend ==
    ASSUME TypeOK, NEW s \in Sends, NEW rec \in SendRecord, send' = [send EXCEPT ![s] = rec],
           UNCHANGED stream, receive' \in [Receives -> ReceiveRecord],
           front' \in front..Len(stream), exhausted' = exhausted,
           rec.pc \in {"none", "open", "poll", "write"} =>
              /\ send[s].pc \in {"none", "open", "poll", "write"}
              /\ rec.total = send[s].total
    PROVE  Quiet
<1>1. send' \in [Sends -> SendRecord] /\ \A t \in Sends : send'[t] = IF t = s THEN rec ELSE send[t]
    BY LengthOfStream
<1> QED
    BY <1>1, LengthOfStream DEF Quiet

LEMMA SendsAreQuiet ==
    ASSUME TypeOK, NEW s \in Sends,
           \/ SendStarts(s) \/ SendUnopened(s) \/ SendOpens(s) \/ SendOpenFails(s) \/ SendPolls(s)
           \/ SendPollTimesOut(s) \/ SendKilled(s) \/ SendCloses(s)
    PROVE  Quiet
<1> DEFINE goes(to) == [send[s] EXCEPT !.pc = to]
<1> DEFINE returns(code) == [send[s] EXCEPT !.pc = "done", !.rc = code]
<1>0. front \in front..Len(stream) /\ send[s] \in SendRecord
    BY LengthOfStream
<1>1. \A to \in SendPcs : goes(to) \in SendRecord /\ goes(to).pc = to /\ goes(to).total = send[s].total
    BY <1>0 DEF SendRecord
<1>2. \A code \in SendCodes : returns(code) \in SendRecord /\ returns(code).pc = "done"
    BY <1>0 DEF SendRecord, SendPcs
<1>3. ASSUME NEW from \in SendPcs, NEW to \in SendPcs, SendGoes(s, from, to)
      PROVE  send' = [send EXCEPT ![s] = goes(to)] /\ send[s].pc = from
    BY <1>3, LengthOfStream DEF SendGoes
<1>4. ASSUME NEW from \in SendPcs, NEW code \in SendCodes, SendReturns(s, from, code)
      PROVE  send' = [send EXCEPT ![s] = returns(code)] /\ send[s].pc = from
    BY <1>4, LengthOfStream DEF SendReturns
<1> HIDE DEF goes, returns
<1>5. ASSUME NEW from \in {"none", "open", "poll", "write"}, NEW to \in SendPcs,
             SendGoes(s, from, to), UNCHANGED stream, receive' \in [Receives -> ReceiveRecord],
             front' \in front..Len(stream), exhausted' = exhausted
      PROVE  Quiet
    BY <1>1, <1>3, <1>5, QuietSend DEF SendPcs
<1>6. ASSUME NEW from \in SendPcs, NEW code \in SendCodes, SendReturns(s, from, code),
             UNCHANGED <<stream, receive>>, front' \in front..Len(stream), exhausted' = exhausted
      PROVE  Quiet
    BY <1>2, <1>4, <1>6, QuietSend, LengthOfStream
<1> USE <1>0, LengthOfStream DEF SendPcs, SendCodes
<1>7. CASE SendStarts(s)
    BY <1>5, <1>7 DEF SendStarts
<1>8. CASE SendUnopened(s)
    BY <1>5, <1>6, <1>8 DEF SendUnopened
<1>9. CASE SendOpens(s)
    <2> DEFINE rec == [send[s] EXCEPT !.pc = "poll", !.tries = 0]
    <2>1. \A r \in Receives : [receive[r] EXCEPT !.met = @ \/ r \in Readers] \in ReceiveRecord
        <3>1. \A r \in Receives : (receive[r].met \/ r \in Readers) \in BOOLEAN
            BY Zenon
        <3> QED
            BY <3>1 DEF ReceiveRecord
    <2>2. receive' \in [Receives -> ReceiveRecord]
        BY <1>9, <2>1 DEF SendOpens
    <2>3. rec \in SendRecord /\ rec.total = send[s].total
        BY DEF SendRecord
    <2>4. send' = [send EXCEPT ![s] = rec] /\ send[s].pc = "open"
        BY <1>9 DEF SendOpens
    <2> HIDE DEF rec
    <2> QED
        BY <1>9, <2>2, <2>3, <2>4, QuietSend DEF SendOpens
<1>10. CASE SendOpenFails(s)
    <2> DEFINE rec == [send[s] EXCEPT !.tries = @ + 1]
    <2>0. send[s].tries + 1 \in Nat
        BY DEF SendRecord
    <2>1. rec \in SendRecord /\ rec.total = send[s].total
        <3>1. \A n \in Nat : LET new == [send[s] EXCEPT !.tries = n]
                             IN  new \in SendRecord /\ new.total = send[s].total
            BY DEF SendRecord
        <3> QED
            BY <2>0, <3>1
    <2>2. send[s].pc = "open"
        BY <1>10 DEF SendOpenFails
    <2>3. CASE send[s].tries + 1 < Attempts
        <3>1. send' = [send EXCEPT ![s] = rec]
            BY <1>10, <2>3 DEF SendOpenFails
        <3> HIDE DEF rec
        <3> QED
            BY <1>10, <2>1, <2>2, <3>1, QuietSend DEF SendOpenFails
    <2>4. CASE ~(send[s].tries + 1 < Attempts)
        BY <1>6, <1>10, <2>4 DEF SendOpenFails
    <2> QED
        BY <2>3, <2>4
<1>11. CASE SendPolls(s)
    BY <1>5, <1>11 DEF SendPolls
<1>12. CASE SendPollTimesOut(s)
    <2> DEFINE rec == [send[s] EXCEPT !.rc = "WRITE_FAILED"]
    <2>1. rec \in SendRecord /\ rec.total = send[s].total
        BY DEF SendRecord
    <2>2. send' = [send EXCEPT ![s] = rec] /\ send[s].pc = "poll"
        BY <1>12 DEF SendPollTimesOut
    <2> HIDE DEF rec
    <2> QED
        BY <1>12, <2>1, <2>2, QuietSend DEF SendPollTimesOut
<1>13. CASE SendKilled(s)
    BY <1>5, <1>13 DEF SendKilled, LeftBy
<1>14. CASE SendCloses(s)
    <2>1. (IF send[s].total = Size[s] THEN "SUCCESS" ELSE send[s].rc) \in SendCodes
        BY DEF SendRecord
    <2> QED
        BY <1>6, <1>14, <2>1 DEF SendCloses, LeftBy
<1> QED
    BY <1>7, <1>8, <1>9, <1>10, <1>11, <1>12, <1>13, <1>14

\* One receive changes, and takes at most what is held.
LEMMA QuietReceive ==
    ASSUME TypeOK, UNCHANGED <<send, stream>>, NEW r \in Receives, NEW rec \in ReceiveRecord,
           receive' = [receive EXCEPT ![r] = rec],
           front' \in front..Len(stream), exhausted' \in BOOLEAN
    PROVE  Quiet
BY LengthOfStream DEF Quiet

\* What a poll without data makes of a receive.
LEMMA AfterNothingProperties ==
    ASSUME TypeOK, NEW r \in Receives
    PROVE  LET after == AfterNothing(r) IN
           /\ after \in ReceiveRecord /\ after.pc \in {"poll", "close"}
           /\ after.met = receive[r].met /\ after.mixed = receive[r].mixed
           /\ after.waited = receive[r].waited /\ after.got = receive[r].got
           /\ after.alloc = receive[r].alloc
           /\ ~receive[r].alloc =>
                 /\ after.idle = receive[r].idle + 1
                 /\ after.pc = "poll" => receive[r].idle + 1 < Patience[r]
                 /\ after.pc = "close" => receive[r].idle + 1 >= Patience[r]
<1> USE LengthOfStream
<1> DEFINE pc == IF receive[r].idle + 1 < Patience[r] THEN "poll" ELSE "close"
<1> DEFINE closed == [receive[r] EXCEPT !.pc = "close"]
<1> DEFINE more(to, n) == [receive[r] EXCEPT !.pc = to, !.idle = n]
<1>1. receive[r] \in ReceiveRecord /\ receive[r].idle + 1 \in Nat /\ Patience[r] \in Nat
    BY Constants DEF ReceiveRecord
<1>2. /\ closed \in ReceiveRecord /\ closed.pc = "close"
      /\ closed.met = receive[r].met /\ closed.mixed = receive[r].mixed
      /\ closed.waited = receive[r].waited /\ closed.got = receive[r].got
      /\ closed.alloc = receive[r].alloc
    BY <1>1 DEF ReceiveRecord
<1>3. \A to \in {"poll", "close"}, n \in Nat :
         /\ more(to, n) \in ReceiveRecord /\ more(to, n).pc = to /\ more(to, n).idle = n
         /\ more(to, n).met = receive[r].met /\ more(to, n).mixed = receive[r].mixed
         /\ more(to, n).waited = receive[r].waited /\ more(to, n).got = receive[r].got
         /\ more(to, n).alloc = receive[r].alloc
    BY <1>1 DEF ReceiveRecord
<1>4. AfterNothing(r) = IF receive[r].alloc THEN closed ELSE more(pc, receive[r].idle + 1)
    BY DEF AfterNothing
<1>5. pc \in {"poll", "close"} /\ (pc = "close" => receive[r].idle + 1 >= Patience[r])
      /\ (pc = "poll" => receive[r].idle + 1 < Patience[r])
    BY <1>1
<1> HIDE DEF closed, more, pc
<1>6. CASE receive[r].alloc
    BY <1>2, <1>4, <1>6
<1>7. CASE ~receive[r].alloc
    BY <1>1, <1>3, <1>4, <1>5, <1>7
<1> QED
    BY <1>6, <1>7

LEMMA ReceivesAreQuiet ==
    ASSUME TypeOK, NEW r \in Receives,
           ReceiveOpens(r) \/ ReceiveStep(r) \/ ReceiveInterrupted(r) \/ ReceiveExhausted(r)
    PROVE  Quiet
<1> USE LengthOfStream DEF ReceiveGoes
<1>0. /\ receive[r] \in ReceiveRecord /\ front \in front..Len(stream)
      /\ receive[r].idle \in Nat /\ receive[r].got \in Seq(Nat) /\ receive[r].waited \in Nat
    BY DEF ReceiveRecord
<1>1. NewReceive \in ReceiveRecord
    <2>1. <<>> \in Seq(Nat)
        OBVIOUS
    <2> QED
        BY <2>1 DEF NewReceive, ReceiveRecord
<1>2. AfterNothing(r) \in ReceiveRecord
    BY AfterNothingProperties
<1>3. Taken \in Nat /\ (Held > 0 => front + Taken \in front..Len(stream))
    BY Constants DEF Taken, Smaller, Held
<1>4. Appended(r) \in Seq(Nat)
    <2>1. [i \in 1..Taken |-> front + i] \in [1..Taken -> Nat]
        BY <1>3
    <2>2. [i \in 1..Taken |-> front + i] \in Seq(Nat)
        BY <1>3, <2>1, SeqDef
    <2> QED
        BY <1>0, <2>2, ConcatProperties DEF Appended
<1>5. CASE ReceiveOpens(r)
    <2>1. [NewReceive EXCEPT !.pc = "poll", !.met = (Writers # {}), !.mixed = (Readers # {})]
              \in ReceiveRecord
        BY <1>1 DEF ReceiveRecord
    <2>2. \A q \in Receives : [receive[q] EXCEPT !.mixed = @ \/ q \in Readers] \in ReceiveRecord
        <3>1. \A q \in Receives : (receive[q].mixed \/ q \in Readers) \in BOOLEAN
            BY Zenon
        <3> QED
            BY <3>1 DEF ReceiveRecord
    <2>3. receive' \in [Receives -> ReceiveRecord]
        BY <1>5, <2>1, <2>2 DEF ReceiveOpens
    <2> QED
        BY <1>0, <1>5, <2>3 DEF ReceiveOpens, Quiet
<1>6. CASE ReceiveWaits(r)
    <2> DEFINE rec == [AfterNothing(r) EXCEPT !.waited = @ + 1]
    <2>1. \A n \in Nat : [AfterNothing(r) EXCEPT !.waited = n] \in ReceiveRecord
        BY <1>2 DEF ReceiveRecord
    <2>2. AfterNothing(r).waited \in Nat
        BY <1>2 DEF ReceiveRecord
    <2>4. AfterNothing(r).waited + 1 \in Nat
        BY <2>2
    <2>5. rec \in ReceiveRecord
        BY <2>1, <2>4
    <2>3. receive' = [receive EXCEPT ![r] = rec]
        BY <1>6 DEF ReceiveWaits
    <2> HIDE DEF rec
    <2> QED
        BY <1>0, <1>6, <2>3, <2>5, QuietReceive DEF ReceiveWaits
<1>7. CASE ReceiveHangsUp(r)
    BY <1>0, <1>2, <1>7, QuietReceive DEF ReceiveHangsUp
<1>8. CASE ReceiveInterrupted(r)
    <2>1. [receive[r] EXCEPT !.pc = "close", !.rc = "READ_FAILED"] \in ReceiveRecord
        BY <1>0 DEF ReceiveRecord
    <2>2. receive' = [receive EXCEPT ![r] = [receive[r] EXCEPT !.pc = "close", !.rc = "READ_FAILED"]]
        BY <1>8 DEF ReceiveInterrupted
    <2> QED
        BY <1>0, <1>8, <2>1, <2>2, QuietReceive DEF ReceiveInterrupted
<1>9. CASE ReceivePolls(r)
    <2>1. [receive[r] EXCEPT !.pc = "read"] \in ReceiveRecord
        BY <1>0 DEF ReceiveRecord
    <2>2. receive' = [receive EXCEPT ![r] = [receive[r] EXCEPT !.pc = "read"]]
        BY <1>9 DEF ReceivePolls
    <2> QED
        BY <1>0, <1>9, <2>1, <2>2, QuietReceive DEF ReceivePolls
<1>10. CASE ReceiveReads(r)
    <2> DEFINE rec == [receive[r] EXCEPT !.pc = "poll", !.alloc = TRUE, !.got = Appended(r)]
    <2>1. rec \in ReceiveRecord
        BY <1>0, <1>4 DEF ReceiveRecord
    <2>2. receive' = [receive EXCEPT ![r] = rec]
        BY <1>10 DEF ReceiveReads
    <2> HIDE DEF rec
    <2> QED
        BY <1>3, <1>10, <2>1, <2>2, QuietReceive DEF ReceiveReads
<1>11. CASE ReceiveExhausted(r)
    <2> DEFINE rec == [receive[r] EXCEPT !.pc = "close", !.alloc = FALSE,
                                         !.got = Appended(r), !.rc = "BAD_ALLOC"]
    <2>1. rec \in ReceiveRecord
        BY <1>0, <1>4 DEF ReceiveRecord
    <2>2. receive' = [receive EXCEPT ![r] = rec]
        BY <1>11 DEF ReceiveExhausted
    <2> HIDE DEF rec
    <2> QED
        BY <1>3, <1>11, <2>1, <2>2, QuietReceive DEF ReceiveExhausted
<1>12. CASE ReceiveReadsNothing(r)
    BY <1>0, <1>2, <1>12, QuietReceive DEF ReceiveReadsNothing
<1>13. CASE ReceiveReadsEnd(r)
    <2>1. /\ [receive[r] EXCEPT !.pc = "close", !.alloc = FALSE, !.rc = "BAD_ALLOC"] \in ReceiveRecord
          /\ [receive[r] EXCEPT !.pc = "poll", !.alloc = TRUE] \in ReceiveRecord
        BY <1>0 DEF ReceiveRecord
    <2>2. PICK rec \in ReceiveRecord : receive' = [receive EXCEPT ![r] = rec]
        BY <1>13, <2>1 DEF ReceiveReadsEnd
    <2> QED
        BY <1>0, <1>13, <2>2, QuietReceive DEF ReceiveReadsEnd
<1>14. CASE ReceiveCloses(r)
    <2>1. [NewReceive EXCEPT !.pc = "done"] \in ReceiveRecord
        BY <1>1 DEF ReceiveRecord
    <2>2. front' \in front..Len(stream)
        BY <1>14 DEF ReceiveCloses, LeftBy
    <2>3. PICK rec \in ReceiveRecord : receive' = [receive EXCEPT ![r] = rec]
        BY <1>1, <1>14, <2>1 DEF ReceiveCloses
    <2> QED
        BY <1>14, <2>2, <2>3, QuietReceive DEF ReceiveCloses
<1> QED
    BY <1>5, <1>6, <1>7, <1>8, <1>9, <1>10, <1>11, <1>12, <1>13, <1>14 DEF ReceiveStep

LEMMA QuietKeeps ==
    ASSUME Inductive, Quiet
    PROVE  Inductive' /\ [Fifo!Next]_Fifo!vars
<1> USE LengthOfStream DEF Inductive
<1>1. TypeOK'
    BY TypeMeans DEF Quiet, TypeOK, SendRecord, SendPcs, SendCodes, ReceiveRecord, Cell
<1>2. HeldFits'
    BY Constants DEF Quiet, HeldFits, Held
<1>3. Remaining'
    BY DEF Quiet, Remaining, Small
<1>4. front' = front => UNCHANGED Fifo!vars
    BY DEF Quiet, Fifo!vars
<1>5. front' # front => Fifo!Leave
    BY DEF Quiet, Fifo!Leave
<1> QED
    BY <1>1, <1>2, <1>3, <1>4, <1>5 DEF Fifo!Next

-----------------------------------------------------------------------------
(* A write *)

LEMMA WriteKeeps ==
    ASSUME Inductive, NEW s \in Sends, SendWrites(s)
    PROVE  Inductive' /\ [Fifo!Next]_Fifo!vars
<1> USE LengthOfStream DEF Inductive
<1> DEFINE total == send[s].total
<1> DEFINE n == Written(Size[s] - total)
<1> DEFINE count == CountAfter(s, n)
<1> DEFINE piece == Piece(s, total + 1, total + n)
<1> DEFINE next == IF count < Size[s] THEN "poll" ELSE "close"
<1>1. send[s].pc = "write" /\ send[s] \in SendRecord /\ total \in Nat /\ total < Size[s]
    BY Constants DEF SendWrites, SendRecord, Remaining
<1>2. /\ n \in Nat /\ n <= Free /\ total + n <= Size[s]
      /\ Small(s) => n \in {0, Size[s]}
      /\ count \in 0..(Wrap - 1)
      /\ n > 0 => count = total + n
      /\ n = 0 /\ total = 0 => count >= Size[s]
      /\ piece \in Seq(Cell) /\ Len(piece) = n
      /\ \A i \in 1..n : piece[i].of = s
    BY <1>1, WrittenProperties
<1>3. /\ send' = [send EXCEPT ![s].pc = next, ![s].total = count]
      /\ stream' = stream \o piece
      /\ UNCHANGED <<receive, front, exhausted>>
    BY DEF SendWrites
<1>4. Small(s) => total = 0 /\ \A p \in DOMAIN stream : stream[p].of # s
    BY <1>1 DEF Remaining
<1> HIDE DEF n, count, piece
<1>5. [send[s] EXCEPT !.pc = next, !.total = count] \in SendRecord
    BY <1>1, <1>2 DEF SendRecord, SendPcs
<1>6. /\ send' \in [Sends -> SendRecord]
      /\ send'[s].pc = next /\ send'[s].total = count
      /\ \A t \in Sends \ {s} : send'[t] = send[t]
    BY <1>1, <1>3, <1>5 DEF SendRecord
<1>7. /\ stream' \in Seq(Cell) /\ Len(stream') = Len(stream) + n
      /\ \A p \in DOMAIN stream' :
            (p \in DOMAIN stream /\ stream'[p] = stream[p]) \/ stream'[p].of = s
    <2>1. stream' \in Seq(Cell) /\ Len(stream') = Len(stream) + n
        BY <1>2, <1>3, ConcatProperties
    <2>2. ASSUME NEW p \in DOMAIN stream'
          PROVE  (p \in DOMAIN stream /\ stream'[p] = stream[p]) \/ stream'[p].of = s
        <3>1. p \in 1..(Len(stream) + n)
            BY <2>1, <2>2, LenProperties
        <3>2. CASE p <= Len(stream)
            BY <1>2, <1>3, <3>1, <3>2, ConcatProperties, LenProperties
        <3>3. CASE p > Len(stream)
            <4>1. stream'[p] = piece[p - Len(stream)] /\ p - Len(stream) \in 1..n
                BY <1>2, <1>3, <3>1, <3>3, ConcatProperties
            <4> QED
                BY <1>2, <4>1
        <3> QED
            BY <3>1, <3>2, <3>3
    <2> QED
        BY <2>1, <2>2
<1>8. TypeOK'
    <2>1. front' \in 0..Len(stream')
        BY <1>2, <1>3, <1>7
    <2> QED
        BY <1>3, <1>6, <1>7, <2>1
        DEF TypeOK, SendRecord, SendPcs, SendCodes, ReceiveRecord, Cell
<1>9. HeldFits'
    BY <1>2, <1>3, <1>7, Constants DEF HeldFits, Held, Free
<1>10. Remaining'
    <2> SUFFICES ASSUME NEW t \in Sends, send'[t].pc \in {"none", "open", "poll", "write"}
                 PROVE  /\ send'[t].total < Size[t]
                        /\ Small(t) => /\ send'[t].total = 0
                                       /\ \A p \in DOMAIN stream' : stream'[p].of # t
        BY DEF Remaining, Small
    <2>1. CASE t = s
        <3>1. count < Size[s]
            BY <1>6, <2>1
        <3>2. ~Small(s)
            BY <1>1, <1>2, <1>4, <3>1, Constants
        <3> QED
            BY <1>6, <2>1, <3>1, <3>2
    <2>2. CASE t # s
        BY <1>6, <1>7, <2>2 DEF Remaining
    <2> QED
        BY <2>1, <2>2
<1>11. CASE n = 0
    <2>1. piece = <<>>
        BY <1>2, <1>11, EmptySeq
    <2>2. stream' = stream
        BY <1>3, <2>1, ConcatEmptySeq
    <2> QED
        BY <1>3, <1>8, <1>9, <1>10, <2>2 DEF Fifo!vars
<1>12. CASE n > 0
    <2>1. piece = Fifo!Piece(s, total + 1, total + n)
        BY DEF piece, Piece, Byte, Fifo!Piece, Fifo!Byte
    <2>2. CASE Small(s)
        <3>1. total + 1 = 1 /\ total + n = Size[s]
            BY <1>2, <1>4, <1>12, <2>2
        <3>2. Fifo!EnterWhole(s)
            BY <1>3, <1>4, <2>1, <2>2, <3>1 DEF Fifo!EnterWhole, Small
        <3> QED
            BY <1>8, <1>9, <1>10, <3>2 DEF Fifo!Next
    <2>3. CASE ~Small(s)
        <3>1. total + 1 \in 1..Size[s] /\ total + n \in 1..Size[s] /\ total + 1 <= total + n
            BY <1>1, <1>2, <1>12, Constants
        <3>2. /\ stream' = stream \o Fifo!Piece(s, total + 1, total + n)
              /\ front' = front /\ Size[s] > Atomic
            BY <1>3, <2>1, <2>3, Constants DEF Small
        <3>3. Fifo!EnterPiece(s)
            BY <3>1, <3>2, Zenon DEF Fifo!EnterPiece
        <3> QED
            BY <1>8, <1>9, <1>10, <3>3 DEF Fifo!Next
    <2> QED
        BY <2>2, <2>3
<1> QED
    BY <1>2, <1>11, <1>12

-----------------------------------------------------------------------------

LEMMA InductiveInit == Init => Inductive /\ Fifo!Init
<1> SUFFICES ASSUME Init PROVE Inductive /\ Fifo!Init
    OBVIOUS
<1>1. TypeOK
    BY InitTypes
<1>2. stream = <<>> /\ front = 0 /\ Len(stream) = 0 /\ DOMAIN stream = {}
    BY DEF Init
<1>3. HeldFits
    BY <1>2, Constants DEF HeldFits, Held
<1>4. Remaining
    BY <1>2, Constants DEF Init, NewSend, Remaining
<1> QED
    BY <1>1, <1>2, <1>3, <1>4 DEF Inductive, Fifo!Init

LEMMA EveryStep ==
    ASSUME Inductive, [Next]_vars
    PROVE  Inductive' /\ [Fifo!Next]_Fifo!vars
<1>1. CASE UNCHANGED vars
    <2>1. Quiet
        BY <1>1, LengthOfStream DEF vars, Quiet, Inductive
    <2> QED
        BY <2>1, QuietKeeps
<1>2. ASSUME NEW s \in Sends, SendStarts(s) \/ SendUnopened(s) \/ SendStep(s)
      PROVE  Inductive' /\ [Fifo!Next]_Fifo!vars
    BY <1>2, SendsAreQuiet, QuietKeeps, WriteKeeps DEF SendStep, Inductive
<1>3. ASSUME NEW r \in Receives,
             ReceiveOpens(r) \/ ReceiveStep(r) \/ ReceiveInterrupted(r) \/ ReceiveExhausted(r)
      PROVE  Inductive' /\ [Fifo!Next]_Fifo!vars
    BY <1>3, ReceivesAreQuiet, QuietKeeps DEF Inductive
<1> QED
    BY <1>1, <1>2, <1>3 DEF Next

LEMMA InductiveHolds == Spec => []Inductive
<1>1. Inductive /\ [Next]_vars => Inductive'
    BY EveryStep
<1> QED
    BY <1>1, InductiveInit, PTL DEF Spec

\* Whatever calls overlap on a FIFO, whatever they return and whenever they are
\* cut short, the state of each keeps its types, size_t of the count included.
THEOREM TransferTypes == Spec => []TypeOK
<1>1. Inductive => TypeOK
    BY DEF Inductive
<1> QED
    BY <1>1, InductiveHolds, PTL

\* pipe_send and pipe_receive make of a FIFO what the modules above take it for:
\* small frames enter whole, once, and bytes leave in the order they entered.
THEOREM TransferRefinesFifo == Spec => ImplementsFrameFifo
<1>1. Inductive /\ [Next]_vars => [Fifo!Next]_Fifo!vars
    BY EveryStep
<1>2. Init => Fifo!Init
    BY InductiveInit
<1> QED
    BY <1>1, <1>2, InductiveHolds, PTL DEF Spec, ImplementsFrameFifo, Fifo!Spec

-----------------------------------------------------------------------------
(* The time-out of a receive that meets nobody *)

\* So far the polls of r have all waited.
Waiting(r) ==
    /\ Held = 0 /\ receive[r].got = <<>> /\ receive[r].alloc = FALSE
    /\ receive[r].waited = receive[r].idle
    /\ receive[r].pc \in {"poll", "close"}
    /\ receive[r].pc = "poll" => receive[r].idle < Patience[r]
    /\ receive[r].pc = "close" /\ receive[r].rc = "NO_DATA_AVAILABLE" => receive[r].idle = Patience[r]

\* A FIFO nobody has open holds nothing; a receive knows whether there was
\* anybody with it.
AloneInv ==
    /\ Writers \cup Readers = {} => Held = 0
    /\ \A r \in Readers :
          /\ ~receive[r].met => Writers = {}
          /\ ~receive[r].mixed => Readers = {r}
          /\ ~receive[r].met /\ ~receive[r].mixed => Waiting(r)

LEMMA AloneSend ==
    ASSUME TypeOK, HeldFits, Remaining, AloneInv, NEW s \in Sends,
           SendStarts(s) \/ SendUnopened(s) \/ SendStep(s)
    PROVE  AloneInv'
<1> USE LengthOfStream
<1>0. SendOpens(s) \/ \A r \in Receives : receive'[r] = receive[r]
    BY DEF SendStarts, SendUnopened, SendStep, SendOpenFails, SendPolls, SendPollTimesOut,
           SendWrites, SendKilled, SendCloses
<1>1. CASE SendOpens(s)
    <2> DEFINE met(r) == receive[r].met \/ r \in Readers
    <2>1. \A r \in Receives : receive'[r] = [receive[r] EXCEPT !.met = met(r)]
        BY <1>1 DEF SendOpens
    <2>2. \A r \in Readers : r \in Receives /\ met(r) = TRUE
        <3>1. \A r \in Readers : r \in Receives
            BY DEF Readers
        <3> QED
            BY <3>1, Zenon
    <2> HIDE DEF met
    <2>3. \A r \in Receives : /\ receive'[r].pc = receive[r].pc /\ receive'[r].met = met(r)
                              /\ receive'[r].mixed = receive[r].mixed
        BY <2>1 DEF ReceiveRecord
    <2>4. Readers' = Readers /\ Readers # {}
        BY <1>1, <2>3 DEF SendOpens, Readers
    <2>5. \A r \in Readers : receive'[r].met = TRUE
        BY <2>2, <2>3
    <2>6. \A r \in Readers : ~receive'[r].mixed => Readers = {r}
        BY <2>2, <2>3 DEF AloneInv
    <2> QED
        BY <2>4, <2>5, <2>6 DEF AloneInv
<1>2. CASE SendWrites(s)
    <2> DEFINE count == CountAfter(s, Written(Size[s] - send[s].total))
    <2> DEFINE next == IF count < Size[s] THEN "poll" ELSE "close"
    <2>1. /\ send[s].pc = "write" /\ receive' = receive
          /\ send' = [send EXCEPT ![s].pc = next, ![s].total = count]
        BY <1>2 DEF SendWrites
    <2>2. next \in {"poll", "close"}
        OBVIOUS
    <2> HIDE DEF count, next
    <2>3. send'[s].pc = next
        BY <2>1 DEF SendRecord
    <2>4. s \in Writers /\ s \in Writers' /\ Readers' = Readers
        BY <2>1, <2>2, <2>3 DEF Writers, Readers
    <2> QED
        BY <2>1, <2>4 DEF AloneInv
<1>3. CASE SendKilled(s) \/ SendCloses(s)
    <2>1. s \in Writers /\ receive' = receive /\ stream' = stream /\ LeftBy(s)
        BY <1>3 DEF SendKilled, SendCloses, SendGoes, SendReturns, Writers
    <2>2. Readers' = Readers
        BY <2>1 DEF Readers
    <2>3. \A r \in Readers : receive'[r].met = TRUE \/ receive[r].met
        BY <2>1 DEF AloneInv
    <2>4. Writers' = Writers \ {s}
        BY <1>3 DEF SendKilled, SendCloses, SendGoes, SendReturns, Writers, SendRecord
    <2>5. Writers' \cup Readers' = {} => Held' = 0
        BY <2>1, <2>2, <2>4 DEF LeftBy, Held
    <2>6. \A r \in Readers : receive'[r].met
        BY <2>1 DEF AloneInv
    <2> QED
        BY <2>1, <2>2, <2>5, <2>6 DEF AloneInv
<1>4. CASE SendStarts(s) \/ SendUnopened(s) \/ SendOpenFails(s) \/ SendPolls(s) \/ SendPollTimesOut(s)
    <2>1. receive' = receive /\ stream' = stream /\ front' = front
        BY <1>4 DEF SendStarts, SendUnopened, SendOpenFails, SendPolls, SendPollTimesOut
    <2>2. Writers' = Writers
        BY <1>4 DEF SendStarts, SendUnopened, SendOpenFails, SendPolls, SendPollTimesOut, SendGoes,
                    SendReturns, Writers, SendRecord
    <2> QED
        BY <2>1, <2>2 DEF AloneInv, Waiting, Readers, Held
<1> QED
    BY <1>1, <1>2, <1>3, <1>4 DEF SendStep

\* A call under way goes on under way.
LEMMA AloneReceiveGoesOn ==
    ASSUME TypeOK, AloneInv, UNCHANGED <<send, stream>>, NEW r \in Readers, NEW rec \in ReceiveRecord,
           receive' = [receive EXCEPT ![r] = rec],
           rec.pc \in {"poll", "read", "close"},
           rec.met = receive[r].met, rec.mixed = receive[r].mixed,
           ~receive[r].met /\ Waiting(r) => Waiting(r)'
    PROVE  AloneInv'
<1> USE LengthOfStream
<1>1. r \in Receives /\ receive'[r] = rec /\ \A q \in Receives \ {r} : receive'[q] = receive[q]
    BY DEF Readers
<1>2. Readers' = Readers /\ Writers' = Writers
    BY <1>1 DEF Readers, Writers
<1>3. \A q \in Readers \ {r} : receive[q].mixed
    BY DEF AloneInv
<1> QED
    BY <1>1, <1>2, <1>3 DEF AloneInv, Readers

LEMMA AloneReceive ==
    ASSUME TypeOK, AloneInv, NEW r \in Receives,
           ReceiveOpens(r) \/ ReceiveStep(r) \/ ReceiveInterrupted(r) \/ ReceiveExhausted(r)
    PROVE  AloneInv'
<1> USE LengthOfStream
<1>0. receive[r] \in ReceiveRecord /\ receive[r].idle \in Nat /\ receive[r].waited \in Nat
    BY DEF ReceiveRecord
<1>1. CASE ReceiveOpens(r)
    <2> DEFINE rec == [NewReceive EXCEPT !.pc = "poll", !.met = (Writers # {}), !.mixed = (Readers # {})]
    <2> DEFINE mixed(q) == receive[q].mixed \/ q \in Readers
    <2>1. /\ receive'[r] = rec
          /\ \A q \in Receives \ {r} : receive'[q] = [receive[q] EXCEPT !.mixed = mixed(q)]
          /\ UNCHANGED <<send, stream, front>> /\ r \notin Readers
        BY <1>1 DEF ReceiveOpens, Readers
    <2>2. /\ rec.pc = "poll" /\ rec.got = <<>> /\ rec.alloc = FALSE /\ rec.waited = 0 /\ rec.idle = 0
          /\ rec.met = (Writers # {})
          /\ rec.mixed = (Readers # {})
        BY DEF NewReceive
    <2>0. \A q \in Readers : mixed(q) = TRUE
        BY Zenon
    <2> HIDE DEF rec, mixed
    <2>3. \A q \in Receives \ {r} : receive'[q].pc = receive[q].pc /\ receive'[q].met = receive[q].met
        BY <2>1 DEF ReceiveRecord
    <2>4. \A q \in Readers : receive'[q].mixed = TRUE
        <3>1. \A q \in Readers : q \in Receives \ {r}
            BY <2>1 DEF Readers
        <3>2. \A q \in Receives \ {r} : receive'[q].mixed = mixed(q)
            BY <2>1 DEF ReceiveRecord
        <3> QED
            BY <2>0, <3>1, <3>2
    <2>5. Writers' = Writers /\ Readers' = Readers \cup {r}
        BY <2>1, <2>2, <2>3 DEF Writers, Readers
    <2>6. Held' = Held
        BY <2>1 DEF Held
    <2>7. ASSUME Writers = {}, Readers = {} PROVE Waiting(r)'
        <3>1. Held' = 0
            BY <2>6, <2>7 DEF AloneInv
        <3> QED
            BY <2>1, <2>2, <3>1, Constants DEF Waiting
    <2>8. (~receive'[r].met => Writers = {}) /\ (~receive'[r].mixed => Readers = {})
        BY <2>1, <2>2
    <2>9. \A q \in Readers : ~receive'[q].met => Writers = {}
        BY <2>1, <2>3 DEF AloneInv, Readers
    <2> QED
        BY <2>4, <2>5, <2>7, <2>8, <2>9 DEF AloneInv
<1>2. CASE ReceiveCloses(r)
    <2>1. r \in Readers /\ receive'[r].pc \in {"none", "done"}
        BY <1>2 DEF ReceiveCloses, Readers, NewReceive
    <2>2. /\ UNCHANGED <<send, stream>> /\ LeftBy(r)
          /\ \A q \in Receives \ {r} : receive'[q] = receive[q]
        BY <1>2 DEF ReceiveCloses
    <2>3. Writers' = Writers /\ Readers' = Readers \ {r}
        BY <2>1, <2>2 DEF Writers, Readers
    <2>4. \A q \in Readers \ {r} : receive[q].mixed
        BY <2>1 DEF AloneInv
    <2>5. Writers' \cup Readers' = {} => Held' = 0
        BY <2>2, <2>3 DEF LeftBy, Held
    <2> QED
        BY <2>2, <2>3, <2>4, <2>5 DEF AloneInv, Readers
<1>3. ASSUME NEW rec \in ReceiveRecord, receive' = [receive EXCEPT ![r] = rec], UNCHANGED <<send, stream>>,
             r \in Readers, rec.pc \in {"poll", "read", "close"},
             rec.met = receive[r].met, rec.mixed = receive[r].mixed,
             ~receive[r].met /\ Waiting(r) => Waiting(r)'
      PROVE  AloneInv'
    BY <1>3, AloneReceiveGoesOn
<1> DEFINE after == AfterNothing(r)
<1>4. /\ after \in ReceiveRecord /\ after.pc \in {"poll", "close"}
      /\ after.met = receive[r].met /\ after.mixed = receive[r].mixed
      /\ after.waited = receive[r].waited /\ after.got = receive[r].got
      /\ after.alloc = receive[r].alloc
      /\ ~receive[r].alloc =>
            /\ after.idle = receive[r].idle + 1
            /\ after.pc = "poll" => receive[r].idle + 1 < Patience[r]
            /\ after.pc = "close" => receive[r].idle + 1 >= Patience[r]
    BY <1>0, AfterNothingProperties
<1> HIDE DEF after
<1>5. CASE ReceiveWaits(r)
    <2> DEFINE rec == [after EXCEPT !.waited = @ + 1]
    <2>1. rec \in ReceiveRecord
        <3>1. \A n \in Nat : [after EXCEPT !.waited = n] \in ReceiveRecord
            BY <1>4 DEF ReceiveRecord
        <3>2. after.waited + 1 \in Nat
            BY <1>0, <1>4
        <3> QED
            BY <3>1, <3>2
    <2>2. /\ receive[r].pc = "poll" /\ receive' = [receive EXCEPT ![r] = rec]
          /\ UNCHANGED <<send, stream, front>>
        BY <1>5 DEF ReceiveWaits, after
    <2>3. /\ rec.pc = after.pc /\ rec.met = after.met /\ rec.mixed = after.mixed
          /\ rec.idle = after.idle /\ rec.got = after.got /\ rec.alloc = after.alloc
          /\ rec.waited = receive[r].waited + 1
        BY <1>4 DEF ReceiveRecord
    <2> HIDE DEF rec
    <2>4. receive'[r] = rec /\ Held' = Held /\ r \in Readers
        BY <2>2 DEF Held, Readers
    <2>5. ASSUME Waiting(r) PROVE Waiting(r)'
        <3>1. /\ rec.idle = receive[r].idle + 1 /\ rec.waited = rec.idle
              /\ rec.pc = "poll" => rec.idle < Patience[r]
              /\ rec.pc = "close" => rec.idle = Patience[r]
            BY <1>0, <1>4, <2>2, <2>3, <2>5, Constants DEF Waiting
        <3> QED
            BY <1>4, <2>3, <2>4, <2>5, <3>1 DEF Waiting
    <2> QED
        BY <1>3, <1>4, <2>1, <2>2, <2>3, <2>4, <2>5
<1>6. CASE ReceiveInterrupted(r)
    <2> DEFINE rec == [receive[r] EXCEPT !.pc = "close", !.rc = "READ_FAILED"]
    <2>1. rec \in ReceiveRecord /\ rec.pc = "close" /\ rec.rc = "READ_FAILED"
          /\ rec.met = receive[r].met /\ rec.mixed = receive[r].mixed /\ rec.idle = receive[r].idle
          /\ rec.got = receive[r].got /\ rec.alloc = receive[r].alloc /\ rec.waited = receive[r].waited
        BY <1>0 DEF ReceiveRecord
    <2>2. /\ receive[r].pc = "poll" /\ receive' = [receive EXCEPT ![r] = rec]
          /\ UNCHANGED <<send, stream, front>>
        BY <1>6 DEF ReceiveInterrupted
    <2> HIDE DEF rec
    <2>3. receive'[r] = rec /\ Held' = Held /\ r \in Readers
        BY <2>2 DEF Held, Readers
    <2>4. Waiting(r) => Waiting(r)'
        BY <2>1, <2>3 DEF Waiting
    <2> QED
        BY <1>3, <2>1, <2>2, <2>3, <2>4
<1>7. CASE \/ ReceiveHangsUp(r) \/ ReceivePolls(r) \/ ReceiveReads(r) \/ ReceiveExhausted(r)
           \/ ReceiveReadsNothing(r) \/ ReceiveReadsEnd(r)
    <2>1. r \in Readers /\ UNCHANGED <<send, stream>> /\ (~Waiting(r) \/ receive[r].met)
        BY <1>7 DEF ReceiveHangsUp, ReceivePolls, ReceiveReads, ReceiveExhausted, ReceiveReadsNothing,
                    ReceiveReadsEnd, ReceiveGoes, Readers, Waiting
    <2>2. receive' \in [Receives -> ReceiveRecord]
        BY <1>7, ReceivesAreQuiet DEF ReceiveStep, Quiet
    <2>3. receive' = [receive EXCEPT ![r] = receive'[r]]
        <3>1. \A q \in Receives \ {r} : receive'[q] = receive[q]
            BY <1>7 DEF ReceiveHangsUp, ReceivePolls, ReceiveReads, ReceiveExhausted,
                        ReceiveReadsNothing, ReceiveReadsEnd, ReceiveGoes
        <3> QED
            BY <2>2, <3>1
    <2>4. /\ receive'[r].pc \in {"poll", "read", "close"}
          /\ receive'[r].met = receive[r].met /\ receive'[r].mixed = receive[r].mixed
        BY <1>4, <1>7 DEF ReceiveHangsUp, ReceivePolls, ReceiveReads, ReceiveExhausted,
                     ReceiveReadsNothing, ReceiveReadsEnd, ReceiveGoes, ReceiveRecord, after
    <2> QED
        BY <1>3, <2>1, <2>2, <2>3, <2>4
<1> QED
    BY <1>1, <1>2, <1>5, <1>6, <1>7 DEF ReceiveStep

LEMMA AloneInit == Init => AloneInv
<1> SUFFICES ASSUME Init PROVE AloneInv
    OBVIOUS
<1>1. Readers = {}
    BY DEF Init, NewReceive, Readers
<1>2. stream = <<>> /\ front = 0 /\ Len(stream) = 0
    BY DEF Init
<1> QED
    BY <1>1, <1>2 DEF AloneInv, Held

LEMMA AloneStep == Inductive /\ AloneInv /\ [Next]_vars => AloneInv'
<1> SUFFICES ASSUME Inductive, AloneInv, [Next]_vars PROVE AloneInv'
    OBVIOUS
<1>1. CASE UNCHANGED vars
    BY <1>1 DEF vars, AloneInv, Waiting, Held, Readers, Writers
<1>2. CASE Next
    BY <1>2, AloneSend, AloneReceive DEF Next, Inductive
<1> QED
    BY <1>1, <1>2

\* A receive that nobody wrote to, and that shared the FIFO with no other,
\* returns without data only when it has waited for all its time-out.
THEOREM TimeOutIsWaited == Spec => []GivesUpAfterTimeOut
<1>1. AloneInv => GivesUpAfterTimeOut
    BY DEF AloneInv, GivesUpAfterTimeOut, Readers, Waiting, Result
<1> QED
    BY <1>1, AloneInit, AloneStep, InductiveHolds, PTL DEF Spec
=============================================================================
