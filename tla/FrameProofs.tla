----------------------------- MODULE FrameProofs -----------------------------
(***************************************************************************)
(* The proofs that PipeTransfer keeps frames whole: what a send that         *)
(* succeeded, or failed, has put into the FIFO, and what a receive takes out  *)
(* of it, for every number of calls, every size and every time-out.           *)
(***************************************************************************)
EXTENDS PipeTransferProofs, FiniteSetTheorems

Unfinished(s) == send[s].pc \in {"none", "open", "poll", "write"}

\* What s has written so far is in the stream, every byte once and in order.
Tidy(s) ==
    /\ IsFiniteSet(Places(s)) /\ Cardinality(Places(s)) = send[s].total
    /\ \A p \in Places(s) : stream[p].at = Cardinality({q \in Places(s) : q <= p})

\* The last byte that entered is of another frame.
Overtaken(s) == stream # <<>> /\ stream[Len(stream)].of # s

\* A byte of another frame entered after one of s.
Interrupted(s) ==
    \E p \in Places(s), k \in DOMAIN stream : p < k /\ stream[k].of # s

\* The call has written everything, and returns or will return success; or not.
Succeeds(s) ==
    \/ send[s].pc = "close" /\ send[s].total = Size[s]
    \/ send[s].pc = "done" /\ send[s].rc = "SUCCESS"
Fails(s) ==
    \/ send[s].pc = "close" /\ send[s].total # Size[s]
    \/ send[s].pc = "done" /\ send[s].rc # "SUCCESS"

\* A write that fails for lack of room takes one from the count, and a byte is
\* written again: but room there was when the FIFO was polled, and only another
\* send took it.
Framed(s) ==
    /\ send[s].pc # "done" => send[s].rc # "SUCCESS"
    /\ send[s].pc = "write" => Writable \/ Overtaken(s)
    /\ Unfinished(s) => Tidy(s) \/ Interrupted(s)
    /\ Succeeds(s) => /\ send[s].total = Size[s]
                      /\ Tidy(s) \/ (~Small(s) /\ ~Adjacent(Places(s)))
    /\ Fails(s) /\ Small(s) => Places(s) = {}

AllFramed == \A s \in Sends : Framed(s)

\* No small frame has bytes on both sides of the place k.
Clean(k) ==
    \A s \in Sends : Small(s) => (\A p \in Places(s) : p <= k) \/ (\A p \in Places(s) : p > k)

\* Only a receive that goes on leaves a frame cut.
Drained ==
    (\A r \in Receives : receive[r].pc \notin {"poll", "read"}) /\ ~exhausted => Clean(front)

\* What r has is what left the FIFO after begun, where no frame was cut.
HasSince(r, begun) ==
    /\ begun + Len(receive[r].got) = front /\ Clean(begun)
    /\ \A i \in DOMAIN receive[r].got : receive[r].got[i] = begun + i

\* A receive that was alone has what left the FIFO since it began.
InOnePiece ==
    \A r \in Readers : ~receive[r].mixed /\ ~exhausted => \E begun \in 0..front : HasSince(r, begun)

-----------------------------------------------------------------------------
(* The stream *)

LEMMA DomainOfStream == ASSUME TypeOK PROVE DOMAIN stream = 1..Len(stream) /\ Len(stream) \in Nat
BY LengthOfStream, LenProperties

\* What a write adds to the stream and to the count.
WriteAdds(s, n) ==
    /\ n \in Nat /\ send[s].total + n <= Size[s]
    /\ n = 0 => ~Writable
    /\ Len(stream') = Len(stream) + n /\ DOMAIN stream' = 1..(Len(stream) + n)
    /\ \A p \in 1..Len(stream) : stream'[p] = stream[p]
    /\ \A i \in 1..n : stream'[Len(stream) + i] = Byte(s, send[s].total + i)
    /\ n > 0 => send'[s].total = send[s].total + n
    /\ n = 0 /\ send[s].total > 0 => send'[s].total = send[s].total - 1
    /\ n = 0 /\ send[s].total = 0 => send'[s].total > Size[s]
    /\ send'[s].pc = IF send'[s].total < Size[s] THEN "poll" ELSE "close"
    /\ send'[s].rc = send[s].rc /\ send'[s].total \in Nat
    /\ \A t \in Sends \ {s} : send'[t] = send[t]
    /\ n = 0 => stream' = stream

LEMMA Modulo ==
    ASSUME NEW a \in Int, NEW w \in Int, 0 <= a, a < w
    PROVE  a % w = a /\ (a + w) % w = a
OBVIOUS

\* What adding the -1 of a write that failed makes of the count.
LEMMA FailedWrite ==
    ASSUME NEW t \in Nat, t < Wrap
    PROVE  (t + Wrap - 1) % Wrap = IF t > 0 THEN t - 1 ELSE Wrap - 1
<1>1. Wrap \in Int /\ Wrap > 0
    BY Constants
<1>2. CASE t > 0
    <2>1. t - 1 \in Int /\ 0 <= t - 1 /\ t - 1 < Wrap
        BY <1>1, <1>2
    <2>2. ((t - 1) + Wrap) % Wrap = t - 1
        BY <1>1, <2>1, Modulo
    <2>3. t + Wrap - 1 = (t - 1) + Wrap
        BY <1>1
    <2> QED
        BY <1>2, <2>2, <2>3
<1>3. CASE t = 0
    <2>1. Wrap - 1 \in Int /\ 0 <= Wrap - 1 /\ Wrap - 1 < Wrap /\ t + Wrap - 1 = Wrap - 1
        BY <1>1, <1>3
    <2>2. (Wrap - 1) % Wrap = Wrap - 1
        BY <1>1, <2>1, Modulo
    <2> QED
        BY <1>3, <2>1, <2>2
<1> QED
    BY <1>2, <1>3

LEMMA WriteAddsSome ==
    ASSUME Inductive, NEW s \in Sends, SendWrites(s)
    PROVE  \E n \in Nat : WriteAdds(s, n)
<1> USE LengthOfStream DEF Inductive
<1> DEFINE total == send[s].total
<1> DEFINE n == Written(Size[s] - total)
<1> DEFINE count == CountAfter(s, n)
<1> DEFINE piece == Piece(s, total + 1, total + n)
<1> DEFINE next == IF count < Size[s] THEN "poll" ELSE "close"
<1>1. send[s].pc = "write" /\ send[s] \in SendRecord /\ total \in Nat /\ total < Size[s]
    BY Constants DEF SendWrites, SendRecord, Remaining
<1>2. /\ n \in Nat /\ n <= Free /\ total + n <= Size[s] /\ count \in 0..(Wrap - 1)
      /\ n > 0 => count = total + n
      /\ piece \in Seq(Cell) /\ Len(piece) = n
    BY <1>1, WrittenProperties
<1>3. Free \in Nat
    BY Constants DEF HeldFits, Held, Free
<1>4. n = 0 => ~Writable
    BY <1>1, <1>3, Constants DEF Writable, Written, Smaller
<1>5. \A i \in 1..n : piece[i] = Byte(s, total + i)
    BY <1>1, <1>2 DEF Piece, Byte
<1>6. /\ send' = [send EXCEPT ![s].pc = next, ![s].total = count] /\ stream' = stream \o piece
      /\ UNCHANGED <<receive, front, exhausted>>
    BY DEF SendWrites
<1>7. n = 0 => count = (total + Wrap - 1) % Wrap
    <2>1. n = 0 => total + (IF n = 0 THEN Wrap - 1 ELSE n) = total + Wrap - 1
        BY <1>1, Constants
    <2> QED
        BY <2>1 DEF CountAfter
<1> HIDE DEF n, count, piece, total
<1>8. total < Wrap
    BY <1>1, Constants DEF total
<1>9. /\ n = 0 /\ total > 0 => count = total - 1
      /\ n = 0 /\ total = 0 => count > Size[s]
    <2>1. total \in Nat /\ Wrap \in Nat /\ Size[s] \in Nat /\ Wrap - 1 > Size[s]
        BY <1>1, Constants DEF total
    <2>2. (total + Wrap - 1) % Wrap = IF total > 0 THEN total - 1 ELSE Wrap - 1
        BY <1>8, <2>1, FailedWrite
    <2> QED
        BY <1>7, <2>1, <2>2
<1>10. /\ send'[s].pc = next /\ send'[s].total = count /\ send'[s].rc = send[s].rc
       /\ \A t \in Sends \ {s} : send'[t] = send[t]
    BY <1>1, <1>6 DEF SendRecord
<1>11. Len(stream) \in Nat /\ stream \in Seq(Cell)
    OBVIOUS
<1>12. stream' \in Seq(Cell) /\ Len(stream') = Len(stream) + n
    BY <1>2, <1>6, <1>11, ConcatProperties
<1>13. DOMAIN stream' = 1..(Len(stream) + n)
    BY <1>12, LenProperties
<1>14. \A p \in 1..Len(stream) : stream'[p] = stream[p]
    BY <1>2, <1>6, <1>11, ConcatProperties
<1>15. \A i \in 1..n : stream'[Len(stream) + i] = piece[i]
    BY <1>2, <1>6, <1>11, ConcatProperties
<1>16. n = 0 => stream' = stream
    <2>1. n = 0 => piece = <<>>
        BY <1>2, EmptySeq
    <2> QED
        BY <1>6, <1>11, <2>1, ConcatEmptySeq
<1>17. WriteAdds(s, n)
    BY <1>2, <1>4, <1>5, <1>9, <1>10, <1>12, <1>13, <1>14, <1>15, <1>16, Constants
    DEF WriteAdds, total
<1> QED
    BY <1>2, <1>17

\* The places of the frames after a write.
LEMMA PlacesAfterWrite ==
    ASSUME TypeOK, NEW s \in Sends, NEW n \in Nat, WriteAdds(s, n)
    PROVE  /\ Places(s)' = Places(s) \cup (Len(stream) + 1)..(Len(stream) + n)
           /\ \A t \in Sends \ {s} : Places(t)' = Places(t)
<1>1. Len(stream) \in Nat /\ DOMAIN stream = 1..Len(stream)
    BY DomainOfStream
<1>2. \A p \in (Len(stream) + 1)..(Len(stream) + n) : stream'[p].of = s
    <2> SUFFICES ASSUME NEW p \in (Len(stream) + 1)..(Len(stream) + n) PROVE stream'[p].of = s
        OBVIOUS
    <2>1. p - Len(stream) \in 1..n /\ p = Len(stream) + (p - Len(stream))
        BY <1>1
    <2>2. PICK i \in 1..n : p = Len(stream) + i
        BY <2>1
    <2>3. stream'[Len(stream) + i] = Byte(s, send[s].total + i)
        BY DEF WriteAdds
    <2>4. stream'[p] = Byte(s, send[s].total + i)
        BY <2>2, <2>3
    <2> QED
        BY <2>4 DEF Byte
<1>3. DOMAIN stream' = 1..Len(stream) \cup (Len(stream) + 1)..(Len(stream) + n)
    BY <1>1 DEF WriteAdds
<1> QED
    BY <1>1, <1>2, <1>3 DEF WriteAdds, Places

-----------------------------------------------------------------------------
(* Sends *)

\* What the other steps of a send make of it.
SendGoesOn(s) ==
    /\ stream' = stream /\ front' >= front
    /\ \A t \in Sends \ {s} : send'[t] = send[t]
    /\ send'[s].total = send[s].total
    /\ \/ /\ Unfinished(s) /\ send'[s].pc \in {"open", "poll", "spin", "astray", "killed"}
          /\ send'[s].rc \in {send[s].rc, "WRITE_FAILED"}
       \/ Unfinished(s) /\ send'[s].pc = "write" /\ send'[s].rc = send[s].rc /\ Writable /\ front' = front
       \/ Unfinished(s) /\ send'[s].pc = "done" /\ send'[s].rc = "OPEN_FAILED"
       \/ /\ send[s].pc = "close" /\ send'[s].pc = "done"
          /\ send'[s].rc = IF send[s].total = Size[s] THEN "SUCCESS" ELSE send[s].rc

LEMMA SendsGoOn ==
    ASSUME TypeOK, NEW s \in Sends,
           \/ SendStarts(s) \/ SendUnopened(s) \/ SendOpens(s) \/ SendOpenFails(s) \/ SendPolls(s)
           \/ SendPollTimesOut(s) \/ SendKilled(s) \/ SendCloses(s)
    PROVE  SendGoesOn(s)
<1> USE LengthOfStream
<1>0. send[s] \in SendRecord /\ front \in Nat /\ Len(stream) >= front /\ Len(stream) \in Nat
    OBVIOUS
<1> USE DEF SendGoesOn, Unfinished, SendGoes, SendReturns, SendRecord
<1>1. CASE SendStarts(s)
    BY <1>0, <1>1 DEF SendStarts
<1>2. CASE SendUnopened(s)
    BY <1>0, <1>2 DEF SendUnopened
<1>3. CASE SendOpens(s)
    BY <1>0, <1>3 DEF SendOpens
<1>4. CASE SendOpenFails(s)
    BY <1>0, <1>4 DEF SendOpenFails
<1>5. CASE SendPolls(s)
    BY <1>0, <1>5 DEF SendPolls
<1>6. CASE SendPollTimesOut(s)
    BY <1>0, <1>6 DEF SendPollTimesOut
<1>7. CASE SendKilled(s)
    BY <1>0, <1>7 DEF SendKilled, LeftBy
<1>8. CASE SendCloses(s)
    BY <1>0, <1>8 DEF SendCloses, LeftBy
<1> QED
    BY <1>1, <1>2, <1>3, <1>4, <1>5, <1>6, <1>7, <1>8

\* A send that makes no step keeps its frame while bytes leave the FIFO.
LEMMA FramedKept ==
    ASSUME TypeOK, NEW t \in Sends, Framed(t),
           send'[t] = send[t], stream' = stream, front' >= front, front' \in Nat
    PROVE  Framed(t)'
<1>1. Places(t)' = Places(t)
    BY DEF Places
<1>2. Writable => Writable'
    BY LengthOfStream, Constants DEF Writable, Free, Held
<1>3. /\ Overtaken(t)' <=> Overtaken(t)
      /\ Tidy(t)' <=> Tidy(t)
      /\ Interrupted(t)' <=> Interrupted(t)
    BY <1>1 DEF Overtaken, Tidy, Interrupted
<1> QED
    BY <1>1, <1>2, <1>3 DEF Framed, Unfinished, Succeeds, Fails, Small, Adjacent

LEMMA FramedGoesOn ==
    ASSUME Inductive, AllFramed, NEW s \in Sends, SendGoesOn(s), front' \in Nat
    PROVE  AllFramed'
<1>1. \A t \in Sends \ {s} : Framed(t)'
    BY FramedKept DEF SendGoesOn, AllFramed, Inductive
<1>2. Framed(s)'
    <2> USE DEF SendGoesOn
    <2>1. Places(s)' = Places(s)
        BY DEF Places
    <2>2. /\ Tidy(s)' <=> Tidy(s)
          /\ Interrupted(s)' <=> Interrupted(s)
        BY <2>1 DEF Tidy, Interrupted
    <2>3. Framed(s)
        BY DEF AllFramed
    <2>4. CASE Unfinished(s) /\ send'[s].pc # "done"
        <3>1. send'[s].pc \in {"open", "poll", "write", "spin", "astray", "killed"}
            BY <2>4 DEF Unfinished
        <3>2. send'[s].rc # "SUCCESS"
            BY <2>3, <2>4 DEF Unfinished, Framed
        <3>3. send'[s].pc = "write" => Writable'
            BY <2>4 DEF Unfinished, Writable, Free, Held
        <3> QED
            BY <2>2, <2>3, <2>4, <3>1, <3>2, <3>3 DEF Framed, Unfinished, Succeeds, Fails
    <2>5. CASE Unfinished(s) /\ send'[s].pc = "done"
        <3>1. send'[s].rc = "OPEN_FAILED"
            BY <2>5 DEF Unfinished
        <3>2. Small(s) => Places(s) = {}
            BY <2>5 DEF Unfinished, Inductive, Remaining, Places
        <3> QED
            BY <2>1, <2>5, <3>1, <3>2 DEF Framed, Unfinished, Succeeds, Fails, Small
    <2>6. CASE ~Unfinished(s)
        <3>1. /\ send[s].pc = "close" /\ send'[s].pc = "done"
              /\ send'[s].rc = IF send[s].total = Size[s] THEN "SUCCESS" ELSE send[s].rc
            BY <2>6
        <3>2. send[s].rc # "SUCCESS"
            BY <2>3, <3>1 DEF Framed
        <3>3. /\ Succeeds(s)' <=> Succeeds(s)
              /\ Fails(s)' <=> Fails(s)
            BY <3>1, <3>2 DEF Succeeds, Fails
        <3> QED
            BY <2>1, <2>2, <2>3, <3>1, <3>3 DEF Framed, Unfinished, Small, Adjacent
    <2> QED
        BY <2>4, <2>5, <2>6
<1> QED
    BY <1>1, <1>2 DEF AllFramed

\* The next n bytes of s enter in order behind those it has written.
LEMMA TidyGrows ==
    ASSUME TypeOK, NEW s \in Sends, NEW n \in Nat, n > 0, WriteAdds(s, n), Tidy(s)
    PROVE  Tidy(s)'
<1> PICK len : len = Len(stream)
    OBVIOUS
<1> PICK P : P = Places(s)
    OBVIOUS
<1> PICK N : N = (len + 1)..(len + n)
    OBVIOUS
<1> PICK total : total = send[s].total
    OBVIOUS
<1>1. len \in Nat /\ P \subseteq 1..len /\ P \cap N = {}
    BY DomainOfStream DEF Places
<1>2. Places(s)' = P \cup N /\ send'[s].total = total + n
    BY PlacesAfterWrite DEF WriteAdds
<1>3. IsFiniteSet(P) /\ Cardinality(P) = total /\ total \in Nat
    BY FS_CardinalityType DEF Tidy
<1> DEFINE new(k) == (len + 1)..(len + k)
<1>4. ASSUME NEW k \in 0..n
      PROVE  IsFiniteSet(P \cup new(k)) /\ Cardinality(P \cup new(k)) = total + k
    <2>1. len + 1 \in Int /\ len + k \in Int /\ k \in Nat /\ (len + 1 > len + k <=> k = 0)
        BY <1>1
    <2>2. IsFiniteSet(new(k)) /\ Cardinality(new(k)) = k
        BY <1>1, <2>1, FS_Interval
    <2>3. P \cap new(k) = {}
        BY <1>1
    <2> HIDE DEF new
    <2>4. Cardinality(P \cap new(k)) = 0
        BY <2>3, FS_EmptySet
    <2>5. /\ IsFiniteSet(P \cup new(k))
          /\ Cardinality(P \cup new(k)) = Cardinality(P) + Cardinality(new(k)) - Cardinality(P \cap new(k))
        BY <1>3, <2>2, FS_Union
    <2> QED
        BY <1>3, <2>1, <2>2, <2>4, <2>5
<1>5. ASSUME NEW p \in P
      PROVE  stream'[p].at = Cardinality({q \in P \cup N : q <= p})
    <2>1. {q \in P \cup N : q <= p} = {q \in P : q <= p}
        BY <1>1, <1>5
    <2>2. stream'[p] = stream[p]
        BY <1>1 DEF WriteAdds
    <2> QED
        BY <2>1, <2>2 DEF Tidy
<1>6. ASSUME NEW p \in N
      PROVE  stream'[p].at = Cardinality({q \in P \cup N : q <= p})
    <2>1. p - len \in 1..n /\ p = len + (p - len)
        BY <1>1
    <2>2. PICK k \in 1..n : p = len + k
        BY <2>1
    <2>3. {q \in P \cup N : q <= p} = P \cup new(k) /\ k \in 0..n
        BY <1>1, <2>2
    <2>4. stream'[len + k] = Byte(s, total + k)
        BY DEF WriteAdds
    <2>5. stream'[p].at = total + k
        BY <2>2, <2>4 DEF Byte
    <2> HIDE DEF new
    <2> QED
        BY <1>4, <2>3, <2>5
<1>7. IsFiniteSet(P \cup N) /\ Cardinality(P \cup N) = total + n
    <2>1. N = new(n) /\ n \in 0..n
        OBVIOUS
    <2> HIDE DEF new
    <2> QED
        BY <1>4, <2>1
<1> QED
    BY <1>2, <1>5, <1>6, <1>7 DEF Tidy

\* The others see a write as a byte of another frame, the last one.
LEMMA FramedBesides ==
    ASSUME TypeOK, NEW s \in Sends, NEW n \in Nat, WriteAdds(s, n), UNCHANGED front,
           NEW t \in Sends \ {s}, Framed(t)
    PROVE  Framed(t)'
<1>1. DOMAIN stream = 1..Len(stream) /\ Len(stream) \in Nat
    BY DomainOfStream
<1>2. Places(t)' = Places(t) /\ Places(t) \subseteq 1..Len(stream)
    BY <1>1, PlacesAfterWrite DEF Places
<1>3. send'[t] = send[t] /\ \A p \in Places(t) : stream'[p] = stream[p]
    BY <1>2 DEF WriteAdds
<1>4. Tidy(t)' <=> Tidy(t)
    BY <1>2, <1>3 DEF Tidy
<1>5. Interrupted(t) => Interrupted(t)'
    BY <1>1, <1>2 DEF Interrupted, WriteAdds
<1>6. Writable \/ Overtaken(t) => (Writable \/ Overtaken(t))'
    <2>1. CASE n = 0
        BY <2>1 DEF WriteAdds, Writable, Free, Held, Overtaken
    <2>2. CASE n > 0
        <3>1. Len(stream') = Len(stream) + n /\ stream'[Len(stream) + n] = Byte(s, send[s].total + n)
            BY <2>2 DEF WriteAdds
        <3>2. stream'[Len(stream')].of # t
            BY <3>1 DEF Byte
        <3>3. stream' # <<>>
            BY <1>1, <2>2, <3>1
        <3> QED
            BY <3>2, <3>3 DEF Overtaken
    <2> QED
        BY <2>1, <2>2
<1> QED
    BY <1>2, <1>3, <1>4, <1>5, <1>6 DEF Framed, Unfinished, Succeeds, Fails, Small, Adjacent

LEMMA FramedWrites ==
    ASSUME Inductive, AllFramed, NEW s \in Sends, SendWrites(s)
    PROVE  AllFramed'
<1> PICK n \in Nat : WriteAdds(s, n)
    BY WriteAddsSome
<1>1. \A t \in Sends \ {s} : Framed(t)'
    BY FramedBesides DEF SendWrites, AllFramed, Inductive
<1> SUFFICES Framed(s)'
    BY <1>1 DEF AllFramed
<1>2. send[s].pc = "write" /\ Framed(s) /\ TypeOK
    BY DEF SendWrites, AllFramed, Inductive
<1>3. DOMAIN stream = 1..Len(stream) /\ Len(stream) \in Nat /\ Size[s] \in Nat /\ Size[s] > 0
    BY <1>2, DomainOfStream, Constants
<1>4. send[s].total \in Nat
    BY <1>2, LengthOfStream, Constants DEF SendRecord
<1>5. send[s].total < Size[s] /\ (Small(s) => send[s].total = 0 /\ Places(s) = {})
    BY <1>2 DEF Inductive, Remaining, Places
<1>6. Tidy(s) \/ Interrupted(s)
    BY <1>2 DEF Framed, Unfinished
<1>7. /\ send'[s].rc # "SUCCESS" /\ send'[s].total \in Nat
      /\ send'[s].pc = IF send'[s].total < Size[s] THEN "poll" ELSE "close"
    BY <1>2 DEF Framed, WriteAdds
<1>8. CASE n = 0
    <2>1. stream' = stream /\ Places(s)' = Places(s) /\ Overtaken(s)
        BY <1>2, <1>8 DEF WriteAdds, Framed, Places
    <2>2. CASE send[s].total = 0
        <3>1. send'[s].pc = "close" /\ send'[s].total # Size[s]
            BY <1>3, <1>7, <1>8, <2>2 DEF WriteAdds
        <3> QED
            BY <1>5, <1>7, <2>1, <3>1 DEF Framed, Unfinished, Succeeds, Fails, Small
    <2>3. CASE send[s].total > 0
        <3>1. send'[s].pc = "poll" /\ ~Small(s)
            BY <1>3, <1>4, <1>5, <1>7, <1>8, <2>3 DEF WriteAdds
        <3>2. Interrupted(s)
            <4>1. CASE Tidy(s)
                <5>1. Places(s) # {}
                    BY <2>3, <4>1, FS_EmptySet DEF Tidy
                <5>2. Len(stream) \in DOMAIN stream /\ stream[Len(stream)].of # s
                    BY <1>3, <2>1, <5>1 DEF Overtaken, Places
                <5>3. \A p \in Places(s) : p < Len(stream)
                    BY <1>3, <5>2 DEF Places
                <5> QED
                    BY <5>1, <5>2, <5>3 DEF Interrupted
            <4> QED
                BY <1>6, <4>1
        <3>3. Interrupted(s)'
            BY <2>1, <3>2 DEF Interrupted
        <3> QED
            BY <1>7, <3>1, <3>3 DEF Framed, Unfinished, Succeeds, Fails
    <2> QED
        BY <1>4, <2>2, <2>3
<1>9. CASE n > 0
    <2>1. send'[s].total = send[s].total + n /\ send'[s].total <= Size[s]
        BY <1>9 DEF WriteAdds
    <2>2. send'[s].pc = "poll" \/ (send'[s].pc = "close" /\ send'[s].total = Size[s])
        BY <1>3, <1>7, <2>1
    <2>3. CASE Tidy(s)
        <3>1. Tidy(s)'
            BY <1>2, <1>9, <2>3, TidyGrows
        <3> QED
            BY <1>7, <2>2, <3>1 DEF Framed, Unfinished, Succeeds, Fails
    <2>4. CASE Interrupted(s)
        <3>1. PICK p \in Places(s), k \in DOMAIN stream : p < k /\ stream[k].of # s
            BY <2>4 DEF Interrupted
        <3>2. Places(s)' = Places(s) \cup (Len(stream) + 1)..(Len(stream) + n)
            BY <1>2, PlacesAfterWrite
        <3>3. stream'[k].of # s /\ k \in DOMAIN stream' /\ k <= Len(stream) /\ k \in Nat /\ p \in Nat
            BY <1>3, <3>1 DEF WriteAdds, Places
        <3>4. Interrupted(s)'
            BY <3>1, <3>2, <3>3 DEF Interrupted
        <3>5. p \in Places(s)' /\ Len(stream) + 1 \in Places(s)' /\ k \notin Places(s)'
              /\ k \in p..(Len(stream) + 1)
            <4>1. k \notin Places(s)'
                BY <3>3 DEF Places
            <4> QED
                BY <1>3, <1>9, <3>1, <3>2, <3>3, <4>1
        <3>6. ~Adjacent(Places(s))' /\ ~Small(s)
            BY <1>5, <3>1, <3>5 DEF Adjacent
        <3> QED
            BY <1>7, <2>2, <3>4, <3>6 DEF Framed, Unfinished, Succeeds, Fails, Small
    <2> QED
        BY <1>6, <2>3, <2>4
<1> QED
    BY <1>8, <1>9

LEMMA FramedInit == Init => AllFramed
<1> SUFFICES ASSUME Init, NEW s \in Sends PROVE Framed(s)
    BY DEF AllFramed
<1>1. send[s] = NewSend /\ Places(s) = {}
    BY DEF Init, Places
<1>2. Tidy(s)
    BY <1>1, FS_EmptySet DEF Tidy, NewSend
<1> QED
    BY <1>1, <1>2 DEF Framed, Unfinished, Succeeds, Fails, NewSend

LEMMA FramedStep == Inductive /\ AllFramed /\ [Next]_vars => AllFramed'
<1> SUFFICES ASSUME Inductive, AllFramed, [Next]_vars PROVE AllFramed'
    OBVIOUS
<1>1. TypeOK /\ TypeOK' /\ front \in Nat
    BY EveryStep, LengthOfStream DEF Inductive
<1>2. front' \in Nat
    BY <1>1 DEF TypeOK
<1>3. CASE UNCHANGED vars
    BY <1>1, <1>3, FramedKept DEF vars, AllFramed
<1>4. ASSUME NEW s \in Sends, SendStarts(s) \/ SendUnopened(s) \/ SendStep(s)
      PROVE  AllFramed'
    BY <1>1, <1>2, <1>4, SendsGoOn, FramedGoesOn, FramedWrites DEF SendStep
<1>5. ASSUME NEW r \in Receives,
             ReceiveOpens(r) \/ ReceiveStep(r) \/ ReceiveInterrupted(r) \/ ReceiveExhausted(r)
      PROVE  AllFramed'
    <2>1. stream' = stream /\ front' >= front
        BY <1>1, <1>5, ReceivesAreQuiet, LengthOfStream DEF Quiet
    <2>2. send' = send
        BY <1>5 DEF ReceiveOpens, ReceiveStep, ReceiveInterrupted, ReceiveExhausted, ReceiveWaits,
                    ReceiveHangsUp, ReceivePolls, ReceiveReads, ReceiveReadsNothing, ReceiveReadsEnd,
                    ReceiveCloses
    <2> QED
        BY <1>1, <1>2, <2>1, <2>2, FramedKept DEF AllFramed
<1> QED
    BY <1>3, <1>4, <1>5 DEF Next

\* Whatever else is written, polled for and taken meanwhile, a send whose result
\* is success put its frame into the FIFO, each byte once and in order, if the
\* frame is small or nobody wrote into it; and nothing of a small frame is in the
\* FIFO when its send failed (pipe_send).
THEOREM SendsAreAllOrNothing == Spec => []SendAllOrNothing
<1>1. AllFramed => SendAllOrNothing
    <2> SUFFICES ASSUME AllFramed, NEW s \in Sends, send[s].pc = "done"
                 PROVE  /\ send[s].rc = "SUCCESS" /\ (Small(s) \/ Adjacent(Places(s))) => Complete(s)
                        /\ send[s].rc # "SUCCESS" /\ Small(s) => Places(s) = {}
        BY DEF SendAllOrNothing
    <2>1. Framed(s)
        BY DEF AllFramed
    <2> QED
        BY <2>1 DEF Framed, Succeeds, Fails, Tidy, Complete
<1> QED
    BY <1>1, FramedInit, FramedStep, InductiveHolds, PTL DEF Spec

-----------------------------------------------------------------------------
(* Receives *)

\* A place that is between small frames stays so: a small frame enters whole, and
\* behind everything.
LEMMA CleanStays ==
    ASSUME Inductive, [Next]_vars, NEW k \in 0..Len(stream), Clean(k)
    PROVE  Clean(k)'
<1>1. TypeOK
    BY DEF Inductive
<1>2. stream' = stream => Clean(k)'
    BY DEF Clean, Places, Small
<1>3. ASSUME NEW s \in Sends, SendWrites(s)
      PROVE  Clean(k)'
    <2>1. PICK n \in Nat : WriteAdds(s, n)
        BY <1>3, WriteAddsSome
    <2>2. Small(s) => Places(s) = {}
        BY <1>3 DEF SendWrites, Inductive, Remaining, Places
    <2>3. Len(stream) \in Nat
        BY <1>1, DomainOfStream
    <2>4. /\ Places(s)' = Places(s) \cup (Len(stream) + 1)..(Len(stream) + n)
          /\ \A t \in Sends \ {s} : Places(t)' = Places(t)
        BY <1>1, <2>1, PlacesAfterWrite
    <2>5. Small(s) => \A p \in Places(s)' : p > k
        BY <2>2, <2>3, <2>4
    <2> QED
        BY <2>4, <2>5 DEF Clean, Small
<1>4. CASE UNCHANGED vars
    BY <1>2, <1>4 DEF vars
<1>5. ASSUME NEW s \in Sends, SendStarts(s) \/ SendUnopened(s) \/ SendStep(s)
      PROVE  Clean(k)'
    BY <1>1, <1>2, <1>3, <1>5, SendsGoOn DEF SendStep, SendGoesOn
<1>6. ASSUME NEW r \in Receives,
             ReceiveOpens(r) \/ ReceiveStep(r) \/ ReceiveInterrupted(r) \/ ReceiveExhausted(r)
      PROVE  Clean(k)'
    BY <1>1, <1>2, <1>6, ReceivesAreQuiet DEF Quiet
<1> QED
    BY <1>4, <1>5, <1>6 DEF Next

\* Nothing is cut at the end of the stream.
LEMMA EndIsClean == ASSUME TypeOK PROVE Clean(Len(stream))
BY DomainOfStream DEF Clean, Places

\* No step of a send, and no stuttering, changes what a receive has.
LEMMA SendLeavesReceives ==
    ASSUME Inductive, NEW s \in Sends, SendStarts(s) \/ SendUnopened(s) \/ SendStep(s)
    PROVE  /\ \A r \in Receives : /\ receive'[r].pc = receive[r].pc
                                  /\ receive'[r].got = receive[r].got
                                  /\ receive'[r].mixed = receive[r].mixed
           /\ exhausted' = exhausted
           /\ front' = front \/ (front' = Len(stream') /\ Readers = {})
<1>1. CASE SendOpens(s)
    BY <1>1, LengthOfStream DEF SendOpens, Inductive, ReceiveRecord
<1>2. CASE SendKilled(s) \/ SendCloses(s)
    <2>1. \A r \in Receives : r # s
        BY PipeAssumption
    <2> QED
        BY <1>2, <2>1 DEF SendKilled, SendCloses, LeftBy, Readers
<1>3. CASE SendStarts(s) \/ SendUnopened(s) \/ SendOpenFails(s) \/ SendPolls(s)
           \/ SendPollTimesOut(s) \/ SendWrites(s)
    BY <1>3 DEF SendStarts, SendUnopened, SendOpenFails, SendPolls, SendPollTimesOut, SendWrites
<1> QED
    BY <1>1, <1>2, <1>3 DEF SendStep

LEMMA DrainedStep == Inductive /\ AloneInv /\ Drained /\ [Next]_vars => Drained'
<1> SUFFICES ASSUME Inductive, AloneInv, Drained, [Next]_vars,
                    \A r \in Receives : receive'[r].pc \notin {"poll", "read"},
                    ~exhausted'
             PROVE  Clean(front)'
    BY DEF Drained
<1>1. TypeOK /\ TypeOK' /\ front \in 0..Len(stream) /\ Len(stream) \in Nat
    BY EveryStep, LengthOfStream DEF Inductive
<1>2. front' = Len(stream') => Clean(front)'
    <2>1. Clean(Len(stream))'
        BY <1>1, EndIsClean, PTL
    <2> QED
        BY <2>1 DEF Clean
<1>3. ASSUME front' = front, ~exhausted, \A r \in Receives : receive[r].pc \notin {"poll", "read"}
      PROVE  Clean(front)'
    <2>1. PICK k \in 0..Len(stream) : k = front
        BY <1>1
    <2>2. Clean(k)'
        BY <1>3, <2>1, CleanStays DEF Drained
    <2> QED
        BY <1>3, <2>1, <2>2 DEF Clean
<1>4. CASE UNCHANGED vars
    BY <1>3, <1>4 DEF vars
<1>5. ASSUME NEW s \in Sends, SendStarts(s) \/ SendUnopened(s) \/ SendStep(s)
      PROVE  Clean(front)'
    BY <1>2, <1>3, <1>5, SendLeavesReceives
<1>6. ASSUME NEW r \in Receives,
             ReceiveOpens(r) \/ ReceiveStep(r) \/ ReceiveInterrupted(r) \/ ReceiveExhausted(r)
      PROVE  Clean(front)'
    <2> USE <1>6, LengthOfStream
    <2>1. CASE ReceiveOpens(r)
        BY <2>1 DEF ReceiveOpens, NewReceive, Inductive
    <2>2. CASE ReceiveCloses(r)
        BY <2>2, <1>2, <1>3 DEF ReceiveCloses, LeftBy
    <2>3. CASE ReceiveExhausted(r)
        BY <2>3 DEF ReceiveExhausted
    <2>4. CASE ReceivePolls(r) \/ ReceiveReads(r)
        BY <2>4 DEF ReceivePolls, ReceiveReads, ReceiveGoes, Inductive, ReceiveRecord
    <2>5. CASE ReceiveWaits(r) \/ ReceiveHangsUp(r) \/ ReceiveInterrupted(r)
               \/ ReceiveReadsNothing(r) \/ ReceiveReadsEnd(r)
        <3>1. Held = 0 /\ front' = front /\ stream' = stream
            BY <2>5 DEF ReceiveWaits, ReceiveHangsUp, ReceiveInterrupted, ReceiveReadsNothing,
                        ReceiveReadsEnd
        <3> QED
            BY <1>1, <1>2, <3>1 DEF Held
    <2> QED
        BY <2>1, <2>2, <2>3, <2>4, <2>5 DEF ReceiveStep
<1> QED
    BY <1>4, <1>5, <1>6 DEF Next

\* No other receive makes a step and leaves r alone.
LEMMA OthersMix ==
    ASSUME TypeOK, AloneInv, NEW q \in Receives, NEW r \in Receives \ {q},
           ReceiveOpens(q) \/ ReceiveStep(q) \/ ReceiveInterrupted(q) \/ ReceiveExhausted(q),
           r \in Readers'
    PROVE  receive'[r].mixed
<1> USE LengthOfStream
<1>1. CASE ReceiveOpens(q)
    <2> DEFINE mixed == receive[r].mixed \/ r \in Readers
    <2>1. receive'[r] = [receive[r] EXCEPT !.mixed = mixed]
        BY <1>1 DEF ReceiveOpens
    <2> HIDE DEF mixed
    <2>2. receive'[r].pc = receive[r].pc /\ receive'[r].mixed = mixed
        BY <2>1 DEF ReceiveRecord
    <2>3. r \in Readers
        BY <2>2 DEF Readers
    <2> QED
        BY <2>2, <2>3 DEF mixed
<1>2. CASE ~ReceiveOpens(q)
    <2>1. receive'[r] = receive[r] /\ q \in Readers
        BY <1>2 DEF ReceiveStep, ReceiveInterrupted, ReceiveExhausted, ReceiveWaits, ReceiveHangsUp,
                    ReceivePolls, ReceiveReads, ReceiveReadsNothing, ReceiveReadsEnd, ReceiveCloses,
                    ReceiveGoes, Readers
    <2>2. r \in Readers
        BY <2>1 DEF Readers
    <2> QED
        BY <2>1, <2>2 DEF AloneInv
<1> QED
    BY <1>1, <1>2

\* The places after b, in order.
LEMMA RunOfPlaces ==
    ASSUME NEW got \in Seq(Nat), NEW b \in Nat, \A i \in DOMAIN got : got[i] = b + i
    PROVE  /\ \A i \in DOMAIN got : got[i] = got[1] + i - 1
           /\ {got[i] : i \in DOMAIN got} = (b + 1)..(b + Len(got))
<1>1. Len(got) \in Nat /\ DOMAIN got = 1..Len(got)
    BY LenProperties
<1>2. \A i \in DOMAIN got : got[i] = got[1] + i - 1
    <2> SUFFICES ASSUME NEW i \in 1..Len(got) PROVE got[i] = got[1] + i - 1
        BY <1>1
    <2>1. 1 \in 1..Len(got) /\ i \in Int
        BY <1>1
    <2>2. got[i] = b + i /\ got[1] = b + 1
        BY <1>1, <2>1
    <2> QED
        BY <2>1, <2>2
<1>3. ASSUME NEW p \in (b + 1)..(b + Len(got))
      PROVE  \E i \in DOMAIN got : got[i] = p
    <2>1. p - b \in 1..Len(got) /\ p = b + (p - b)
        BY <1>1
    <2> QED
        BY <1>1, <2>1
<1>4. \A i \in DOMAIN got : got[i] \in (b + 1)..(b + Len(got))
    BY <1>1
<1> QED
    BY <1>2, <1>3, <1>4

\* What follows a run of places, put behind it, goes on with the run.
LEMMA RunGoesOn ==
    ASSUME NEW got \in Seq(Nat), NEW begun \in Nat, \A i \in DOMAIN got : got[i] = begun + i,
           NEW n \in Nat, NEW last \in Nat, last = begun + Len(got),
           NEW more, more = [i \in 1..n |-> last + i],
           NEW now, now = got \o more
    PROVE  /\ begun + Len(now) = last + n
           /\ \A i \in DOMAIN now : now[i] = begun + i
<1>1. Len(got) \in Nat /\ DOMAIN got = 1..Len(got)
    BY LenProperties
<1>2. more \in Seq(Nat) /\ Len(more) = n /\ \A i \in 1..n : more[i] = last + i
    <2>1. more \in [1..n -> Nat]
        OBVIOUS
    <2>2. more \in Seq(Nat)
        BY <2>1, SeqDef
    <2> QED
        BY <2>1, <2>2, LenProperties
<1>3. /\ now \in Seq(Nat) /\ Len(now) = Len(got) + n
      /\ \A i \in 1..Len(got) : now[i] = got[i]
      /\ \A i \in (Len(got) + 1)..(Len(got) + n) : now[i] = more[i - Len(got)]
    BY <1>1, <1>2, ConcatProperties
<1>4. DOMAIN now = 1..(Len(got) + n)
    BY <1>3, LenProperties
<1>5. ASSUME NEW i \in 1..(Len(got) + n)
      PROVE  now[i] = begun + i
    <2>1. CASE i \in 1..Len(got)
        BY <1>1, <1>3, <2>1
    <2>2. CASE i \in (Len(got) + 1)..(Len(got) + n)
        <3>1. i - Len(got) \in 1..n /\ i \in Int
            BY <1>1, <2>2
        <3>2. now[i] = last + (i - Len(got))
            BY <1>2, <1>3, <2>2, <3>1
        <3> QED
            BY <1>1, <3>1, <3>2
    <2> QED
        BY <1>1, <2>1, <2>2
<1>6. begun + Len(now) = last + n
    BY <1>1, <1>3
<1> QED
    BY <1>4, <1>5, <1>6

\* A read puts what it takes behind what the receive has.
LEMMA ReadKeeps ==
    ASSUME TypeOK, NEW r \in Receives, NEW begun \in 0..front, HasSince(r, begun), ReceiveReads(r)
    PROVE  /\ begun + Len(receive'[r].got) = front' /\ front' >= front
           /\ \A i \in DOMAIN receive'[r].got : receive'[r].got[i] = begun + i
<1>1. receive[r].got \in Seq(Nat) /\ Len(receive[r].got) \in Nat /\ front \in Nat /\ begun \in Nat
    BY LengthOfStream, LenProperties DEF ReceiveRecord
<1>2. Taken \in Nat
    BY LengthOfStream, Constants DEF Taken, Smaller
<1>3. front = begun + Len(receive[r].got)
      /\ \A i \in DOMAIN receive[r].got : receive[r].got[i] = begun + i
    BY <1>1 DEF HasSince
<1>4. receive'[r].got = receive[r].got \o [i \in 1..Taken |-> front + i] /\ front' = front + Taken
    BY LengthOfStream DEF ReceiveReads, Appended, ReceiveRecord
<1>5. PICK b, got, last, n, more, now :
        /\ b = begun /\ got = receive[r].got /\ last = front /\ n = Taken
        /\ more = [i \in 1..Taken |-> front + i] /\ now = receive[r].got \o more
    OBVIOUS
<1>6. more = [i \in 1..n |-> last + i] /\ now = got \o more
    BY <1>5
<1>7. got \in Seq(Nat) /\ last \in Nat /\ n \in Nat /\ b \in Nat /\ last = b + Len(got)
      /\ \A i \in DOMAIN got : got[i] = b + i
    BY <1>1, <1>2, <1>3, <1>5
<1>8. b + Len(now) = last + n /\ \A i \in DOMAIN now : now[i] = b + i
    BY <1>6, <1>7, RunGoesOn
<1>9. b = begun /\ receive'[r].got = now /\ front' = last + n /\ last = front
    BY <1>4, <1>5
<1>10. last + n >= last
    BY <1>7
<1> QED
    BY <1>8, <1>9, <1>10

LEMMA PieceStep == Inductive /\ AloneInv /\ Drained /\ InOnePiece /\ [Next]_vars => InOnePiece'
<1> SUFFICES ASSUME Inductive, AloneInv, Drained, InOnePiece, [Next]_vars,
                    NEW r \in Readers', ~receive'[r].mixed, ~exhausted'
             PROVE  \E begun \in 0..front' : HasSince(r, begun)'
    BY DEF InOnePiece
<1>1. TypeOK /\ front \in 0..Len(stream) /\ Len(stream) \in Nat /\ front' \in Nat /\ r \in Receives
    BY EveryStep, LengthOfStream DEF Inductive, Readers, TypeOK
<1>2. ASSUME receive'[r].got = receive[r].got, receive'[r].mixed = receive[r].mixed,
             r \in Readers, front' = front, ~exhausted
      PROVE  \E begun \in 0..front' : HasSince(r, begun)'
    <2>1. PICK begun \in 0..front : HasSince(r, begun)
        BY <1>2 DEF InOnePiece
    <2>2. Clean(begun)'
        BY <1>1, <2>1, CleanStays DEF HasSince
    <2> QED
        BY <1>2, <2>1, <2>2 DEF HasSince
<1>3. CASE UNCHANGED vars
    BY <1>2, <1>3 DEF vars, Readers
<1>4. ASSUME NEW s \in Sends, SendStarts(s) \/ SendUnopened(s) \/ SendStep(s)
      PROVE  \E begun \in 0..front' : HasSince(r, begun)'
    <2>1. /\ receive'[r].pc = receive[r].pc /\ receive'[r].got = receive[r].got
          /\ receive'[r].mixed = receive[r].mixed /\ exhausted' = exhausted
          /\ front' = front \/ Readers = {}
        BY <1>1, <1>4, SendLeavesReceives
    <2>2. r \in Readers
        BY <1>1, <2>1 DEF Readers
    <2> QED
        BY <1>2, <2>1, <2>2
<1>5. ASSUME ReceiveOpens(r) \/ ReceiveStep(r) \/ ReceiveInterrupted(r) \/ ReceiveExhausted(r)
      PROVE  \E begun \in 0..front' : HasSince(r, begun)'
    <2> USE LengthOfStream
    <2>1. CASE ReceiveOpens(r)
        <3>1. /\ receive'[r].got = <<>> /\ receive'[r].mixed = (Readers # {})
              /\ UNCHANGED <<send, stream, front, exhausted>>
            BY <1>1, <2>1 DEF ReceiveOpens, NewReceive
        <3>2. Readers = {}
            BY <3>1
        <3>3. Clean(front)
            BY <3>1, <3>2 DEF Readers, Drained
        <3>4. PICK k \in 0..Len(stream) : k = front
            BY <1>1
        <3>5. Clean(k)'
            BY <3>3, <3>4, CleanStays
        <3>6. HasSince(r, k)' /\ k \in 0..front'
            BY <1>1, <3>1, <3>4, <3>5 DEF HasSince
        <3> QED
            BY <3>6
    <2>2. CASE ReceiveReads(r)
        <3>1. r \in Readers /\ ~receive[r].mixed /\ ~exhausted
            BY <1>1, <2>2 DEF ReceiveReads, Readers, Inductive, ReceiveRecord
        <3>2. PICK begun \in 0..front : HasSince(r, begun)
            BY <3>1 DEF InOnePiece
        <3>3. Clean(begun)'
            BY <1>1, <3>2, CleanStays DEF HasSince
        <3>4. HasSince(r, begun)' /\ begun \in 0..front'
            BY <1>1, <2>2, <3>2, <3>3, ReadKeeps DEF HasSince
        <3> QED
            BY <3>4
    <2>3. CASE ReceiveExhausted(r)
        BY <2>3 DEF ReceiveExhausted
    <2>4. CASE ReceiveCloses(r)
        BY <1>1, <2>4 DEF ReceiveCloses, NewReceive, Readers
    <2>5. CASE ReceiveWaits(r) \/ ReceiveHangsUp(r) \/ ReceiveReadsNothing(r)
        <3>1. /\ receive'[r].got = receive[r].got /\ receive'[r].mixed = receive[r].mixed
              /\ r \in Readers /\ front' = front /\ exhausted' = exhausted
            BY <1>1, <2>5, AfterNothingProperties
            DEF ReceiveWaits, ReceiveHangsUp, ReceiveReadsNothing, Readers, ReceiveRecord
        <3> QED
            BY <1>2, <3>1
    <2>6. CASE ReceivePolls(r) \/ ReceiveInterrupted(r) \/ ReceiveReadsEnd(r)
        <3>1. /\ receive'[r].got = receive[r].got /\ receive'[r].mixed = receive[r].mixed
              /\ r \in Readers /\ front' = front /\ exhausted' = exhausted
            BY <1>1, <2>6
            DEF ReceivePolls, ReceiveInterrupted, ReceiveReadsEnd, ReceiveGoes, Readers, ReceiveRecord
        <3> QED
            BY <1>2, <3>1
    <2> QED
        BY <1>5, <2>1, <2>2, <2>3, <2>4, <2>5, <2>6 DEF ReceiveStep
<1>6. ASSUME NEW q \in Receives \ {r},
             ReceiveOpens(q) \/ ReceiveStep(q) \/ ReceiveInterrupted(q) \/ ReceiveExhausted(q)
      PROVE  FALSE
    BY <1>1, <1>6, OthersMix
<1> QED
    BY <1>1, <1>3, <1>4, <1>5, <1>6 DEF Next

LEMMA ReceivesInit == Init => Drained /\ InOnePiece
<1> SUFFICES ASSUME Init PROVE Drained /\ InOnePiece
    OBVIOUS
<1>1. stream = <<>> /\ DOMAIN stream = {} /\ Readers = {}
    BY DEF Init, NewReceive, Readers
<1> QED
    BY <1>1 DEF Drained, InOnePiece, Clean, Places

\* The bytes pipe_receive returns are one piece of the stream, and no frame of at
\* most PIPE_BUF bytes is cut by it, however the writes and the polls fall, unless
\* another receive took part of them or memory was lacking.
THEOREM ReceivesAreWhole == Spec => []ReceivedWhole
<1>1. Inductive /\ AloneInv /\ Drained /\ InOnePiece => ReceivedWhole
    <2> SUFFICES ASSUME Inductive, AloneInv, Drained, InOnePiece,
                        NEW r \in Receives, receive[r].pc = "close", Result(r) = "SUCCESS",
                        ~receive[r].mixed, ~exhausted
                 PROVE  LET got == receive[r].got
                            mine == {got[i] : i \in DOMAIN got}
                        IN  /\ \A i \in DOMAIN got : got[i] = got[1] + i - 1
                            /\ \A s \in Sends : Small(s) => Places(s) \subseteq mine \/ Places(s) \cap mine = {}
        BY DEF ReceivedWhole
    <2> PICK got : got = receive[r].got
        OBVIOUS
    <2> DEFINE mine == {got[i] : i \in DOMAIN got}
    <2>1. r \in Readers /\ Readers = {r}
        BY DEF Readers, AloneInv
    <2>2. Clean(front)
        BY <2>1 DEF Drained, Readers
    <2>3. PICK begun \in 0..front : HasSince(r, begun)
        BY <2>1 DEF InOnePiece
    <2>4. got \in Seq(Nat) /\ Len(got) \in Nat /\ DOMAIN got = 1..Len(got) /\ front \in Nat
        BY LengthOfStream, LenProperties DEF Inductive, ReceiveRecord
    <2>6. begun + Len(got) = front /\ begun \in Nat /\ \A i \in DOMAIN got : got[i] = begun + i
        BY <2>3, <2>4 DEF HasSince
    <2>7. \A i \in DOMAIN got : got[i] = got[1] + i - 1
        BY <2>4, <2>6, RunOfPlaces
    <2>8. mine = (begun + 1)..front
        BY <2>4, <2>6, RunOfPlaces
    <2>9. ASSUME NEW s \in Sends, Small(s)
          PROVE  Places(s) \subseteq mine \/ Places(s) \cap mine = {}
        <3>1. \A p \in Places(s) : p \in Nat
            BY DomainOfStream DEF Places, Inductive
        <3>2. /\ (\A p \in Places(s) : p <= begun) \/ (\A p \in Places(s) : p > begun)
              /\ (\A p \in Places(s) : p <= front) \/ (\A p \in Places(s) : p > front)
            BY <2>2, <2>3, <2>9 DEF Clean, HasSince
        <3> HIDE DEF mine
        <3> QED
            BY <2>4, <2>8, <3>1, <3>2
    <2> QED
        BY <2>7, <2>9
<1>2. Inductive /\ AloneInv /\ [Next]_vars => AloneInv'
    BY AloneStep
<1> QED
    BY <1>1, <1>2, AloneInit, ReceivesInit, DrainedStep, PieceStep, InductiveHolds, PTL DEF Spec
=============================================================================
