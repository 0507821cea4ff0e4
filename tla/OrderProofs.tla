----------------------------- MODULE OrderProofs -----------------------------
(***************************************************************************)
(* The proof that Dispatch keeps the order of messages, for every set of      *)
(* clients and of groups, every subscription, bound and set of faults.        *)
(*                                                                           *)
(* A message goes through two lines of the same form: the tx FIFO of its      *)
(* sender, what the listener holds and the sender's inbox; then, written by   *)
(* the main thread, the rx FIFO of a client, what the client's loop holds and *)
(* what the client has heard.                                                *)
(***************************************************************************)
EXTENDS DispatchProofs

\* The messages of a sequence of entries.
Messages(q) == {q[i] : i \in DOMAIN q} \cap Message

\* Of the messages of one sender, those of M are older than those of N.
Precedes(M, N) == \A m \in M, n \in N : m.from = n.from => m.id < n.id

\* The entries of a sequence, and what one sender sent among them in order.
Sorted(q) == \A i, j \in DOMAIN q : i < j => Precedes({q[i]} \cap Message, {q[j]} \cap Message)

\* A line: the entries that have arrived, the one being received, the frames in
\* the FIFO.
Content(arrived, slot, fifo) == Messages(arrived) \cup ({slot} \cap Message) \cup Messages(fifo)

Line(arrived, slot, fifo) ==
    /\ Sorted(arrived) /\ Sorted(fifo)
    /\ Precedes(Messages(arrived), ({slot} \cap Message) \cup Messages(fifo))
    /\ Precedes({slot} \cap Message, Messages(fifo))

Upstream(c) == Content(inbox[c], held[c], tx[c])
Downstream(c) == Content(heard[c], got[c], rx[c])

\* The message in the hands of the main thread.
InHand == IF mpc \in {"dispatch", "write", "sent"} THEN {cur} \cap Message ELSE {}

LinesSorted ==
    \A c \in Clients : Line(inbox[c], held[c], tx[c]) /\ Line(heard[c], got[c], rx[c])

\* Only its own messages are on their way from a client; nothing is newer than
\* the last message sent.
SentBy == \A c \in Clients : \A m \in Upstream(c) : m.from = c

Known ==
    /\ \A c \in Clients : \A m \in Upstream(c) \cup Downstream(c) : m.id <= sent
    /\ \A m \in InHand : m.id <= sent

\* Everywhere, what is further down the way is older: what the clients have or
\* are about to read, the message in hand, which only the clients it was written
\* to have, and what is on its way to the main thread.
Downhill ==
    \A c \in Clients :
        /\ \A d \in Clients : Precedes(Downstream(c), Upstream(d))
        /\ Precedes(InHand, Upstream(c))
        /\ c \notin written => Precedes(Downstream(c), InHand)

\* The message in hand was written to workers before the target only.
WrittenBefore ==
    /\ mpc \in {"idle", "join", "next"} => written = {}
    /\ mpc \in {"dispatch", "write"} => written \subseteq {order[i] : i \in 1..(target - 1)}
    /\ mpc = "sent" => written \subseteq {order[i] : i \in 1..target}

OrderKept == LinesSorted /\ SentBy /\ Known /\ Downhill /\ WrittenBefore

-----------------------------------------------------------------------------
(* Lines of entries *)

LEMMA NoMessages ==
    /\ NoEntry \notin Message /\ Junk \notin Message
    /\ ReadError \notin Message /\ Dangling \notin Message
BY DEF NoEntry, Junk, ReadError, Dangling, Message

LEMMA Fewer ==
    ASSUME NEW M, NEW N, Precedes(M, N), NEW K \in SUBSET M, NEW L \in SUBSET N
    PROVE  Precedes(K, L)
BY DEF Precedes

LEMMA EmptyFifo == Messages(<<>>) = {} /\ Sorted(<<>>)
BY DEF Messages, Sorted

LEMMA FramesAreEntries == ASSUME NEW q \in Seq(Message) PROVE q \in Seq(Entry)
<1>1. Message \subseteq Entry
    BY DEF Entry
<1> QED
    BY <1>1, SeqDef

\* A receive takes the first frame and loses the others.
LEMMA LineTaken ==
    ASSUME NEW q, NEW e \in Entry \cup {NoEntry}, NEW f \in Seq(Message), Line(q, e, f)
    PROVE  /\ Line(q, Received(e, f), <<>>)
           /\ Content(q, Received(e, f), <<>>) \subseteq Content(q, e, f)
<1> DEFINE r == Received(e, f)
<1>1. {r} \cap Message \subseteq ({e} \cap Message) \cup Messages(f)
    BY ReceivedProperties DEF Messages
<1> HIDE DEF r
<1>2. Line(q, r, <<>>)
    BY <1>1, EmptyFifo DEF Line, Precedes
<1>3. Content(q, r, <<>>) \subseteq Content(q, e, f)
    BY <1>1, EmptyFifo DEF Content
<1> QED
    BY <1>2, <1>3 DEF r

\* What was received arrives behind the others.
LEMMA LinePushed ==
    ASSUME NEW q \in Seq(Entry), NEW e \in Entry, NEW f, Line(q, e, f)
    PROVE  /\ Line(Append(q, e), NoEntry, f)
           /\ Content(Append(q, e), NoEntry, f) \subseteq Content(q, e, f)
<1> DEFINE p == Append(q, e)
<1>1. /\ Len(q) \in Nat /\ DOMAIN q = 1..Len(q) /\ DOMAIN p = 1..(Len(q) + 1)
      /\ p[Len(q) + 1] = e /\ \A i \in 1..Len(q) : p[i] = q[i]
    BY AppendProperties, LenProperties
<1> HIDE DEF p
<1>2. Messages(p) = Messages(q) \cup ({e} \cap Message)
    BY <1>1 DEF Messages
<1>3. Sorted(p)
    <2> SUFFICES ASSUME NEW i \in DOMAIN p, NEW j \in DOMAIN p, i < j
                 PROVE  Precedes({p[i]} \cap Message, {p[j]} \cap Message)
        BY DEF Sorted
    <2>1. CASE j \in DOMAIN q
        <3>1. i \in DOMAIN q /\ p[i] = q[i] /\ p[j] = q[j]
            BY <1>1, <2>1
        <3> QED
            BY <2>1, <3>1 DEF Line, Sorted
    <2>2. CASE j = Len(q) + 1
        <3>1. i \in DOMAIN q /\ p[i] = q[i] /\ p[j] = e
            BY <1>1, <2>2
        <3>2. {q[i]} \cap Message \subseteq Messages(q)
            BY <3>1 DEF Messages
        <3> QED
            BY <3>1, <3>2 DEF Line, Precedes
    <2> QED
        BY <1>1, <2>1, <2>2
<1>4. Line(p, NoEntry, f) /\ Content(p, NoEntry, f) \subseteq Content(q, e, f)
    BY <1>2, <1>3, NoMessages DEF Line, Content, Precedes
<1> QED
    BY <1>4 DEF p

\* What is being received, or what is in the FIFO, is lost.
LEMMA LineLost ==
    ASSUME NEW q, NEW e, NEW f, Line(q, e, f), NEW r, r = e \/ r \notin Message,
           NEW g, g = f \/ g = <<>>
    PROVE  Line(q, r, g) /\ Content(q, r, g) \subseteq Content(q, e, f)
<1>1. {r} \cap Message \subseteq {e} \cap Message
    OBVIOUS
<1>2. Sorted(g) /\ Messages(g) \subseteq Messages(f)
    BY EmptyFifo DEF Line
<1> QED
    BY <1>1, <1>2 DEF Line, Content, Precedes

\* A message enters the FIFO, newer than everything of its sender in the line.
LEMMA LineEntered ==
    ASSUME NEW q, NEW e, NEW f \in Seq(Message), Line(q, e, f),
           NEW m \in Message, Precedes(Content(q, e, f), {m})
    PROVE  /\ Line(q, e, Append(f, m))
           /\ Content(q, e, Append(f, m)) \subseteq Content(q, e, f) \cup {m}
<1> DEFINE g == Append(f, m)
<1>1. /\ Len(f) \in Nat /\ DOMAIN f = 1..Len(f) /\ DOMAIN g = 1..(Len(f) + 1)
      /\ g[Len(f) + 1] = m /\ \A i \in 1..Len(f) : g[i] = f[i]
    BY AppendProperties, LenProperties
<1> HIDE DEF g
<1>2. Messages(g) = Messages(f) \cup {m}
    BY <1>1 DEF Messages
<1>3. Sorted(g)
    <2> SUFFICES ASSUME NEW i \in DOMAIN g, NEW j \in DOMAIN g, i < j
                 PROVE  Precedes({g[i]} \cap Message, {g[j]} \cap Message)
        BY DEF Sorted
    <2>1. CASE j \in DOMAIN f
        <3>1. i \in DOMAIN f /\ g[i] = f[i] /\ g[j] = f[j]
            BY <1>1, <2>1
        <3> QED
            BY <2>1, <3>1 DEF Line, Sorted
    <2>2. CASE j = Len(f) + 1
        <3>1. i \in DOMAIN f /\ g[i] = f[i] /\ g[j] = m
            BY <1>1, <2>2
        <3>2. {f[i]} \cap Message \subseteq Content(q, e, f)
            BY <3>1 DEF Messages, Content
        <3> QED
            BY <3>1, <3>2 DEF Precedes
    <2> QED
        BY <1>1, <2>1, <2>2
<1>4. Line(q, e, g)
    BY <1>2, <1>3 DEF Line, Content, Precedes
<1>5. Content(q, e, g) \subseteq Content(q, e, f) \cup {m}
    BY <1>2 DEF Content
<1> QED
    BY <1>4, <1>5 DEF g

\* What message_inbox_dequeue returns is older than what it leaves.
LEMMA LineDequeued ==
    ASSUME NEW q \in Seq(Entry), q # <<>>, NEW e, NEW f, Line(q, e, f)
    PROVE  /\ Line(Dequeued(q), e, f)
           /\ Content(Dequeued(q), e, f) \subseteq Content(q, e, f)
           /\ {Head(q)} \cap Message \subseteq Content(q, e, f)
           /\ Precedes({Head(q)} \cap Message, Content(Dequeued(q), e, f))
<1>1. Head(q) = q[1] /\ 1 \in DOMAIN q
    BY EmptySeq, LenProperties, HeadTailProperties
<1>2. {Head(q)} \cap Message \subseteq Messages(q)
    BY <1>1 DEF Messages
<1>3. \A i \in DOMAIN Dequeued(q) : Dequeued(q)[i] = Junk
    BY DEF Dequeued
<1>4. Messages(Dequeued(q)) = {}
    BY <1>3, NoMessages DEF Messages
<1>5. Sorted(Dequeued(q))
    BY <1>3, NoMessages DEF Sorted, Precedes
<1> QED
    BY <1>2, <1>4, <1>5 DEF Line, Content, Precedes

-----------------------------------------------------------------------------
(* Steps that only take from the lines *)

\* The lines of the workers, and those of the clients, keep their order and get
\* nothing that was not there.
UpstreamKept ==
    \A c \in Clients : Line(inbox[c], held[c], tx[c])' /\ Upstream(c)' \subseteq Upstream(c)
DownstreamKept ==
    \A c \in Clients : Line(heard[c], got[c], rx[c])' /\ Downstream(c)' \subseteq Downstream(c)

LEMMA UpstreamQuiet ==
    ASSUME LinesSorted, UNCHANGED <<inbox, held, tx>>
    PROVE  UpstreamKept
BY DEF LinesSorted, UpstreamKept, Upstream

LEMMA DownstreamQuiet ==
    ASSUME LinesSorted, UNCHANGED <<heard, got, rx>>
    PROVE  DownstreamKept
BY DEF LinesSorted, DownstreamKept, Downstream

\* One line changed.
LEMMA UpstreamOf ==
    ASSUME LinesSorted, NEW c \in Clients, NEW q, NEW e, NEW f,
           Line(q, e, f), Content(q, e, f) \subseteq Content(inbox[c], held[c], tx[c]),
           inbox'[c] = q /\ held'[c] = e /\ tx'[c] = f,
           \A d \in Clients \ {c} : inbox'[d] = inbox[d] /\ held'[d] = held[d] /\ tx'[d] = tx[d]
    PROVE  UpstreamKept
BY DEF LinesSorted, UpstreamKept, Upstream

LEMMA DownstreamOf ==
    ASSUME LinesSorted, NEW c \in Clients, NEW q, NEW e, NEW f,
           Line(q, e, f), Content(q, e, f) \subseteq Content(heard[c], got[c], rx[c]),
           heard'[c] = q /\ got'[c] = e /\ rx'[c] = f,
           \A d \in Clients \ {c} : heard'[d] = heard[d] /\ got'[d] = got[d] /\ rx'[d] = rx[d]
    PROVE  DownstreamKept
BY DEF LinesSorted, DownstreamKept, Downstream

\* Nothing new is on its way, and the message in hand is the same or let go.
LEMMA OnlyTaken ==
    ASSUME SentBy, Known, Downhill, UpstreamKept, DownstreamKept, sent' = sent,
           InHand' = {} \/ (InHand' = InHand /\ written' = written)
    PROVE  LinesSorted' /\ SentBy' /\ Known' /\ Downhill'
<1>1. LinesSorted'
    BY DEF LinesSorted, UpstreamKept, DownstreamKept
<1>2. SentBy'
    BY DEF SentBy, UpstreamKept
<1>3. Known'
    BY DEF Known, UpstreamKept, DownstreamKept
<1>4. Downhill'
    <2> SUFFICES ASSUME NEW c \in Clients, NEW d \in Clients
                 PROVE  /\ Precedes(Downstream(c), Upstream(d))'
                        /\ Precedes(InHand, Upstream(c))'
                        /\ c \notin written' => Precedes(Downstream(c), InHand)'
        BY DEF Downhill
    <2>1. /\ Upstream(c)' \subseteq Upstream(c) /\ Upstream(d)' \subseteq Upstream(d)
          /\ Downstream(c)' \subseteq Downstream(c)
        BY DEF UpstreamKept, DownstreamKept
    <2>2. /\ Precedes(Downstream(c), Upstream(d)) /\ Precedes(InHand, Upstream(c))
          /\ c \notin written => Precedes(Downstream(c), InHand)
        BY DEF Downhill
    <2> QED
        BY <2>1, <2>2 DEF Precedes
<1> QED
    BY <1>1, <1>2, <1>3, <1>4

-----------------------------------------------------------------------------
(* The main thread *)

\* Most steps of the main thread have the same message in hand or let it go, and
\* the workers it was written to stay behind the target.
LEMMA HandKept ==
    ASSUME MainState, WrittenBefore, MainStep \/ MainCall, ~NextTaken, ~SendWrites
    PROVE  /\ InHand' = {} \/ (InHand' = InHand /\ written' = written)
           /\ WrittenBefore'
<1> USE LengthOfOrder DEF InHand, WrittenBefore
<1>1. CASE MainCall
    BY <1>1 DEF MainCall, StartWorker, StopWorker, Process, MainGoes
<1>2. CASE WorkerJoined
    BY <1>2 DEF WorkerJoined, Removed
<1>3. CASE Crash
    BY <1>3 DEF Crash
<1>4. ASSUME mpc' \in {"idle", "next"}, written' = {}
      PROVE  /\ InHand' = {} \/ (InHand' = InHand /\ written' = written)
             /\ WrittenBefore'
    BY <1>4
<1>5. ASSUME DispatchReadError \/ DispatchDangling \/ DispatchJunk \/ DispatchDone \/ SendFails, ~Crash
      PROVE  mpc' \in {"idle", "next"} /\ written' = {}
    BY <1>5 DEF DispatchReadError, DispatchDangling, DispatchJunk, DispatchDone, SendFails, EntryDone, Return
<1>6. CASE NextIsEmpty \/ NextCrashes \/ RoundEnds
    BY <1>3, <1>6 DEF NextIsEmpty, NextCrashes, RoundEnds, MainGoes, Return
<1>7. CASE DispatchReadError \/ DispatchDangling \/ DispatchJunk \/ DispatchDone \/ SendFails \/ SendBreaks
    BY <1>3, <1>4, <1>5, <1>7 DEF SendBreaks
<1>8. CASE DispatchSkips \/ SendOpens \/ SendCloses
    <2>1. target \in Nat /\ 1..(target - 1) \subseteq 1..target
        BY DEF MainState
    <2>2. mpc' \in {"dispatch", "write"} /\ UNCHANGED <<order, cur, written>>
        BY <1>8 DEF DispatchSkips, SendOpens, SendCloses, Dispatching, MainGoes
    <2>3. CASE SendOpens
        BY <2>2, <2>3 DEF SendOpens, Dispatching
    <2>4. CASE DispatchSkips \/ SendCloses
        <3>1. mpc \in {"dispatch", "sent"} /\ target' - 1 = target
            BY <2>1, <2>4 DEF DispatchSkips, SendCloses, Dispatching, MainGoes
        <3>2. written \subseteq {order[i] : i \in 1..target}
            BY <2>1, <3>1
        <3> QED
            BY <2>2, <3>1, <3>2
    <2> QED
        BY <1>8, <2>3, <2>4
<1> QED
    BY <1>1, <1>2, <1>3, <1>6, <1>7, <1>8 DEF MainStep

\* What the client's loop received is delivered behind what the client heard.
LEMMA Delivery ==
    ASSUME ClientState, NEW c \in Clients, NEW e \in Entry \cup {NoEntry}, NEW f,
           Line(heard[c], e, f)
    PROVE  /\ Line(Delivered(c, e)[c], NoEntry, f)
           /\ Content(Delivered(c, e)[c], NoEntry, f) \subseteq Content(heard[c], e, f)
           /\ \A d \in Clients \ {c} : Delivered(c, e)[d] = heard[d]
<1>1. heard \in [Clients -> Seq(Message)] /\ heard[c] \in Seq(Entry)
    BY FramesAreEntries DEF ClientState
<1>2. CASE e \in Message
    <2>1. Delivered(c, e)[c] = Append(heard[c], e) /\ \A d \in Clients \ {c} : Delivered(c, e)[d] = heard[d]
        BY <1>1, <1>2 DEF Delivered
    <2> QED
        BY <1>1, <1>2, <2>1, LinePushed DEF Entry
<1>3. CASE e \notin Message
    BY <1>3, NoMessages, LineLost DEF Delivered
<1> QED
    BY <1>2, <1>3

LEMMA JoinedKeeps ==
    ASSUME MainState, WorkerState, ClientState, LinesSorted, WorkerJoined
    PROVE  UpstreamKept /\ DownstreamKept
<1> DEFINE c == order[target]
<1> DEFINE r == Received(got[c], rx[c])
<1>1. c \in Clients
    BY LengthOfOrder DEF WorkerJoined, MainState
<1>2. /\ inbox' = [inbox EXCEPT ![c] = <<>>] /\ held' = [held EXCEPT ![c] = NoEntry]
      /\ tx' = [tx EXCEPT ![c] = <<>>] /\ rx' = [rx EXCEPT ![c] = <<>>]
      /\ got' = [got EXCEPT ![c] = NoEntry]
      /\ heard' = heard \/ heard' = Delivered(c, r)
    BY DEF WorkerJoined, Removed
<1>3. /\ Line(heard[c], r, <<>>)
      /\ Content(heard[c], r, <<>>) \subseteq Content(heard[c], got[c], rx[c])
      /\ r \in Entry \cup {NoEntry}
    <2>1. got[c] \in Entry \cup {NoEntry} /\ rx[c] \in Seq(Message)
        BY <1>1 DEF ClientState
    <2> QED
        BY <1>1, <2>1, LineTaken, ReceivedProperties DEF LinesSorted
<1> HIDE DEF c, r
<1>4. UpstreamKept
    <2>1. Line(<<>>, NoEntry, <<>>) /\ Content(<<>>, NoEntry, <<>>) = {}
        BY EmptyFifo, NoMessages DEF Line, Content, Precedes
    <2> QED
        BY <1>1, <1>2, <2>1, UpstreamOf DEF WorkerState, ClientState
<1>5. CASE heard' = heard
    <2>1. /\ Line(heard[c], NoEntry, <<>>)
          /\ Content(heard[c], NoEntry, <<>>) \subseteq Content(heard[c], got[c], rx[c])
        BY <1>1, NoMessages, LineLost DEF LinesSorted
    <2> QED
        BY <1>1, <1>2, <1>4, <1>5, <2>1, DownstreamOf DEF ClientState
<1>6. CASE heard' = Delivered(c, r)
    <2>1. /\ Line(heard'[c], NoEntry, <<>>)
          /\ Content(heard'[c], NoEntry, <<>>) \subseteq Content(heard[c], got[c], rx[c])
          /\ \A d \in Clients \ {c} : heard'[d] = heard[d]
        BY <1>1, <1>3, <1>6, Delivery
    <2> QED
        BY <1>1, <1>2, <1>4, <2>1, DownstreamOf DEF ClientState
<1> QED
    BY <1>2, <1>4, <1>5, <1>6

\* The first entry of an inbox comes into the hands of the main thread.
LEMMA TakenKeeps ==
    ASSUME Inductive, OrderKept, NextTaken
    PROVE  OrderKept'
<1> USE DEF OrderKept
<1>0. order[at] \in Clients
    BY LengthOfOrder DEF NextTaken, Inductive, MainState
<1> PICK c \in Clients : c = order[at]
    BY <1>0
<1> PICK e : e = Head(inbox[c])
    OBVIOUS
<1>1. inbox[c] \in Seq(Entry) /\ inbox[c] # <<>>
    BY DEF NextTaken, Inductive, WorkerState
<1>2. /\ inbox' = [inbox EXCEPT ![c] = Dequeued(inbox[c])] /\ cur' = e
      /\ mpc = "next" /\ mpc' = "dispatch" /\ written' = {}
      /\ UNCHANGED <<held, tx, rx, clientVars>>
    BY DEF NextTaken, MainGoes, WrittenBefore
<1>3. /\ Line(Dequeued(inbox[c]), held[c], tx[c])
      /\ Content(Dequeued(inbox[c]), held[c], tx[c]) \subseteq Content(inbox[c], held[c], tx[c])
      /\ {e} \cap Message \subseteq Content(inbox[c], held[c], tx[c])
      /\ Precedes({e} \cap Message, Content(Dequeued(inbox[c]), held[c], tx[c]))
    BY <1>1, LineDequeued DEF LinesSorted
<1>4. UpstreamKept
    BY <1>1, <1>2, <1>3, UpstreamOf DEF Inductive, WorkerState
<1>5. DownstreamKept
    BY <1>2, DownstreamQuiet DEF clientVars
<1>6. InHand = {} /\ InHand' = {e} \cap Message
    BY <1>2 DEF InHand
<1>7. {e} \cap Message \subseteq Upstream(c) /\ Precedes({e} \cap Message, Upstream(c)')
    BY <1>1, <1>2, <1>3 DEF Upstream, Inductive, WorkerState
<1>8. LinesSorted'
    BY <1>4, <1>5 DEF LinesSorted, UpstreamKept, DownstreamKept
<1>9. SentBy'
    BY <1>4 DEF SentBy, UpstreamKept
<1>10. Known'
    BY <1>1, <1>2, <1>4, <1>5, <1>6, <1>7 DEF Known, UpstreamKept, DownstreamKept, clientVars
<1>11. Downhill'
    <2> SUFFICES ASSUME NEW b \in Clients, NEW d \in Clients
                 PROVE  /\ Precedes(Downstream(b), Upstream(d))'
                        /\ Precedes(InHand, Upstream(b))'
                        /\ Precedes(Downstream(b), InHand)'
        BY DEF Downhill
    <2>1. /\ Upstream(b)' \subseteq Upstream(b) /\ Upstream(d)' \subseteq Upstream(d)
          /\ Downstream(b)' \subseteq Downstream(b)
        BY <1>4, <1>5 DEF UpstreamKept, DownstreamKept
    <2>2. Precedes(Downstream(b), Upstream(d)) /\ Precedes(Downstream(b), Upstream(c))
        BY <1>1 DEF Downhill
    <2>3. Precedes(Downstream(b), Upstream(d))' /\ Precedes(Downstream(b), InHand)'
        BY <1>6, <1>7, <2>1, <2>2 DEF Precedes
    <2>4. Precedes(InHand, Upstream(b))'
        <3>1. CASE b = c
            BY <1>6, <1>7, <3>1
        <3>2. CASE b # c
            BY <1>1, <1>6, <1>7, <2>1, <3>2 DEF SentBy, Precedes
        <3> QED
            BY <3>1, <3>2
    <2> QED
        BY <2>3, <2>4
<1>12. WrittenBefore'
    BY <1>2 DEF WrittenBefore
<1> QED
    BY <1>8, <1>9, <1>10, <1>11, <1>12

\* The message in hand is written to a client that does not have it yet.
LEMMA WrittenKeeps ==
    ASSUME Inductive, OrderKept, SendWrites
    PROVE  OrderKept'
<1> USE DEF OrderKept
<1>1. cur \in Message /\ target \in 1..Len(order) /\ order[target] \in Clients
    BY LengthOfOrder DEF SendWrites, MainGoes, Inductive, MainState, WriteState
<1> PICK c \in Clients : c = order[target]
    BY <1>1
<1>2. /\ rx' = [rx EXCEPT ![c] = Append(rx[c], cur)] /\ written' = written \cup {c}
      /\ mpc = "write" /\ mpc' = "sent" /\ UNCHANGED <<order, cur, target, workerVars, tx, clientVars>>
    BY DEF SendWrites, MainGoes
<1>3. c \notin written
    <2>1. \A i \in 1..(target - 1) : order[i] # c
        BY <1>1, LengthOfOrder DEF Inductive, WorkersKnown
    <2> QED
        BY <1>2, <2>1 DEF WrittenBefore
<1>4. InHand = {cur} /\ InHand' = {cur}
    BY <1>1, <1>2 DEF InHand
<1>5. WrittenBefore'
    <2>1. target \in Nat /\ 1..(target - 1) \subseteq 1..target /\ target \in 1..target
        BY <1>1
    <2>2. c \in {order[i] : i \in 1..target}
        BY <2>1
    <2>3. written \subseteq {order[i] : i \in 1..target}
        BY <1>2, <2>1 DEF WrittenBefore
    <2> QED
        BY <1>2, <2>2, <2>3 DEF WrittenBefore
<1>6. UpstreamKept
    BY <1>2, UpstreamQuiet DEF workerVars
<1>7. Precedes(Downstream(c), {cur})
    BY <1>1, <1>3, <1>4 DEF Downhill
<1>8. /\ Line(heard[c], got[c], Append(rx[c], cur))
      /\ Content(heard[c], got[c], Append(rx[c], cur)) \subseteq Downstream(c) \cup {cur}
    <2>1. rx[c] \in Seq(Message) /\ Line(heard[c], got[c], rx[c])
        BY <1>1 DEF Inductive, ClientState, LinesSorted
    <2> QED
        BY <1>1, <1>7, <2>1, LineEntered DEF Downstream
<1>9. \A d \in Clients :
         /\ Line(heard[d], got[d], rx[d])'
         /\ Downstream(d)' \subseteq IF d = c THEN Downstream(d) \cup {cur} ELSE Downstream(d)
    BY <1>1, <1>2, <1>8 DEF Downstream, clientVars, Inductive, ClientState, LinesSorted
<1>10. LinesSorted'
    BY <1>6, <1>9 DEF LinesSorted, UpstreamKept
<1>11. SentBy'
    BY <1>6 DEF SentBy, UpstreamKept
<1>12. Known'
    BY <1>2, <1>4, <1>6, <1>9 DEF Known, UpstreamKept, clientVars
<1>13. Downhill'
    <2> SUFFICES ASSUME NEW b \in Clients, NEW d \in Clients
                 PROVE  /\ Precedes(Downstream(b), Upstream(d))'
                        /\ Precedes(InHand, Upstream(b))'
                        /\ b \notin written' => Precedes(Downstream(b), InHand)'
        BY DEF Downhill
    <2>1. /\ Upstream(b)' \subseteq Upstream(b) /\ Upstream(d)' \subseteq Upstream(d)
          /\ Downstream(b)' \subseteq Downstream(b) \cup {cur}
        BY <1>6, <1>9 DEF UpstreamKept
    <2>2. /\ Precedes(Downstream(b), Upstream(d))
          /\ Precedes({cur}, Upstream(b)) /\ Precedes({cur}, Upstream(d))
          /\ b \notin written => Precedes(Downstream(b), {cur})
        BY <1>4 DEF Downhill
    <2>3. Precedes(Downstream(b), Upstream(d))' /\ Precedes(InHand, Upstream(b))'
        BY <1>4, <2>1, <2>2 DEF Precedes
    <2>4. b \notin written' => Precedes(Downstream(b), InHand)'
        BY <1>2, <1>4, <1>9, <2>2 DEF Precedes
    <2> QED
        BY <2>3, <2>4
<1> QED
    BY <1>5, <1>10, <1>11, <1>12, <1>13

LEMMA MainStepKeepsOrder ==
    ASSUME Inductive, OrderKept, MainStep \/ MainCall
    PROVE  OrderKept'
<1> USE DEF OrderKept, Inductive
<1>1. CASE NextTaken
    BY <1>1, TakenKeeps
<1>2. CASE SendWrites
    BY <1>2, WrittenKeeps
<1>3. CASE ~NextTaken /\ ~SendWrites
    <2>1. UpstreamKept /\ DownstreamKept /\ sent' = sent
        <3>1. CASE WorkerJoined
            BY <3>1, JoinedKeeps DEF WorkerJoined, Removed
        <3>2. CASE SendCloses
            <4>1. /\ UNCHANGED <<inbox, held, tx, heard, got, sent>> /\ order[target] \in Clients
                  /\ rx' = rx \/ rx' = [rx EXCEPT ![order[target]] = <<>>]
                BY <3>2, LengthOfOrder DEF SendCloses, MainGoes, workerVars, clientVars, MainState
            <4>2. Line(heard[order[target]], got[order[target]], <<>>)
                  /\ Content(heard[order[target]], got[order[target]], <<>>)
                        \subseteq Content(heard[order[target]], got[order[target]], rx[order[target]])
                BY <4>1, LineLost DEF LinesSorted
            <4>3. DownstreamKept
                BY <4>1, <4>2, DownstreamQuiet, DownstreamOf DEF ClientState
            <4> QED
                BY <4>1, <4>3, UpstreamQuiet
        <3>3. CASE ~WorkerJoined /\ ~SendCloses
            BY <1>3, <3>3, MainLeavesOthers, UpstreamQuiet, DownstreamQuiet DEF clientVars
        <3> QED
            BY <3>1, <3>2, <3>3
    <2> QED
        BY <1>3, <2>1, HandKept, OnlyTaken
<1> QED
    BY <1>1, <1>2, <1>3

-----------------------------------------------------------------------------
(* The listeners and the clients *)

LEMMA ListenerStepKeepsOrder ==
    ASSUME Inductive, OrderKept, NEW c \in Clients, ListenerStep(c)
    PROVE  OrderKept'
<1> USE DEF OrderKept, Inductive
<1>1. /\ UNCHANGED mainVars /\ UNCHANGED <<rx, clientVars>>
      /\ InHand' = InHand /\ written' = written /\ sent' = sent /\ WrittenBefore'
    <2>1. UNCHANGED mainVars /\ UNCHANGED <<rx, clientVars>>
        BY OthersLeaveMain
        DEF ListenerStep, ListenerOpens, ListenerEnds, ListenerOpenFails, ListenerReceives,
            ListenerTimesOut, ListenerReadFails, ListenerCloses, ListenerPushes
    <2> QED
        BY <2>1 DEF mainVars, clientVars, InHand, WrittenBefore
<1>2. DownstreamKept
    BY <1>1, DownstreamQuiet DEF clientVars
<1>3. Line(inbox[c], held[c], tx[c])
    BY DEF LinesSorted
<1> USE DEF WorkerState, ClientState
<1>4. CASE ListenerOpens(c) \/ ListenerEnds(c) \/ ListenerTimesOut(c)
    <2>1. UpstreamKept
        BY <1>4, UpstreamQuiet DEF ListenerOpens, ListenerEnds, ListenerTimesOut
    <2> QED
        BY <1>1, <1>2, <2>1, OnlyTaken
<1>5. CASE ListenerOpenFails(c) \/ ListenerReadFails(c) \/ ListenerCloses(c)
    <2>1. /\ inbox' = inbox
          /\ held' = held \/ held' = [held EXCEPT ![c] = ReadError]
          /\ tx' = tx \/ tx' = [tx EXCEPT ![c] = <<>>]
        BY <1>5 DEF ListenerOpenFails, ListenerReadFails, ListenerCloses
    <2>2. /\ held'[c] = held[c] \/ held'[c] \notin Message
          /\ tx'[c] = tx[c] \/ tx'[c] = <<>>
        BY <2>1, NoMessages
    <2>3. /\ Line(inbox[c], held'[c], tx'[c])
          /\ Content(inbox[c], held'[c], tx'[c]) \subseteq Content(inbox[c], held[c], tx[c])
        BY <1>3, <2>2, LineLost
    <2>4. UpstreamKept
        BY <2>1, <2>3, UpstreamOf
    <2> QED
        BY <1>1, <1>2, <2>4, OnlyTaken
<1>6. CASE ListenerReceives(c)
    <2>1. /\ inbox' = inbox /\ held' = [held EXCEPT ![c] = Received(held[c], tx[c])]
          /\ tx' = [tx EXCEPT ![c] = <<>>]
        BY <1>6 DEF ListenerReceives
    <2>2. /\ Line(inbox[c], Received(held[c], tx[c]), <<>>)
          /\ Content(inbox[c], Received(held[c], tx[c]), <<>>) \subseteq Content(inbox[c], held[c], tx[c])
        BY <1>3, LineTaken
    <2>3. UpstreamKept
        BY <2>1, <2>2, UpstreamOf
    <2> QED
        BY <1>1, <1>2, <2>3, OnlyTaken
<1>7. CASE ListenerPushes(c)
    <2>1. /\ held' = [held EXCEPT ![c] = NoEntry] /\ tx' = tx
          /\ inbox' = inbox \/ inbox' = [inbox EXCEPT ![c] = Append(inbox[c], held[c])]
        BY <1>7 DEF ListenerPushes
    <2>2. held[c] \in Entry
        BY <1>7 DEF ListenerPushes, ListenerGoes
    <2>3. /\ Line(inbox'[c], NoEntry, tx[c])
          /\ Content(inbox'[c], NoEntry, tx[c]) \subseteq Content(inbox[c], held[c], tx[c])
        BY <1>3, <2>1, <2>2, LinePushed, LineLost, NoMessages
    <2>4. UpstreamKept
        BY <2>1, <2>3, UpstreamOf
    <2> QED
        BY <1>1, <1>2, <2>4, OnlyTaken
<1> QED
    BY <1>4, <1>5, <1>6, <1>7 DEF ListenerStep

\* A client's message is newer than every other.
LEMMA SentKeeps ==
    ASSUME Inductive, OrderKept, NEW c \in Clients, NEW type \in Types, NEW remote \in Remotes,
           SendMessage(c, type, remote)
    PROVE  OrderKept'
<1> USE DEF OrderKept
<1>1. UNCHANGED <<mainVars, workerVars, rx, got, heard>> /\ sent' = sent + 1
    BY DEF SendMessage
<1> PICK m : m = [type |-> type, id |-> sent', from |-> c, to |-> remote]
    OBVIOUS
<1>2. sent \in Nat /\ sent' \in 1..MaxMessages
    BY DispatchAssumption DEF SendMessage, Inductive, ClientState
<1>3. m \in Message /\ m.from = c /\ m.id = sent'
    BY <1>2 DEF Message, Types
<1>4. tx' = [tx EXCEPT ![c] = Append(tx[c], m)]
    BY DEF SendMessage
<1>5. \A M \in SUBSET Message : (\A n \in M : n.id <= sent) => Precedes(M, {m})
    BY <1>1, <1>2, <1>3 DEF Precedes, Message
<1>6. \A d \in Clients : Upstream(d) \subseteq Message /\ Downstream(d) \subseteq Message
    BY DEF Upstream, Downstream, Content, Messages
<1>7. InHand \subseteq Message
    BY DEF InHand
<1>8. /\ \A d \in Clients : Precedes(Upstream(d), {m}) /\ Precedes(Downstream(d), {m})
      /\ Precedes(InHand, {m})
    BY <1>5, <1>6, <1>7 DEF Known
<1>9. /\ Line(inbox[c], held[c], Append(tx[c], m))
       /\ Content(inbox[c], held[c], Append(tx[c], m)) \subseteq Upstream(c) \cup {m}
    <2>1. tx[c] \in Seq(Message) /\ Line(inbox[c], held[c], tx[c])
        BY DEF Inductive, ClientState, LinesSorted
    <2> QED
        BY <1>3, <1>8, <2>1, LineEntered DEF Upstream
<1>10. \A d \in Clients :
          /\ Line(inbox[d], held[d], tx[d])'
          /\ Upstream(d)' \subseteq IF d = c THEN Upstream(d) \cup {m} ELSE Upstream(d)
    BY <1>1, <1>4, <1>9 DEF Upstream, workerVars, Inductive, ClientState, LinesSorted
<1>11. DownstreamKept
    BY <1>1, DownstreamQuiet
<1>12. InHand' = InHand /\ written' = written /\ WrittenBefore'
    BY <1>1 DEF mainVars, InHand, WrittenBefore
<1>13. LinesSorted'
    BY <1>10, <1>11 DEF LinesSorted, DownstreamKept
<1>14. SentBy'
    BY <1>3, <1>10 DEF SentBy
<1>15. Known'
    <2>1. \A n \in Message : n.id <= sent => n.id <= sent'
        BY <1>1, <1>2 DEF Message
    <2>2. m.id <= sent'
        BY <1>2, <1>3
    <2>3. \A d \in Clients : \A n \in Upstream(d) \cup Downstream(d) : n.id <= sent'
        BY <1>6, <2>1 DEF Known
    <2>4. \A n \in InHand : n.id <= sent'
        BY <1>7, <2>1 DEF Known
    <2> QED
        BY <1>10, <1>11, <1>12, <2>2, <2>3, <2>4 DEF Known, DownstreamKept
<1>16. Downhill'
    <2> SUFFICES ASSUME NEW b \in Clients, NEW d \in Clients
                 PROVE  /\ Precedes(Downstream(b), Upstream(d))'
                        /\ Precedes(InHand, Upstream(b))'
                        /\ b \notin written' => Precedes(Downstream(b), InHand)'
        BY DEF Downhill
    <2>1. /\ Upstream(b)' \subseteq Upstream(b) \cup {m} /\ Upstream(d)' \subseteq Upstream(d) \cup {m}
          /\ Downstream(b)' \subseteq Downstream(b)
        BY <1>10, <1>11 DEF DownstreamKept
    <2>2. /\ Precedes(Downstream(b), Upstream(d)) /\ Precedes(InHand, Upstream(b))
          /\ b \notin written => Precedes(Downstream(b), InHand)
        BY DEF Downhill
    <2> QED
        BY <1>8, <1>12, <2>1, <2>2 DEF Precedes
<1> QED
    BY <1>12, <1>13, <1>14, <1>15, <1>16

LEMMA ClientStepKeepsOrder ==
    ASSUME Inductive, OrderKept, NEW c \in Clients, ClientStep(c)
    PROVE  OrderKept'
<1> USE DEF OrderKept, Inductive
<1>1. CASE \E type \in Types, remote \in Remotes : SendMessage(c, type, remote)
    BY <1>1, SentKeeps
<1>2. ASSUME UpstreamKept, DownstreamKept, sent' = sent
      PROVE  OrderKept'
    <2>1. InHand' = InHand /\ written' = written /\ WrittenBefore'
        BY OthersLeaveMain DEF mainVars, InHand, WrittenBefore
    <2> QED
        BY <1>2, <2>1, OnlyTaken
<1>3. Line(inbox[c], held[c], tx[c]) /\ Line(heard[c], got[c], rx[c])
    BY DEF LinesSorted
<1> USE DEF WorkerState, ClientState
<1>4. CASE SendBegins(c) \/ LoopOpens(c)
    BY <1>2, <1>4, UpstreamQuiet, DownstreamQuiet DEF SendBegins, LoopOpens, workerVars
<1>5. CASE SendEnds(c)
    <2>1. UNCHANGED <<inbox, held, rx, got, heard, sent>> /\ (tx' = tx \/ tx' = [tx EXCEPT ![c] = <<>>])
        BY <1>5 DEF SendEnds, workerVars
    <2>2. /\ Line(inbox[c], held[c], <<>>)
          /\ Content(inbox[c], held[c], <<>>) \subseteq Content(inbox[c], held[c], tx[c])
        BY <1>3, LineLost
    <2>3. UpstreamKept
        BY <2>1, <2>2, UpstreamQuiet, UpstreamOf
    <2> QED
        BY <1>2, <2>1, <2>3, DownstreamQuiet
<1>6. CASE LoopReceives(c)
    <2>1. /\ UNCHANGED <<inbox, held, tx, heard, sent>>
          /\ got' = [got EXCEPT ![c] = Received(got[c], rx[c])] /\ rx' = [rx EXCEPT ![c] = <<>>]
        BY <1>6 DEF LoopReceives, workerVars
    <2>2. /\ Line(heard[c], Received(got[c], rx[c]), <<>>)
          /\ Content(heard[c], Received(got[c], rx[c]), <<>>) \subseteq Content(heard[c], got[c], rx[c])
        BY <1>3, LineTaken
    <2>3. DownstreamKept
        BY <2>1, <2>2, DownstreamOf
    <2> QED
        BY <1>2, <2>1, <2>3, UpstreamQuiet
<1>7. CASE LoopCloses(c)
    <2>1. /\ UNCHANGED <<inbox, held, tx, sent>> /\ got' = [got EXCEPT ![c] = NoEntry]
          /\ heard' = Delivered(c, got[c]) /\ (rx' = rx \/ rx' = [rx EXCEPT ![c] = <<>>])
        BY <1>7 DEF LoopCloses, workerVars
    <2>2. /\ Line(heard'[c], NoEntry, rx[c])
          /\ Content(heard'[c], NoEntry, rx[c]) \subseteq Content(heard[c], got[c], rx[c])
          /\ \A d \in Clients \ {c} : heard'[d] = heard[d]
        <3> PICK e : e = got[c] /\ e \in Entry \cup {NoEntry}
            OBVIOUS
        <3> HIDE DEF ClientState, Inductive
        <3>1. heard' = Delivered(c, e) /\ Line(heard[c], e, rx[c]) /\ ClientState
            BY <1>3, <2>1 DEF Inductive
        <3> QED
            BY <3>1, Delivery
    <2>3. /\ Line(heard'[c], NoEntry, rx'[c])
          /\ Content(heard'[c], NoEntry, rx'[c]) \subseteq Content(heard[c], got[c], rx[c])
        BY <2>1, <2>2, LineLost
    <2>4. DownstreamKept
        BY <2>1, <2>2, <2>3, DownstreamOf
    <2> QED
        BY <1>2, <2>1, <2>4, UpstreamQuiet
<1> QED
    BY <1>1, <1>4, <1>5, <1>6, <1>7 DEF ClientStep

-----------------------------------------------------------------------------

LEMMA OrderInit == Init => OrderKept
<1> SUFFICES ASSUME Init PROVE OrderKept
    OBVIOUS
<1>1. \A c \in Clients :
         /\ Line(inbox[c], held[c], tx[c]) /\ Upstream(c) = {}
         /\ Line(heard[c], got[c], rx[c]) /\ Downstream(c) = {}
    BY EmptyFifo, NoMessages DEF Init, Upstream, Downstream, Line, Content, Precedes
<1>2. InHand = {} /\ mpc = "idle" /\ written = {}
    BY DEF Init, InHand
<1> QED
    BY <1>1, <1>2 DEF OrderKept, LinesSorted, SentBy, Known, Downhill, WrittenBefore, Precedes

LEMMA OrderStep == Inductive /\ OrderKept /\ [Next]_vars => OrderKept'
<1> SUFFICES ASSUME Inductive, OrderKept, [Next]_vars PROVE OrderKept'
    OBVIOUS
<1>1. CASE UNCHANGED vars
    <2>1. /\ UNCHANGED <<inbox, held, tx, heard, got, rx, sent, mpc, cur, written, order, target>>
        BY <1>1 DEF vars, mainVars, workerVars, clientVars
    <2>2. UpstreamKept /\ DownstreamKept
        BY <2>1, UpstreamQuiet, DownstreamQuiet DEF OrderKept
    <2>3. InHand' = InHand /\ WrittenBefore'
        BY <2>1 DEF InHand, WrittenBefore, OrderKept
    <2> QED
        BY <2>1, <2>2, <2>3, OnlyTaken DEF OrderKept
<1>2. CASE Next
    BY <1>2, MainStepKeepsOrder, ListenerStepKeepsOrder, ClientStepKeepsOrder DEF Next
<1> QED
    BY <1>1, <1>2

\* Through the FIFO of the sender, the inbox of its worker, the dispatch and the
\* FIFO of the reader, whatever is lost, refused or unsubscribed on the way, no
\* client hears a message twice, or two of one sender in another order than they
\* were sent in (octopipes_send_ex, worker_loop, octopipes_server_process_*,
\* worker_send, octopipes_loop).
THEOREM OrderIsKept == Spec => []HeardOnceInOrder
<1>1. Inductive /\ OrderKept => HeardOnceInOrder
    <2> SUFFICES ASSUME Inductive, OrderKept, NEW c \in Clients,
                        NEW i \in DOMAIN heard[c], NEW j \in DOMAIN heard[c],
                        i < j, heard[c][i].from = heard[c][j].from
                 PROVE  heard[c][i].id < heard[c][j].id
        BY DEF HeardOnceInOrder
    <2>1. heard[c] \in Seq(Message)
        BY DEF Inductive, ClientState
    <2>2. heard[c][i] \in Message /\ heard[c][j] \in Message
        BY <2>1, LenProperties
    <2>3. Sorted(heard[c])
        BY DEF OrderKept, LinesSorted, Line
    <2> QED
        BY <2>2, <2>3 DEF Sorted, Precedes
<1> QED
    BY <1>1, InductiveHolds, OrderInit, OrderStep, PTL DEF Spec
=============================================================================
