--------------------------- MODULE DispatchProofs ---------------------------
(***************************************************************************)
(* Proofs about Dispatch, for every set of clients and of groups, every       *)
(* subscription, every bound and every set of faults.                      *)
(***************************************************************************)
EXTENDS Dispatch, SequenceTheorems, TLAPS

ListenerPcs == {"none", "check", "receive", "close", "push", "done"}

\* What the main thread has in its hands fits the place it is at: the worker it
\* looks at exists, and so does the one it writes to or joins.
MainState ==
    /\ order \in Seq(Clients) /\ active \subseteq Clients
    /\ mpc \in {"idle", "join", "next", "dispatch", "write", "sent", "dead"}
    /\ call \in {"none", "stop", "first", "once", "all"}
    /\ at \in 1..(Len(order) + 1) /\ target \in 1..(Len(order) + 1)
    /\ cur \in Entry \cup {NoEntry}
    /\ served \in BOOLEAN /\ written \subseteq Clients
    /\ rc \in {"NONE", "SUCCESS", "READ_FAILED", "OPEN_FAILED", "NO_RECIPIENT", "UNKNOWN"}
    /\ mpc \in {"idle", "join"} => at = 1
    /\ mpc \in {"idle", "next"} => target = 1
    /\ mpc \in {"dispatch", "write", "sent"} => at <= Len(order)
    /\ mpc \in {"join", "write", "sent"} => target <= Len(order)

\* A message is being written to a subscriber, and the subscribers before it
\* have it.
WriteState ==
    /\ mpc \in {"write", "sent"} => cur \in Message /\ Matches(order[target], cur.to)
    /\ mpc = "sent" => order[target] \in written
    /\ mpc \in {"dispatch", "write", "sent"} /\ cur \in Message =>
          \A i \in 1..(target - 1) : Matches(order[i], cur.to) => order[i] \in written

\* A listener pushes what it received.
WorkerState ==
    /\ inbox \in [Clients -> Seq(Entry)]
    /\ lpc \in [Clients -> ListenerPcs]
    /\ held \in [Clients -> Entry \cup {NoEntry}]
    /\ \A c \in Clients : lpc[c] = "push" => held[c] \in Entry

ClientState ==
    /\ tx \in [Clients -> Seq(Message)] /\ rx \in [Clients -> Seq(Message)]
    /\ sending \subseteq Clients /\ looping \subseteq Clients
    /\ got \in [Clients -> Entry \cup {NoEntry}]
    /\ heard \in [Clients -> Seq(Message)]
    /\ sent \in 0..MaxMessages

\* What is on its way to a client, and what it heard, is for it.
Addressed ==
    \A c \in Clients :
        /\ \A i \in DOMAIN rx[c] : Matches(c, rx[c][i].to)
        /\ got[c] \in Message => Matches(c, got[c].to)
        /\ \A i \in DOMAIN heard[c] : Matches(c, heard[c][i].to)

\* One worker per client, with its thread.
WorkersKnown ==
    /\ \A i, j \in DOMAIN order : order[i] = order[j] => i = j
    /\ ThreadsHaveWorkers

Inductive ==
    /\ MainState /\ WriteState
    /\ WorkerState
    /\ ClientState /\ Addressed
    /\ WorkersKnown

-----------------------------------------------------------------------------
(* Sequences *)

LEMMA FunctionIsSequence ==
    ASSUME NEW S, NEW n \in Nat, NEW f \in [1..n -> S]
    PROVE  f \in Seq(S) /\ Len(f) = n /\ DOMAIN f = 1..n
<1>1. f \in Seq(S)
    BY SeqDef
<1> QED
    BY <1>1, LenProperties

LEMMA DequeuedIsSequence ==
    ASSUME NEW q \in Seq(Entry), q # <<>>
    PROVE  Dequeued(q) \in Seq(Entry)
<1>1. Len(q) - 1 \in Nat
    BY EmptySeq
<1>2. Dequeued(q) \in [1..(Len(q) - 1) -> Entry]
    BY <1>1 DEF Dequeued, Entry
<1> QED
    BY <1>1, <1>2, FunctionIsSequence

\* Taking away the worker at k.
LEMMA WithoutOne ==
    ASSUME NEW ws \in Seq(Clients), NEW k \in 1..Len(ws),
           \A i, j \in DOMAIN ws : ws[i] = ws[j] => i = j
    PROVE  LET ns == [i \in 1..(Len(ws) - 1) |-> IF i < k THEN ws[i] ELSE ws[i + 1]] IN
           /\ ns \in Seq(Clients) /\ Len(ns) = Len(ws) - 1
           /\ \A i, j \in DOMAIN ns : ns[i] = ns[j] => i = j
           /\ {ns[i] : i \in DOMAIN ns} = {ws[i] : i \in DOMAIN ws} \ {ws[k]}
<1> DEFINE n == Len(ws)
<1> DEFINE ns == [i \in 1..(n - 1) |-> IF i < k THEN ws[i] ELSE ws[i + 1]]
<1>1. n \in Nat /\ n - 1 \in Nat /\ DOMAIN ws = 1..n /\ \A i \in 1..n : ws[i] \in Clients
    BY LenProperties
<1>2. ns \in [1..(n - 1) -> Clients]
    BY <1>1
<1>3. ns \in Seq(Clients) /\ Len(ns) = n - 1 /\ DOMAIN ns = 1..(n - 1)
    BY <1>1, <1>2, FunctionIsSequence
<1>4. \A i \in 1..(n - 1) : ns[i] = ws[IF i < k THEN i ELSE i + 1]
    OBVIOUS
<1> HIDE DEF n, ns
<1>5. ASSUME NEW i \in 1..(n - 1), NEW j \in 1..(n - 1), ns[i] = ns[j]
      PROVE  i = j
    <2>1. (IF i < k THEN i ELSE i + 1) = (IF j < k THEN j ELSE j + 1)
        BY <1>1, <1>4, <1>5
    <2> QED
        BY <1>1, <2>1 DEF n
<1>6. ASSUME NEW i \in 1..(n - 1)
      PROVE  ns[i] \in {ws[j] : j \in 1..n} \ {ws[k]}
    <2>1. (IF i < k THEN i ELSE i + 1) \in 1..n \ {k}
        BY <1>1 DEF n
    <2> QED
        BY <1>1, <1>4, <2>1 DEF n
<1>7. ASSUME NEW j \in 1..n, j # k
      PROVE  \E i \in 1..(n - 1) : ns[i] = ws[j]
    <2> DEFINE i == IF j < k THEN j ELSE j - 1
    <2>1. i \in 1..(n - 1) /\ (IF i < k THEN i ELSE i + 1) = j
        BY <1>1, <1>7 DEF n
    <2> QED
        BY <1>4, <2>1
<1>8. {ns[i] : i \in 1..(n - 1)} = {ws[j] : j \in 1..n} \ {ws[k]}
    BY <1>6, <1>7
<1> QED
    BY <1>1, <1>3, <1>5, <1>8 DEF n, ns

\* The receive of a frame: of frames for c, a message for c.
LEMMA ReceivedProperties ==
    ASSUME NEW e \in Entry \cup {NoEntry}, NEW frames \in Seq(Message)
    PROVE  /\ Received(e, frames) \in Entry \cup {NoEntry}
           /\ Received(e, frames) \in Message =>
                 \/ Received(e, frames) = e
                 \/ frames # <<>> /\ Received(e, frames) = frames[1] /\ 1 \in DOMAIN frames
<1>1. CASE e = NoEntry /\ frames # <<>>
    <2>1. Head(frames) = frames[1] /\ 1 \in DOMAIN frames /\ frames[1] \in Message
        BY <1>1, EmptySeq, LenProperties, HeadTailProperties
    <2>2. Dangling \notin Message
        BY DEF Dangling, Message
    <2> QED
        BY <1>1, <2>1, <2>2 DEF Received, Decode, Entry
<1>2. CASE ~(e = NoEntry /\ frames # <<>>)
    BY <1>2 DEF Received
<1> QED
    BY <1>1, <1>2

LEMMA TypesAreInvariant == Inductive => DispatchTypeOK
BY DEF Inductive, MainState, WorkerState, ClientState, DispatchTypeOK, ListenerPcs

-----------------------------------------------------------------------------
(* Who changes what *)

LEMMA OthersLeaveMain ==
    ASSUME NEW c \in Clients, ListenerStep(c) \/ ClientStep(c)
    PROVE  UNCHANGED mainVars
BY DEF ListenerStep, ClientStep, ListenerOpens, ListenerEnds, ListenerOpenFails, ListenerReceives,
   ListenerTimesOut, ListenerReadFails, ListenerCloses, ListenerPushes, SendBegins, SendEnds,
   SendMessage, LoopOpens, LoopReceives, LoopCloses

\* Neither the main thread's walk through the inboxes nor its dispatch touches
\* the threads, and of the FIFOs it writes to rx only.
LEMMA MainLeavesOthers ==
    ASSUME MainStep \/ MainCall
    PROVE  /\ WorkerJoined \/ UNCHANGED <<held, tx, clientVars>>
           /\ WorkerJoined \/ NextTaken \/ UNCHANGED inbox
           /\ WorkerJoined \/ UNCHANGED lpc \/ \E c \in Clients : StartWorker(c)
           /\ WorkerJoined \/ SendWrites \/ SendCloses \/ UNCHANGED rx
           /\ WorkerJoined \/ UNCHANGED order \/ \E c \in Clients : StartWorker(c)
<1> USE DEF workerVars, Crash, Return, EntryDone
<1>1. CASE MainCall
    BY <1>1 DEF MainCall, StartWorker, StopWorker, Process
<1>2. CASE NextIsEmpty \/ NextTaken \/ NextCrashes
    BY <1>2 DEF NextIsEmpty, NextTaken, NextCrashes
<1>3. CASE DispatchReadError \/ DispatchDangling \/ DispatchJunk
    BY <1>3 DEF DispatchReadError, DispatchDangling, DispatchJunk
<1>4. CASE DispatchSkips \/ SendOpens \/ SendFails \/ SendWrites \/ SendBreaks \/ SendCloses
    BY <1>4 DEF DispatchSkips, SendOpens, SendFails, SendWrites, SendBreaks, SendCloses
<1>5. CASE DispatchDone \/ RoundEnds
    BY <1>5 DEF DispatchDone, RoundEnds
<1> QED
    BY <1>1, <1>2, <1>3, <1>4, <1>5 DEF MainStep

-----------------------------------------------------------------------------
(* The main thread *)

LEMMA LengthOfOrder ==
    ASSUME MainState
    PROVE  Len(order) \in Nat /\ DOMAIN order = 1..Len(order) /\ \A i \in 1..Len(order) : order[i] \in Clients
BY LenProperties DEF MainState

LEMMA CrashKeepsMain ==
    ASSUME MainState, WriteState, Crash
    PROVE  MainState' /\ WriteState'
BY DEF MainState, WriteState, Crash

LEMMA ReturnKeepsMain ==
    ASSUME MainState, WriteState, NEW code, Return(code),
           code \in {"SUCCESS", "READ_FAILED", "OPEN_FAILED", "NO_RECIPIENT", "UNKNOWN"}
    PROVE  MainState' /\ WriteState'
<1>1. /\ mpc' = "idle" /\ rc' = code /\ call' = "none" /\ at' = 1 /\ target' = 1
      /\ cur' = NoEntry /\ written' = {} /\ order' = order /\ active' = active
    BY DEF Return
<1>2. served' \in BOOLEAN
    BY Zenon DEF Return
<1>3. MainState'
    BY <1>1, <1>2, LengthOfOrder DEF MainState
<1>4. WriteState'
    BY <1>1 DEF WriteState
<1> QED
    BY <1>3, <1>4

LEMMA EntryDoneKeepsMain ==
    ASSUME MainState, WriteState, mpc = "dispatch", NEW processed \in BOOLEAN, EntryDone(processed)
    PROVE  MainState' /\ WriteState'
<1>1. CASE call = "first" /\ processed
    BY <1>1, ReturnKeepsMain DEF EntryDone
<1>2. CASE ~(call = "first" /\ processed)
    <2>1. /\ mpc' = "next" /\ at' = at + 1 /\ target' = 1
          /\ cur' = NoEntry /\ written' = {}
          /\ UNCHANGED <<order, active, call, rc>>
        BY <1>2 DEF EntryDone
    <2>2. served' \in BOOLEAN
        BY <1>2, Zenon DEF EntryDone, MainState
    <2> QED
        BY <2>1, <2>2, LengthOfOrder DEF MainState, WriteState
<1> QED
    BY <1>1, <1>2

LEMMA MainKeeps ==
    ASSUME MainState, WriteState, WorkerState, MainStep \/ MainCall,
           \A i, j \in DOMAIN order : order[i] = order[j] => i = j
    PROVE  MainState' /\ WriteState'
<1> USE LengthOfOrder
<1>1. CASE \E c \in Clients : StartWorker(c)
    <2> PICK c \in Clients : StartWorker(c)
        BY <1>1
    <2>1. order' = Append(order, c) /\ order' \in Seq(Clients) /\ Len(order') = Len(order) + 1
        BY AppendProperties DEF StartWorker, MainState
    <2>2. UNCHANGED <<mpc, call, at, cur, target, served, written, rc>> /\ active' \subseteq Clients
        BY DEF StartWorker, MainState
    <2>3. mpc = "idle"
        BY DEF StartWorker
    <2> QED
        BY <2>1, <2>2, <2>3 DEF MainState, WriteState
<1>2. CASE \E c \in Clients : StopWorker(c)
    <2> PICK c \in Clients : StopWorker(c)
        BY <1>2
    <2>1. target' \in 1..Len(order)
        BY DEF StopWorker, Registered
    <2> QED
        BY <2>1 DEF StopWorker, MainState, WriteState
<1>3. CASE \E kind \in {"first", "once", "all"} : Process(kind)
    BY <1>3 DEF Process, MainGoes, MainState, WriteState
<1>4. CASE WorkerJoined
    <2>1. target \in 1..Len(order) /\ at = 1
        BY <1>4 DEF WorkerJoined, MainState
    <2>2. order' = [i \in 1..(Len(order) - 1) |-> IF i < target THEN order[i] ELSE order[i + 1]]
        BY <1>4 DEF WorkerJoined, Removed
    <2>3. order' \in Seq(Clients) /\ Len(order') = Len(order) - 1
        BY <2>1, <2>2, WithoutOne DEF MainState
    <2>4. /\ mpc' = "idle" /\ call' = "none" /\ target' = 1 /\ rc' = "SUCCESS"
          /\ UNCHANGED <<active, at, cur, served, written>>
        BY <1>4 DEF WorkerJoined, Removed
    <2> QED
        BY <2>1, <2>3, <2>4 DEF MainState, WriteState
<1>5. CASE NextIsEmpty \/ NextCrashes
    BY <1>5, CrashKeepsMain DEF NextIsEmpty, NextCrashes, MainGoes, MainState, WriteState
<1>6. CASE NextTaken
    <2>1. cur' \in Entry
        <3>1. order[at] \in Clients /\ inbox[order[at]] \in Seq(Entry) /\ inbox[order[at]] # <<>>
            BY <1>6 DEF NextTaken, MainState, WorkerState
        <3> QED
            BY <1>6, <3>1, HeadTailProperties DEF NextTaken
    <2> QED
        BY <1>6, <2>1 DEF NextTaken, MainGoes, MainState, WriteState
<1>7. CASE DispatchReadError \/ DispatchDangling \/ DispatchJunk
    BY <1>7, ReturnKeepsMain, EntryDoneKeepsMain, CrashKeepsMain
    DEF DispatchReadError, DispatchDangling, DispatchJunk
<1>8. CASE DispatchSkips
    BY <1>8 DEF DispatchSkips, Dispatching, Subscriber, MainState, WriteState
<1>9. CASE SendOpens
    BY <1>9 DEF SendOpens, Dispatching, Subscriber, MainState, WriteState
<1>10. CASE SendFails \/ SendBreaks
    BY <1>10, ReturnKeepsMain, CrashKeepsMain DEF SendFails, SendBreaks
<1>11. CASE SendWrites
    BY <1>11 DEF SendWrites, MainGoes, MainState, WriteState
<1>12. CASE SendCloses
    BY <1>12 DEF SendCloses, MainGoes, MainState, WriteState
<1>13. CASE DispatchDone
    BY <1>13, EntryDoneKeepsMain DEF DispatchDone, Dispatching
<1>14. CASE RoundEnds
    BY <1>14, ReturnKeepsMain DEF RoundEnds, MainState, WriteState
<1> QED
    BY <1>1, <1>2, <1>3, <1>4, <1>5, <1>6, <1>7, <1>8, <1>9, <1>10, <1>11, <1>12, <1>13, <1>14
    DEF MainStep, MainCall

-----------------------------------------------------------------------------
(* The listener threads and their inboxes *)

LEMMA WorkerKeeps ==
    ASSUME MainState, WorkerState, WorkersKnown, ClientState, Next
    PROVE  WorkerState'
<1> USE LengthOfOrder DEF WorkerState, ListenerPcs
<1>0. ReadError \in Entry
    BY DEF Entry
<1>1. ASSUME NEW c \in Clients, StartWorker(c)
      PROVE  WorkerState'
    BY <1>1 DEF StartWorker
<1>2. CASE WorkerJoined
    <2>1. order[target] \in Clients /\ <<>> \in Seq(Entry)
        BY <1>2 DEF WorkerJoined, MainState
    <2> QED
        BY <1>2, <2>1 DEF WorkerJoined, Removed
<1>3. CASE NextTaken
    <2>1. order[at] \in Clients
        BY <1>3 DEF NextTaken, MainState
    <2>2. Dequeued(inbox[order[at]]) \in Seq(Entry)
        BY <1>3, <2>1, DequeuedIsSequence DEF NextTaken
    <2> QED
        BY <1>3, <2>2 DEF NextTaken
<1>4. CASE (MainStep \/ MainCall) /\ ~WorkerJoined /\ ~NextTaken /\ ~\E c \in Clients : StartWorker(c)
    BY <1>4, MainLeavesOthers
<1>5. ASSUME NEW c \in Clients, ListenerStep(c)
      PROVE  WorkerState'
    <2> USE DEF ListenerGoes
    <2>1. CASE ListenerOpens(c) \/ ListenerEnds(c) \/ ListenerTimesOut(c)
        BY <2>1 DEF ListenerOpens, ListenerEnds, ListenerTimesOut
    <2>2. CASE ListenerOpenFails(c) \/ ListenerReadFails(c)
        BY <1>0, <2>2 DEF ListenerOpenFails, ListenerReadFails
    <2>3. CASE ListenerReceives(c)
        BY <2>3, ReceivedProperties DEF ListenerReceives, ClientState
    <2>4. CASE ListenerCloses(c)
        BY <2>4 DEF ListenerCloses
    <2>5. CASE ListenerPushes(c)
        <3>1. Append(inbox[c], held[c]) \in Seq(Entry)
            BY <2>5, AppendProperties DEF ListenerPushes
        <3> QED
            BY <2>5, <3>1 DEF ListenerPushes
    <2> QED
        BY <1>5, <2>1, <2>2, <2>3, <2>4, <2>5 DEF ListenerStep
<1>6. ASSUME NEW c \in Clients, ClientStep(c)
      PROVE  WorkerState'
    BY <1>6 DEF ClientStep, SendBegins, SendEnds, SendMessage, LoopOpens, LoopReceives, LoopCloses,
                workerVars
<1> QED
    BY <1>1, <1>2, <1>3, <1>4, <1>5, <1>6 DEF Next

\* octopipes_server_start_worker makes a thread, and only its join ends it.
LEMMA KnownKeeps ==
    ASSUME MainState, WorkerState, WorkersKnown, Next
    PROVE  WorkersKnown'
<1> USE LengthOfOrder DEF WorkersKnown, ThreadsHaveWorkers
<1>1. ASSUME NEW c \in Clients, StartWorker(c)
      PROVE  WorkersKnown'
    <2>1. /\ order' = Append(order, c) /\ c \notin Registered
          /\ lpc' = [lpc EXCEPT ![c] = "check"]
        BY <1>1 DEF StartWorker
    <2>2. /\ order' \in Seq(Clients) /\ Len(order') = Len(order) + 1
          /\ order'[Len(order) + 1] = c
          /\ \A i \in 1..Len(order) : order'[i] = order[i]
        BY <2>1, AppendProperties DEF MainState
    <2>3. DOMAIN order' = 1..(Len(order) + 1)
        BY <2>2, LenProperties
    <2>4. Registered' = Registered \cup {c}
        BY <2>2, <2>3 DEF Registered
    <2>5. \A i, j \in DOMAIN order' : order'[i] = order'[j] => i = j
        BY <2>1, <2>2, <2>3 DEF Registered
    <2>6. {d \in Clients : lpc'[d] # "none"} = {d \in Clients : lpc[d] # "none"} \cup {c}
        BY <2>1 DEF WorkerState
    <2> QED
        BY <2>4, <2>5, <2>6
<1>2. CASE WorkerJoined
    <2> DEFINE w == order[target]
    <2>1. target \in 1..Len(order) /\ w \in Clients
        BY <1>2 DEF WorkerJoined, MainState
    <2>2. /\ order' = [i \in 1..(Len(order) - 1) |-> IF i < target THEN order[i] ELSE order[i + 1]]
          /\ lpc' = [lpc EXCEPT ![w] = "none"]
        BY <1>2 DEF WorkerJoined, Removed
    <2>3. /\ \A i, j \in DOMAIN order' : order'[i] = order'[j] => i = j
          /\ Registered' = Registered \ {w}
        <3> DEFINE ns == [i \in 1..(Len(order) - 1) |-> IF i < target THEN order[i] ELSE order[i + 1]]
        <3>1. /\ \A i, j \in DOMAIN ns : ns[i] = ns[j] => i = j
              /\ {ns[i] : i \in DOMAIN ns} = {order[i] : i \in DOMAIN order} \ {w}
            BY <2>1, WithoutOne DEF MainState
        <3>2. order' = ns
            BY <2>2
        <3> HIDE DEF ns
        <3> QED
            BY <3>1, <3>2 DEF Registered
    <2>4. {d \in Clients : lpc'[d] # "none"} = {d \in Clients : lpc[d] # "none"} \ {w}
        BY <2>1, <2>2 DEF WorkerState
    <2> QED
        BY <2>3, <2>4
<1>3. CASE (MainStep \/ MainCall) /\ ~WorkerJoined /\ ~\E c \in Clients : StartWorker(c)
    BY <1>3, MainLeavesOthers DEF Registered
<1>4. ASSUME NEW c \in Clients, ListenerStep(c)
      PROVE  WorkersKnown'
    <2>1. lpc[c] # "none" /\ UNCHANGED order
        BY <1>4, OthersLeaveMain
        DEF mainVars, ListenerStep, ListenerOpens, ListenerEnds, ListenerOpenFails, ListenerReceives,
            ListenerTimesOut, ListenerReadFails, ListenerCloses, ListenerPushes, ListenerGoes
    <2>2. \E pc \in ListenerPcs \ {"none"} : lpc' = [lpc EXCEPT ![c] = pc]
        BY <1>4
        DEF ListenerPcs, ListenerStep, ListenerOpens, ListenerEnds, ListenerOpenFails,
            ListenerReceives, ListenerTimesOut, ListenerReadFails, ListenerCloses, ListenerPushes,
            ListenerGoes
    <2>3. {d \in Clients : lpc'[d] # "none"} = {d \in Clients : lpc[d] # "none"}
        BY <2>1, <2>2 DEF WorkerState, ListenerPcs
    <2> QED
        BY <2>1, <2>3 DEF Registered
<1>5. ASSUME NEW c \in Clients, ClientStep(c)
      PROVE  WorkersKnown'
    <2>1. UNCHANGED <<order, lpc>>
        BY <1>5 DEF ClientStep, SendBegins, SendEnds, SendMessage, LoopOpens, LoopReceives,
                    LoopCloses, workerVars, mainVars
    <2> QED
        BY <2>1 DEF Registered
<1> QED
    BY <1>1, <1>2, <1>3, <1>4, <1>5 DEF Next

-----------------------------------------------------------------------------
(* The clients and the FIFOs *)

\* What was delivered to c is for c.
LEMMA DeliveredProperties ==
    ASSUME ClientState, Addressed, NEW c \in Clients, NEW e \in Entry \cup {NoEntry},
           e \in Message => Matches(c, e.to)
    PROVE  /\ Delivered(c, e) \in [Clients -> Seq(Message)]
           /\ \A d \in Clients : \A i \in DOMAIN Delivered(c, e)[d] : Matches(d, Delivered(c, e)[d][i].to)
<1> USE DEF ClientState, Addressed
<1>1. CASE e \in Message
    <2>1. Delivered(c, e) = [heard EXCEPT ![c] = Append(heard[c], e)]
        BY <1>1 DEF Delivered
    <2>2. /\ Append(heard[c], e) \in Seq(Message)
          /\ DOMAIN Append(heard[c], e) = 1..(Len(heard[c]) + 1)
          /\ Append(heard[c], e)[Len(heard[c]) + 1] = e
          /\ \A i \in 1..Len(heard[c]) : Append(heard[c], e)[i] = heard[c][i]
        BY <1>1, AppendProperties, LenProperties
    <2>3. DOMAIN heard[c] = 1..Len(heard[c]) /\ Len(heard[c]) \in Nat
        BY LenProperties
    <2>4. \A i \in DOMAIN Append(heard[c], e) : Matches(c, Append(heard[c], e)[i].to)
        <3>1. \A i \in 1..Len(heard[c]) : Matches(c, heard[c][i].to)
            BY <2>3
        <3> HIDE DEF Addressed, ClientState
        <3> QED
            BY <1>1, <2>2, <2>3, <3>1
    <2> QED
        BY <2>1, <2>2, <2>4
<1>2. CASE e \notin Message
    BY <1>2 DEF Delivered
<1> QED
    BY <1>1, <1>2

\* Emptying an rx FIFO leaves what was in it for its client.
LEMMA ReceivedIsForReader ==
    ASSUME ClientState, Addressed, NEW c \in Clients
    PROVE  /\ Received(got[c], rx[c]) \in Entry \cup {NoEntry}
           /\ Received(got[c], rx[c]) \in Message => Matches(c, Received(got[c], rx[c]).to)
<1>1. got[c] \in Entry \cup {NoEntry} /\ rx[c] \in Seq(Message)
    BY DEF ClientState
<1> QED
    BY <1>1, ReceivedProperties DEF Addressed

LEMMA ClientKeeps ==
    ASSUME MainState, WriteState, ClientState, Addressed, Next
    PROVE  ClientState' /\ Addressed'
<1> USE LengthOfOrder
<1>0. /\ <<>> \in Seq(Message) /\ DOMAIN <<>> = {}
      /\ NoEntry \notin Message
    BY DEF NoEntry, Message
<1>1. CASE WorkerJoined
    <2> DEFINE c == order[target]
    <2> DEFINE e == Received(got[c], rx[c])
    <2>1. c \in Clients
        BY <1>1 DEF WorkerJoined, MainState
    <2>2. /\ tx' = [tx EXCEPT ![c] = <<>>] /\ rx' = [rx EXCEPT ![c] = <<>>]
          /\ got' = [got EXCEPT ![c] = NoEntry]
          /\ heard' = Delivered(c, e) \/ heard' = heard
          /\ sending' = sending \ {c} /\ looping' = looping \ {c} /\ sent' = sent
        BY <1>1 DEF WorkerJoined, Removed
    <2>3. e \in Entry \cup {NoEntry} /\ (e \in Message => Matches(c, e.to))
        BY <2>1, ReceivedIsForReader
    <2> HIDE DEF c, e
    <2>4. /\ heard' \in [Clients -> Seq(Message)]
          /\ \A d \in Clients : \A i \in DOMAIN heard'[d] : Matches(d, heard'[d][i].to)
        BY <2>1, <2>2, <2>3, DeliveredProperties DEF ClientState, Addressed
    <2> QED
        BY <1>0, <2>1, <2>2, <2>4 DEF ClientState, Addressed, Matches
<1>2. CASE SendWrites
    <2> DEFINE c == order[target]
    <2>1. c \in Clients /\ cur \in Message /\ Matches(c, cur.to)
        BY <1>2 DEF SendWrites, MainGoes, MainState, WriteState
    <2>2. rx' = [rx EXCEPT ![c] = Append(rx[c], cur)] /\ UNCHANGED <<tx, clientVars>>
        BY <1>2 DEF SendWrites
    <2> HIDE DEF c
    <2>3. rx[c] \in Seq(Message) /\ DOMAIN rx[c] = 1..Len(rx[c]) /\ Len(rx[c]) \in Nat
        BY <2>1, LenProperties DEF ClientState
    <2>4. /\ Append(rx[c], cur) \in Seq(Message)
          /\ DOMAIN Append(rx[c], cur) = 1..(Len(rx[c]) + 1)
          /\ Append(rx[c], cur)[Len(rx[c]) + 1] = cur
          /\ \A i \in 1..Len(rx[c]) : Append(rx[c], cur)[i] = rx[c][i]
        BY <2>1, <2>3, AppendProperties, LenProperties
    <2>5. \A i \in DOMAIN Append(rx[c], cur) : Matches(c, Append(rx[c], cur)[i].to)
        BY <2>1, <2>3, <2>4 DEF Addressed
    <2> QED
        BY <2>1, <2>2, <2>4, <2>5 DEF ClientState, Addressed, Matches, clientVars
<1>3. CASE SendCloses
    <2>1. order[target] \in Clients
        BY <1>3 DEF SendCloses, MainGoes, MainState
    <2>2. UNCHANGED <<tx, clientVars>> /\ (rx' = rx \/ rx' = [rx EXCEPT ![order[target]] = <<>>])
        BY <1>3 DEF SendCloses
    <2> QED
        BY <1>0, <2>1, <2>2 DEF ClientState, Addressed, Matches, clientVars
<1>4. CASE (MainStep \/ MainCall) /\ ~WorkerJoined /\ ~SendWrites /\ ~SendCloses
    <2>1. UNCHANGED <<tx, rx, clientVars>>
        BY <1>4, MainLeavesOthers
    <2> QED
        BY <2>1 DEF ClientState, Addressed, Matches, clientVars
<1>5. ASSUME NEW c \in Clients, ListenerStep(c)
      PROVE  ClientState' /\ Addressed'
    <2>1. UNCHANGED <<rx, clientVars>> /\ (tx' = tx \/ tx' = [tx EXCEPT ![c] = <<>>])
        BY <1>5 DEF ListenerStep, ListenerOpens, ListenerEnds, ListenerOpenFails, ListenerReceives,
                    ListenerTimesOut, ListenerReadFails, ListenerCloses, ListenerPushes
    <2> QED
        BY <1>0, <2>1 DEF ClientState, Addressed, Matches, clientVars
<1>6. ASSUME NEW c \in Clients, SendBegins(c) \/ SendEnds(c) \/ LoopOpens(c)
      PROVE  ClientState' /\ Addressed'
    <2>1. UNCHANGED <<rx, got, heard, sent>> /\ (tx' = tx \/ tx' = [tx EXCEPT ![c] = <<>>])
        BY <1>6 DEF SendBegins, SendEnds, LoopOpens
    <2>2. sending' \subseteq Clients /\ looping' \subseteq Clients
        BY <1>6 DEF SendBegins, SendEnds, LoopOpens, ClientState
    <2> QED
        BY <1>0, <2>1, <2>2 DEF ClientState, Addressed, Matches
<1>7. ASSUME NEW c \in Clients, NEW type \in Types, NEW remote \in Remotes, SendMessage(c, type, remote)
      PROVE  ClientState' /\ Addressed'
    <2> DEFINE m == [type |-> type, id |-> sent', from |-> c, to |-> remote]
    <2>1. sent' \in 1..MaxMessages
        BY <1>7, DispatchAssumption DEF SendMessage, ClientState
    <2>2. m \in Message
        BY <2>1 DEF Message, Types
    <2>3. tx' = [tx EXCEPT ![c] = Append(tx[c], m)] /\ UNCHANGED <<rx, sending, looping, got, heard>>
        BY <1>7 DEF SendMessage
    <2> HIDE DEF m
    <2>4. Append(tx[c], m) \in Seq(Message)
        BY <2>2, AppendProperties DEF ClientState
    <2> QED
        BY <2>1, <2>3, <2>4 DEF ClientState, Addressed, Matches
<1>8. ASSUME NEW c \in Clients, LoopReceives(c)
      PROVE  ClientState' /\ Addressed'
    <2> DEFINE e == Received(got[c], rx[c])
    <2>1. e \in Entry \cup {NoEntry} /\ (e \in Message => Matches(c, e.to))
        BY ReceivedIsForReader
    <2>2. /\ got' = [got EXCEPT ![c] = e] /\ rx' = [rx EXCEPT ![c] = <<>>]
          /\ UNCHANGED <<tx, sending, looping, heard, sent>>
        BY <1>8 DEF LoopReceives
    <2> HIDE DEF e
    <2> QED
        BY <1>0, <2>1, <2>2 DEF ClientState, Addressed, Matches
<1>9. ASSUME NEW c \in Clients, LoopCloses(c)
      PROVE  ClientState' /\ Addressed'
    <2>1. /\ got' = [got EXCEPT ![c] = NoEntry] /\ (rx' = rx \/ rx' = [rx EXCEPT ![c] = <<>>])
          /\ heard' = Delivered(c, got[c])
          /\ looping' = looping \ {c} /\ UNCHANGED <<tx, sending, sent>>
        BY <1>9 DEF LoopCloses
    <2>2. /\ heard' \in [Clients -> Seq(Message)]
          /\ \A d \in Clients : \A i \in DOMAIN heard'[d] : Matches(d, heard'[d][i].to)
        BY <2>1, DeliveredProperties DEF ClientState, Addressed
    <2> QED
        BY <1>0, <2>1, <2>2 DEF ClientState, Addressed, Matches
<1> QED
    BY <1>1, <1>2, <1>3, <1>4, <1>5, <1>6, <1>7, <1>8, <1>9 DEF Next, ClientStep

-----------------------------------------------------------------------------

LEMMA InductiveInit == Init => Inductive
<1> SUFFICES ASSUME Init PROVE Inductive
    OBVIOUS
<1>1. order = <<>> /\ order \in Seq(Clients) /\ Len(order) = 0 /\ DOMAIN order = {}
    BY DEF Init
<1>2. <<>> \in Seq(Message) /\ <<>> \in Seq(Entry) /\ DOMAIN <<>> = {} /\ NoEntry \notin Message
    BY DEF NoEntry, Message
<1>3. MainState
    <2>1. /\ active = {} /\ written = {} /\ served \in BOOLEAN /\ cur = NoEntry
          /\ mpc = "idle" /\ call = "none" /\ rc = "SUCCESS" /\ at = 1 /\ target = 1
        BY DEF Init
    <2> QED
        BY <1>1, <2>1 DEF MainState
<1>4. WriteState
    BY DEF Init, WriteState
<1>5. WorkerState
    BY <1>2 DEF Init, WorkerState, ListenerPcs
<1>6. ClientState /\ Addressed
    BY <1>2, DispatchAssumption DEF Init, ClientState, Addressed
<1>7. WorkersKnown
    BY <1>1 DEF Init, WorkersKnown, ThreadsHaveWorkers, Registered
<1> QED
    BY <1>3, <1>4, <1>5, <1>6, <1>7 DEF Inductive

LEMMA InductiveStep == Inductive /\ [Next]_vars => Inductive'
<1> SUFFICES ASSUME Inductive, [Next]_vars PROVE Inductive'
    OBVIOUS
<1> USE DEF Inductive
<1>1. CASE UNCHANGED vars
    <2> USE <1>1 DEF vars
    <2>1. MainState' /\ WriteState'
        BY DEF mainVars, MainState, WriteState, Matches
    <2>2. WorkerState'
        BY DEF workerVars, WorkerState
    <2>3. ClientState'
        BY DEF clientVars, ClientState
    <2>4. Addressed'
        BY DEF clientVars, Addressed, Matches
    <2>5. WorkersKnown'
        BY DEF mainVars, workerVars, WorkersKnown, ThreadsHaveWorkers, Registered
    <2> QED
        BY <2>1, <2>2, <2>3, <2>4, <2>5
<1>2. CASE Next
    <2>1. MainState' /\ WriteState'
        <3>1. CASE MainStep \/ MainCall
            BY <3>1, MainKeeps DEF WorkersKnown
        <3>2. ASSUME NEW c \in Clients, ListenerStep(c) \/ ClientStep(c)
              PROVE  MainState' /\ WriteState'
            BY <3>2, OthersLeaveMain DEF mainVars, MainState, WriteState, Matches
        <3> QED
            BY <1>2, <3>1, <3>2 DEF Next
    <2> QED
        BY <1>2, <2>1, WorkerKeeps, KnownKeeps, ClientKeeps
<1> QED
    BY <1>1, <1>2

LEMMA InductiveHolds == Spec => []Inductive
BY InductiveInit, InductiveStep, PTL DEF Spec

\* Whatever the clients send and whichever of open, read, decode and malloc
\* fail, the state of the server's workers and of the clients keeps its types:
\* the main thread is never at a worker that is not there.
THEOREM DispatchTypes == Spec => []DispatchTypeOK
BY InductiveHolds, TypesAreInvariant, PTL

\* There is a listener thread for the workers there are and for no other
\* (octopipes_server_start_worker, worker_cleanup).
THEOREM ThreadsAreJoined == Spec => []ThreadsHaveWorkers
<1>1. Inductive => ThreadsHaveWorkers
    BY DEF Inductive, WorkersKnown
<1> QED
    BY <1>1, InductiveHolds, PTL

\* No client hears what was sent to a remote it has not subscribed to
\* (worker_match_subscription, octopipes_server_dispatch_message).
THEOREM OnlyAddressedIsHeard == Spec => []HeardWasAddressed
<1>1. Inductive => HeardWasAddressed
    BY DEF Inductive, Addressed, HeardWasAddressed, Matches
<1> QED
    BY <1>1, InductiveHolds, PTL

\* A message whose processing went on or succeeded was written to every worker
\* that matches its remote (octopipes_server_dispatch_message).
THEOREM ProcessedIsWritten == Spec => ProcessedMeansWritten
<1>1. ASSUME Inductive, [Next]_vars, Dispatching, cur' = NoEntry, rc' \in {"NONE", "SUCCESS"},
             NEW c \in Registered, cur.to \in {c} \cup Subscriptions[c]
      PROVE  c \in written
    <2> USE LengthOfOrder DEF Inductive
    <2>0. NoEntry \notin Message /\ ReadError \notin Message /\ Dangling \notin Message
          /\ Junk \notin Message
        BY DEF NoEntry, ReadError, Dangling, Junk, Message
    <2>1. cur' # cur
        BY <1>1, <2>0 DEF Dispatching
    <2>2. CASE MainStep \/ MainCall
        <3>1. DispatchDone
            <4> USE <1>1, <2>0, <2>1 DEF Dispatching
            <4>1. ~MainCall /\ ~WorkerJoined
                BY DEF MainCall, StartWorker, StopWorker, Process, MainGoes, WorkerJoined
            <4>2. ~NextIsEmpty /\ ~NextTaken /\ ~NextCrashes /\ ~RoundEnds
                BY DEF NextIsEmpty, NextTaken, NextCrashes, MainGoes, RoundEnds
            <4>3. ~DispatchReadError /\ ~DispatchDangling /\ ~DispatchJunk
                BY DEF DispatchReadError, DispatchDangling, DispatchJunk
            <4>4. ~DispatchSkips /\ ~SendOpens
                BY DEF DispatchSkips, SendOpens
            <4>5. ~SendFails
                BY DEF SendFails, Return
            <4>6. ~SendWrites /\ ~SendBreaks /\ ~SendCloses
                BY DEF SendWrites, SendBreaks, SendCloses, MainGoes
            <4> QED
                BY <2>2, <4>1, <4>2, <4>3, <4>4, <4>5, <4>6 DEF MainStep
        <3>2. target = Len(order) + 1
            BY <1>1, <3>1 DEF DispatchDone, MainState
        <3>3. PICK i \in 1..Len(order) : order[i] = c
            BY <1>1 DEF Registered
        <3>4. Matches(order[i], cur.to) /\ i \in 1..(target - 1)
            BY <1>1, <3>2, <3>3 DEF Matches
        <3>5. cur \in Message /\ mpc = "dispatch"
            BY <1>1 DEF Dispatching
        <3> QED
            BY <1>1, <3>3, <3>4, <3>5 DEF WriteState
    <2>3. CASE \E d \in Clients : ListenerStep(d) \/ ClientStep(d)
        BY <2>1, <2>3, OthersLeaveMain DEF mainVars
    <2>4. CASE UNCHANGED vars
        BY <2>1, <2>4 DEF vars, mainVars
    <2> QED
        BY <1>1, <2>2, <2>3, <2>4 DEF Next
<1>2. Inductive /\ [Next]_vars =>
         [(Dispatching /\ cur' = NoEntry /\ rc' \in {"NONE", "SUCCESS"}) =>
             \A c \in Registered : cur.to \in {c} \cup Subscriptions[c] => c \in written]_vars
    BY <1>1
<1> QED
    BY <1>2, InductiveHolds, PTL DEF Spec, ProcessedMeansWritten
=============================================================================
