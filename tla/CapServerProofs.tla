-------------------------- MODULE CapServerProofs --------------------------
(***************************************************************************)
(* Proofs about CapServer, for every set of clients, every bound, every set *)
(* of faults.  Inductive is the inductive invariant: the invariants the     *)
(* runs check, and what ties the main thread's place in its call to the     *)
(* server state, the mutex and the entry in its hands.                      *)
(***************************************************************************)
EXTENDS CapRegistry, SequenceTheorems, TLAPS

InHandler == {"handle", "sent"} \cup Answering

\* The server state follows the main thread: BLOCK from lock_cap to unlock_cap.
StateFollowsMain ==
    /\ state = "BLOCK" <=> mpc \in Answering \cup {"sent"}
    /\ mpc \in {"lock", "handle"} => state = "RUNNING"

\* The handler has the mutex.
HandlerLocks == mpc \in InHandler => capLock = "main"

\* The entry being handled was in the inbox; only a request is answered.
EntryInHand ==
    /\ mpc = "handle" => cur \in Entry
    /\ mpc \in Answering => cur \in Message
    /\ lpc = "push" => held \in Entry

\* An FS error is only sent to a client without a worker.
RefusedHasNone == mpc \in Answering /\ answer = "FS" => cur.client \notin Registered

\* Nothing of the workers outlives the process.
DeadHasNone == mpc = "dead" => told = {}

Inductive ==
    /\ TypeOK
    /\ StateFollowsMain
    /\ HandlerLocks
    /\ EntryInHand
    /\ RefusedHasNone
    /\ DeadHasNone
    /\ UniqueWorkers
    /\ WorkersHavePipes
    /\ AnnouncedServed
    /\ SuccessReleasesLock

-----------------------------------------------------------------------------
(* Sequences of workers and of inbox entries *)

\* A function on 1..n is a sequence of length n.
LEMMA FunctionIsSeq ==
    ASSUME NEW S, NEW n \in Nat, NEW f \in [1..n -> S]
    PROVE  f \in Seq(S) /\ Len(f) = n
<1>1. f \in Seq(S)
    BY SeqDef
<1>2. DOMAIN f = 1..Len(f) /\ Len(f) \in Nat
    BY <1>1, LenProperties
<1> QED
    BY <1>1, <1>2

\* What message_inbox_dequeue leaves is an inbox.
LEMMA DequeuedIsSeq ==
    ASSUME NEW q \in Seq(Entry), q # <<>>
    PROVE  Dequeued(q) \in Seq(Entry)
<1>1. Len(q) - 1 \in Nat
    BY EmptySeq
<1>2. Dequeued(q) \in [1..(Len(q) - 1) -> Entry]
    BY <1>1 DEF Dequeued, Entry
<1> QED
    BY <1>1, <1>2, FunctionIsSeq

\* octopipes_server_stop_worker takes away the worker of one client, keeps the
\* others, and doubles none.
LEMMA WithoutWorkerProperties ==
    ASSUME NEW ws \in Seq(Clients), NEW c,
           \A i, j \in DOMAIN ws : ws[i] = ws[j] => i = j
    PROVE  LET ns == WithoutWorker(ws, c) IN
           /\ ns \in Seq(Clients)
           /\ \A i, j \in DOMAIN ns : ns[i] = ns[j] => i = j
           /\ {ns[i] : i \in DOMAIN ns} = {ws[i] : i \in DOMAIN ws} \ {c}
<1> DEFINE ns == WithoutWorker(ws, c)
<1> DEFINE n == Len(ws)
<1>1. /\ n \in Nat
      /\ ws \in [1..n -> Clients]
      /\ DOMAIN ws = 1..n
    BY LenProperties
<1>0. \A i, j \in 1..n : ws[i] = ws[j] => i = j
    BY <1>1
<1>2. CASE \A i \in DOMAIN ws : ws[i] # c
    BY <1>2 DEF WithoutWorker
<1>3. CASE \E i \in DOMAIN ws : ws[i] = c
    <2> DEFINE k == CHOOSE i \in DOMAIN ws : ws[i] = c
    <2> DEFINE at(j) == IF j < k THEN ws[j] ELSE ws[j + 1]
    <2>1. k \in 1..n /\ ws[k] = c
        BY <1>1, <1>3
    <2>2. ns = [j \in 1..(n - 1) |-> at(j)]
        BY <1>3 DEF WithoutWorker
    <2> HIDE DEF k, n, ns
    <2>3. n - 1 \in Nat
        BY <1>1, <2>1
    <2>4. ns \in [1..(n - 1) -> Clients]
        BY <1>1, <2>1, <2>2
    <2>5. ns \in Seq(Clients) /\ DOMAIN ns = 1..(n - 1)
        BY <2>3, <2>4, FunctionIsSeq
    <2>6. ASSUME NEW i \in 1..(n - 1), NEW j \in 1..(n - 1), ns[i] = ns[j]
          PROVE  i = j
        <3>1. ns[i] = at(i) /\ ns[j] = at(j)
            BY <2>2
        <3>2. i + 1 \in 1..n /\ j + 1 \in 1..n /\ i \in 1..n /\ j \in 1..n /\ k \in Int
            BY <1>1, <2>1
        <3>3. ws[IF i < k THEN i ELSE i + 1] = ws[IF j < k THEN j ELSE j + 1]
            BY <2>6, <3>1
        <3>4. (IF i < k THEN i ELSE i + 1) = (IF j < k THEN j ELSE j + 1)
            BY <1>0, <3>2, <3>3
        <3> QED
            BY <3>2, <3>4
    <2>7. ASSUME NEW i \in 1..(n - 1)
          PROVE  ns[i] \in {ws[j] : j \in 1..n} \ {c}
        <3>1. ns[i] = at(i)
            BY <2>2
        <3> QED
            BY <1>1, <1>0, <2>1, <3>1
    <2>8. ASSUME NEW j \in 1..n, ws[j] # c
          PROVE  \E i \in 1..(n - 1) : ns[i] = ws[j]
        <3>1. CASE j < k
            BY <1>1, <2>1, <2>2, <3>1
        <3>2. CASE j > k
            <4>1. j - 1 \in 1..(n - 1) /\ ~(j - 1 < k) /\ (j - 1) + 1 = j
                BY <1>1, <2>1, <3>2
            <4>2. ns[j - 1] = ws[j]
                BY <2>2, <4>1
            <4> QED
                BY <4>1, <4>2
        <3> QED
            BY <1>1, <2>1, <2>8, <3>1, <3>2
    <2>9. {ns[i] : i \in DOMAIN ns} = {ws[i] : i \in DOMAIN ws} \ {c}
        <3>1. {ns[i] : i \in 1..(n - 1)} \subseteq {ws[i] : i \in 1..n} \ {c}
            BY <2>7
        <3>2. {ws[i] : i \in 1..n} \ {c} \subseteq {ns[i] : i \in 1..(n - 1)}
            BY <2>8
        <3> QED
            BY <1>1, <2>5, <3>1, <3>2
    <2> QED
        BY <2>5, <2>6, <2>9 DEF ns
<1> QED
    BY <1>2, <1>3

\* A worker of a client that had none can be put at the end.
LEMMA AppendedWorkers ==
    ASSUME NEW ws \in Seq(Clients), NEW c \in Clients,
           \A i, j \in DOMAIN ws : ws[i] = ws[j] => i = j,
           c \notin {ws[i] : i \in DOMAIN ws}
    PROVE  LET ns == Append(ws, c) IN
           /\ ns \in Seq(Clients)
           /\ \A i, j \in DOMAIN ns : ns[i] = ns[j] => i = j
           /\ {ns[i] : i \in DOMAIN ns} = {ws[i] : i \in DOMAIN ws} \cup {c}
<1> DEFINE ns == Append(ws, c)
<1>1. /\ Len(ws) \in Nat
      /\ DOMAIN ws = 1..Len(ws)
    BY LenProperties
<1>2. /\ ns \in Seq(Clients)
      /\ DOMAIN ns = 1..(Len(ws) + 1)
      /\ \A i \in 1..Len(ws) : ns[i] = ws[i]
      /\ ns[Len(ws) + 1] = c
    BY <1>1, LenProperties
<1> HIDE DEF ns
<1>3. \A i, j \in DOMAIN ns : ns[i] = ns[j] => i = j
    BY <1>1, <1>2
<1>4. {ns[i] : i \in DOMAIN ns} = {ws[i] : i \in DOMAIN ws} \cup {c}
    BY <1>1, <1>2
<1> QED
    BY <1>2, <1>3, <1>4 DEF ns

\* The entries that are messages, and those that are not.
LEMMA EntryFacts ==
    /\ Message \subseteq Entry
    /\ NoEntry \notin Entry
    /\ {Dangling, ReadError, Junk} \subseteq Entry
    /\ \A e \in Entry : e.type \in RequestTypes => e \in Message
    /\ \A m \in Message : Decode(m) \in Entry
    /\ \A m \in Message : m.client \in Clients
    /\ NoEntry.type \notin RequestTypes
BY DEF Message, Entry, NoEntry, Dangling, ReadError, Junk,
       RequestTypes, NoiseTypes, AssignmentTypes, Decode

-----------------------------------------------------------------------------
(* What a step may do to workers, inbox and CAP *)

\* start_worker puts one worker of a new client at the end.
LEMMA AppendStep ==
    ASSUME Inductive, NEW c \in Clients, c \notin Registered,
           workers' = Append(workers, c)
    PROVE  /\ workers' \in Seq(Clients)
           /\ UniqueWorkers'
           /\ Registered' = Registered \cup {c}
<1>1. workers \in Seq(Clients) /\ \A i, j \in DOMAIN workers : workers[i] = workers[j] => i = j
    BY DEF Inductive, TypeOK, UniqueWorkers
<1>2. c \notin {workers[i] : i \in DOMAIN workers}
    BY DEF Registered
<1> DEFINE ns == Append(workers, c)
<1>3. /\ ns \in Seq(Clients)
      /\ \A i, j \in DOMAIN ns : ns[i] = ns[j] => i = j
      /\ {ns[i] : i \in DOMAIN ns} = {workers[i] : i \in DOMAIN workers} \cup {c}
    BY <1>1, <1>2, AppendedWorkers
<1> QED
    BY <1>3 DEF UniqueWorkers, Registered

\* stop_worker takes at most one worker away.
LEMMA WithoutStep ==
    ASSUME Inductive, NEW c, workers' = WithoutWorker(workers, c)
    PROVE  /\ workers' \in Seq(Clients)
           /\ UniqueWorkers'
           /\ Registered' = Registered \ {c}
<1>1. workers \in Seq(Clients) /\ \A i, j \in DOMAIN workers : workers[i] = workers[j] => i = j
    BY DEF Inductive, TypeOK, UniqueWorkers
<1> DEFINE ns == WithoutWorker(workers, c)
<1>2. /\ ns \in Seq(Clients)
      /\ \A i, j \in DOMAIN ns : ns[i] = ns[j] => i = j
      /\ {ns[i] : i \in DOMAIN ns} = {workers[i] : i \in DOMAIN workers} \ {c}
    BY <1>1, WithoutWorkerProperties
<1> QED
    BY <1>2 DEF UniqueWorkers, Registered

\* A step that leaves workers alone leaves the registered clients alone.
LEMMA SameWorkers ==
    ASSUME Inductive, workers' = workers
    PROVE  UniqueWorkers' /\ Registered' = Registered
BY DEF Inductive, UniqueWorkers, Registered

\* After the end of the server nobody is registered.
LEMMA NoWorkers ==
    ASSUME workers' = <<>>
    PROVE  workers' \in Seq(Clients) /\ UniqueWorkers' /\ Registered' = {}
BY DEF UniqueWorkers, Registered

\* The inbox gives an entry and keeps entries.
LEMMA DequeuedStep ==
    ASSUME Inductive, inbox # <<>>
    PROVE  Head(inbox) \in Entry /\ Dequeued(inbox) \in Seq(Entry)
BY DequeuedIsSeq, HeadTailProperties DEF Inductive, TypeOK

\* message_inbox_push adds an entry.
LEMMA PushedStep ==
    ASSUME Inductive, lpc = "push"
    PROVE  Append(inbox, held) \in Seq(Entry)
BY DEF Inductive, TypeOK, EntryInHand

\* octopipes_server_write_cap writes a frame.
LEMMA AssignmentIsMessage ==
    ASSUME Inductive, mpc \in Answering
    PROVE  Assignment \in Message
BY EntryFacts DEF Inductive, EntryInHand, Assignment, Message, AssignmentTypes

\* Whoever closes the CAP, what is left in it are frames.
LEMMA KeptIsFrames ==
    ASSUME Inductive, NEW io, NEW l, NEW m
    PROVE  Kept(io, l, m) \in Seq(Message)
BY EmptySeq DEF Inductive, TypeOK, Kept

-----------------------------------------------------------------------------
(* The invariant holds after octopipes_server_init and through every step *)

\* octopipes_server_init establishes the invariant.
LEMMA InitInductive == Init => Inductive
<1> SUFFICES ASSUME Init PROVE Inductive
    OBVIOUS
<1>1. Registered = {} /\ Pending = {} /\ UniqueWorkers
    BY DEF Init, Registered, Pending, Answering, UniqueWorkers
<1>2. TypeOK
    BY EmptySeq DEF Init, TypeOK, Answering
<1> QED
    BY <1>1, <1>2 DEF Init, Inductive, StateFollowsMain, HandlerLocks, EntryInHand,
        RefusedHasNone, DeadHasNone, WorkersHavePipes, AnnouncedServed,
        SuccessReleasesLock, InHandler, Answering

\* The end of the process, wherever it comes, keeps it.
LEMMA CrashInductive ==
    ASSUME Inductive, Crash
    PROVE  Inductive'
BY EmptySeq, NoWorkers, KeptIsFrames
   DEF Crash, Forget, Inductive, TypeOK, StateFollowsMain, HandlerLocks, EntryInHand, RefusedHasNone,
            DeadHasNone, WorkersHavePipes, AnnouncedServed, SuccessReleasesLock,
            InHandler, Answering, Pending

\* The calls of the main thread, as far as they go in one step.
LEMMA MainCallInductive ==
    ASSUME Inductive, MainCall
    PROVE  Inductive'
<1> USE DEF Inductive, TypeOK, StateFollowsMain, HandlerLocks, EntryInHand, RefusedHasNone,
        DeadHasNone, WorkersHavePipes, AnnouncedServed, SuccessReleasesLock,
        InHandler, Answering, Pending
<1>1. CASE ServerInit
    BY <1>1, NoWorkers, EmptySeq
       DEF ServerInit, Forget, capVars
<1>2. CASE StartRejected
    BY <1>2, SameWorkers
       DEF StartRejected, Return, listenerVars, sharedVars, capVars
<1>3. CASE StartFails
    BY <1>3, SameWorkers
       DEF StartFails, Return, listenerVars, sharedVars, capVars
<1>4. CASE StartCapListener
    BY <1>4, SameWorkers
       DEF StartCapListener, Return
<1>5. CASE RejectedCall
    BY <1>5, SameWorkers
       DEF RejectedCall, Return, listenerVars, sharedVars, capVars
<1>6. CASE StopCapListener
    BY <1>6, SameWorkers
       DEF StopCapListener, listenerVars, sharedVars, capVars
<1>7. CASE CleanupNotRunning
    BY <1>7, SameWorkers, EmptySeq
       DEF CleanupNotRunning, listenerVars, capVars
<1>8. CASE ProcessCapOnce
    BY <1>8, SameWorkers
       DEF ProcessCapOnce, listenerVars, sharedVars, capVars
<1>9. CASE ProcessCapAll
    BY <1>9, SameWorkers
       DEF ProcessCapAll, Return, listenerVars, sharedVars, capVars
<1> QED
    BY <1>1, <1>2, <1>3, <1>4, <1>5, <1>6, <1>7, <1>8, <1>9 DEF MainCall

\* The calls as they go on.
LEMMA MainStepInductive ==
    ASSUME Inductive, MainStep
    PROVE  Inductive'
<1> USE DEF Inductive, TypeOK, StateFollowsMain, HandlerLocks, EntryInHand, RefusedHasNone,
        DeadHasNone, WorkersHavePipes, AnnouncedServed, SuccessReleasesLock,
        InHandler, Answering, Pending
<1>1. CASE StopJoins
    BY <1>1, SameWorkers, EmptySeq
       DEF StopJoins, Joined, Return
<1>2. CASE CleanupJoins
    BY <1>2, NoWorkers, EmptySeq
       DEF CleanupJoins, Joined
<1>3. CASE JoinFails
    BY <1>3, CrashInductive, SameWorkers
       DEF JoinFails, Return, listenerVars, sharedVars, capVars
<1>4. CASE InboxIsEmpty
    BY <1>4, SameWorkers
       DEF InboxIsEmpty, Return, listenerVars, sharedVars, capVars
<1>5. CASE Dequeue
    BY <1>5, SameWorkers, DequeuedStep
       DEF Dequeue, listenerVars, capVars
<1>6. CASE DequeueCrashes
    BY <1>6, CrashInductive
       DEF DequeueCrashes
<1>7. CASE HandleReadError
    BY <1>7, CrashInductive, SameWorkers
       DEF HandleReadError, Handling, Handled, Return, listenerVars, capVars
<1>8. CASE HandleJunk
    BY <1>8, CrashInductive, SameWorkers
       DEF HandleJunk, Handling, Handled, Return, listenerVars, capVars
<1>9. CASE HandleDangling
    BY <1>9, CrashInductive, SameWorkers
       DEF HandleDangling, Handling, Handled, Return, listenerVars, capVars
<1>10. CASE HandleMalformed
    BY <1>10, CrashInductive, SameWorkers
       DEF HandleMalformed, Handling, Handled, Return, listenerVars, capVars
<1>11. CASE SubscriptionAccepted
    BY <1>11, AppendStep, EntryFacts
       DEF SubscriptionAccepted, LockCap, Handling, RequestTypes, listenerVars, sharedVars, capVars
<1>12. CASE SubscriptionDuplicate
    BY <1>12, CrashInductive
       DEF SubscriptionDuplicate
<1>13. CASE SubscriptionNoWorker
    BY <1>13, CrashInductive, SameWorkers, EntryFacts
       DEF SubscriptionNoWorker, LockCap, Handling, RequestTypes, listenerVars, sharedVars, capVars
<1>14. CASE SubscriptionBadAlloc
    BY <1>14, CrashInductive, SameWorkers, EntryFacts
       DEF SubscriptionBadAlloc, Handling, Handled, Return, RequestTypes, listenerVars, capVars
<1>15. CASE Unsubscribed
    BY <1>15, WithoutStep
       DEF Unsubscribed, Handling, Handled, Return, listenerVars, capVars
<1>16. CASE UnsubscriptionNoWorkers
    BY <1>16, SameWorkers
       DEF UnsubscriptionNoWorkers, Handling, Handled, Return, listenerVars, capVars
<1>17. CASE UnsubscriptionUnknown
    BY <1>17, CrashInductive
       DEF UnsubscriptionUnknown
<1>18. CASE BlockSlept
    BY <1>18, SameWorkers
       DEF BlockSlept, listenerVars, sharedVars, capVars
<1>19. CASE SendOpens
    BY <1>19, SameWorkers
       DEF SendOpens, listenerVars, sharedVars, capVars
<1>20. CASE SendOpenFails
    BY <1>20, WithoutStep
       DEF SendOpenFails, Handling, Handled, Return, listenerVars, capVars
<1>21. CASE SendWrites
    BY <1>21, SameWorkers, AssignmentIsMessage, EntryFacts
       DEF SendWrites, listenerVars, sharedVars
<1>22. CASE SendBreaks
    BY <1>22, CrashInductive
       DEF SendBreaks
<1>23. CASE SendCloses
    BY <1>23, SameWorkers, KeptIsFrames
       DEF SendCloses, Handled, Return, listenerVars
<1>24. CASE SubscriptionStopsOwner
    BY <1>24, WithoutStep
       DEF SubscriptionStopsOwner, Handling, Handled, Return, listenerVars, capVars
<1> QED
    BY <1>1, <1>2, <1>3, <1>4, <1>5, <1>6, <1>7, <1>8, <1>9, <1>10, <1>11, <1>12, <1>13, <1>14, <1>15, <1>16, <1>17, <1>18, <1>19, <1>20, <1>21, <1>22, <1>23, <1>24 DEF MainStep

\* The listener thread.
LEMMA ListenerInductive ==
    ASSUME Inductive, ListenerStep
    PROVE  Inductive'
<1> USE DEF Inductive, TypeOK, StateFollowsMain, HandlerLocks, EntryInHand, RefusedHasNone,
        DeadHasNone, WorkersHavePipes, AnnouncedServed, SuccessReleasesLock,
        InHandler, Answering, Pending
<1>1. CASE ListenerChecks
    BY <1>1, SameWorkers
       DEF ListenerChecks, ListenerGoes, mainVars, sharedVars, capVars
<1>2. CASE ListenerPasses
    BY <1>2, SameWorkers
       DEF ListenerPasses, ListenerGoes, mainVars, sharedVars, capVars
<1>3. CASE ListenerOpens
    BY <1>3, SameWorkers
       DEF ListenerOpens, ListenerGoes, mainVars, sharedVars, capVars
<1>4. CASE ListenerOpenFails
    BY <1>4, SameWorkers, EntryFacts
       DEF ListenerOpenFails, ListenerGoes, mainVars, sharedVars, capVars
<1>5. CASE ListenerReceives
    BY <1>5, SameWorkers, EntryFacts, HeadTailProperties, EmptySeq
       DEF ListenerReceives, mainVars, sharedVars
<1>6. CASE ListenerTimesOut
    BY <1>6, SameWorkers
       DEF ListenerTimesOut, ListenerGoes, mainVars, sharedVars, capVars
<1>7. CASE ListenerReadFails
    BY <1>7, SameWorkers, EntryFacts
       DEF ListenerReadFails, ListenerGoes, mainVars, sharedVars, capVars
<1>8. CASE ListenerCloses
    BY <1>8, SameWorkers, KeptIsFrames
       DEF ListenerCloses, ListenerGoes, mainVars, sharedVars
<1>9. CASE ListenerPushes
    <2>1. inbox' \in Seq(Entry)
        BY <1>9, PushedStep DEF ListenerPushes, ListenerGoes
    <2>2. /\ lpc' = "check" /\ held' = NoEntry
          /\ UNCHANGED <<mainVars, capLock, capVars>>
        BY <1>9 DEF ListenerPushes, ListenerGoes
    <2> QED
        BY <2>1, <2>2, SameWorkers DEF mainVars, capVars
<1> QED
    BY <1>1, <1>2, <1>3, <1>4, <1>5, <1>6, <1>7, <1>8, <1>9 DEF ListenerStep

\* The clients touch nothing but the CAP.
LEMMA ClientInductive ==
    ASSUME Inductive, ClientStep
    PROVE  Inductive'
<1> USE DEF Inductive, TypeOK, StateFollowsMain, HandlerLocks, EntryInHand, RefusedHasNone,
        DeadHasNone, WorkersHavePipes, AnnouncedServed, SuccessReleasesLock,
        InHandler, Answering, Pending
<1>1. PICK c \in Clients :
        \/ ClientOpensToRead(c)
        \/ ClientReceives(c)
        \/ ClientOpensToWrite(c)
        \/ \E type \in WrittenTypes : ClientWrites(c, type)
        \/ ClientCloses(c)
    BY DEF ClientStep
<1>2. CASE ClientOpensToRead(c)
    BY <1>2, SameWorkers
       DEF ClientOpensToRead, Opened, mainVars, listenerVars, sharedVars
<1>3. CASE ClientReceives(c)
    BY <1>3, SameWorkers, EmptySeq
       DEF ClientReceives, mainVars, listenerVars, sharedVars
<1>4. CASE ClientOpensToWrite(c)
    BY <1>4, SameWorkers
       DEF ClientOpensToWrite, Opened, mainVars, listenerVars, sharedVars
<1>5. CASE \E type \in WrittenTypes : ClientWrites(c, type)
    <2>1. PICK type \in WrittenTypes : ClientWrites(c, type)
        BY <1>5
    <2>2. capBuf' \in Seq(Message)
        <3>1. type \in RequestTypes \cup NoiseTypes \cup AssignmentTypes
            BY DEF WrittenTypes
        <3>2. [type |-> type, client |-> c] \in Message
            BY <3>1 DEF Message
        <3> QED
            BY <2>1, <3>2 DEF ClientWrites
    <2> QED
        BY <2>1, <2>2, SameWorkers
           DEF ClientWrites, mainVars, listenerVars, sharedVars
<1>6. CASE ClientCloses(c)
    BY <1>6, SameWorkers, KeptIsFrames
       DEF ClientCloses, Opened, mainVars, listenerVars, sharedVars
<1> QED
    BY <1>1, <1>2, <1>3, <1>4, <1>5, <1>6

\* Inductive speaks of the variables of the specification only.
LEMMA StutterInductive ==
    ASSUME Inductive, UNCHANGED vars
    PROVE  Inductive'
BY SameWorkers DEF vars, mainVars, listenerVars, sharedVars, capVars, Inductive, TypeOK, StateFollowsMain, HandlerLocks, EntryInHand, RefusedHasNone,
            DeadHasNone, WorkersHavePipes, AnnouncedServed, SuccessReleasesLock,
            InHandler, Answering, Pending

\* Every step keeps the invariant.
LEMMA StepInductive ==
    ASSUME Inductive, [Next]_vars
    PROVE  Inductive'
BY CrashInductive, MainCallInductive, MainStepInductive, ListenerInductive,
   ClientInductive, StutterInductive
   DEF Next, ServerStep, Killed

\* Inductive holds in every reachable state.
THEOREM Invariance == Spec => []Inductive
BY InitInductive, StepInductive, PTL DEF Spec

-----------------------------------------------------------------------------
(* The invariants of CapServer *)

\* Every variable keeps its type, whatever the clients write to the CAP.
THEOREM TypeCorrect == Spec => []TypeOK
<1>1. Inductive => TypeOK
    BY DEF Inductive
<1> QED
    BY <1>1, Invariance, PTL

\* No client ever has two workers (cap_manage_subscription).
THEOREM WorkersAreUnique == Spec => []UniqueWorkers
<1>1. Inductive => UniqueWorkers
    BY DEF Inductive
<1> QED
    BY <1>1, Invariance, PTL

\* The FIFOs of a worker exist as long as it does (stop_worker, worker_cleanup).
THEOREM WorkersKeepPipes == Spec => []WorkersHavePipes
<1>1. Inductive => WorkersHavePipes
    BY DEF Inductive
<1> QED
    BY <1>1, Invariance, PTL

\* The workers are those of the announced clients and of the one whose
\* assignment is being written (cap_manage_subscription, write_cap).
THEOREM AnnouncedAreServed == Spec => []AnnouncedServed
<1>1. Inductive => AnnouncedServed
    BY DEF Inductive
<1> QED
    BY <1>1, Invariance, PTL

\* A public call that returns SUCCESS leaves the mutex free.
THEOREM SuccessReleases == Spec => []SuccessReleasesLock
<1>1. Inductive => SuccessReleasesLock
    BY DEF Inductive
<1> QED
    BY <1>1, Invariance, PTL

-----------------------------------------------------------------------------
(* The listener keeps away from the CAP while the main thread writes *)

PausedInductive == Inductive /\ ListenerPausedDuringWrite

\* The main thread may only go on to write when the sleep of lock_cap has
\* outlasted the listener's receive; the listener, when state is not BLOCK.
LEMMA PausedStep ==
    ASSUME Timed, PausedInductive, [Next]_vars
    PROVE  ListenerPausedDuringWrite'
<1> USE DEF PausedInductive, ListenerPausedDuringWrite
<1>1. CASE Killed
    BY <1>1 DEF Killed, Crash
<1>2. CASE MainCall
    BY <1>2 DEF MainCall, ServerInit, StartRejected, StartFails, StartCapListener,
        RejectedCall, StopCapListener, CleanupNotRunning, ProcessCapOnce,
        ProcessCapAll, Return, listenerVars
<1>3. CASE MainStep
    <2>1. CASE BlockSlept
        BY <2>1 DEF BlockSlept, listenerVars
    <2>2. CASE SendOpens \/ SendWrites
        BY <2>2 DEF SendOpens, SendWrites, listenerVars
    <2>3. CASE ~(BlockSlept \/ SendOpens \/ SendWrites)
        BY <1>3, <2>3
           DEF MainStep, StopJoins, CleanupJoins, JoinFails, InboxIsEmpty, Dequeue,
               DequeueCrashes, HandleReadError, HandleJunk, HandleDangling,
               HandleMalformed, SubscriptionAccepted, SubscriptionDuplicate,
               SubscriptionNoWorker, SubscriptionBadAlloc, SubscriptionStopsOwner, Unsubscribed,
               UnsubscriptionNoWorkers, UnsubscriptionUnknown, SendOpenFails,
               SendBreaks, SendCloses, Crash, LockCap, Handled, Return
    <2> QED
        BY <2>1, <2>2, <2>3
<1>4. CASE ListenerStep
    <2>1. CASE ListenerPasses
        BY <2>1 DEF ListenerPasses, ListenerGoes, mainVars, Inductive,
            StateFollowsMain, Answering
    <2>2. CASE ~ListenerPasses
        BY <1>4, <2>2
           DEF ListenerStep, ListenerChecks, ListenerOpens, ListenerOpenFails,
               ListenerReceives, ListenerTimesOut, ListenerReadFails,
               ListenerCloses, ListenerPushes, ListenerGoes, mainVars
    <2> QED
        BY <2>1, <2>2
<1>5. CASE ClientStep
    BY <1>5 DEF ClientStep, ClientOpensToRead, ClientReceives, ClientOpensToWrite,
        ClientWrites, ClientCloses, mainVars, listenerVars
<1>6. CASE UNCHANGED vars
    BY <1>6 DEF vars, mainVars, listenerVars
<1> QED
    BY <1>1, <1>2, <1>3, <1>4, <1>5, <1>6 DEF Next, ServerStep

\* If the sleeps are long enough, the listener never reads an assignment
\* (octopipes_server_lock_cap and cap_loop).
THEOREM ListenerPauses == ASSUME Timed PROVE Spec => []ListenerPausedDuringWrite
<1>1. Init => PausedInductive
    BY InitInductive DEF Init, PausedInductive, ListenerPausedDuringWrite
<1>2. PausedInductive /\ [Next]_vars => PausedInductive'
    BY PausedStep, StepInductive DEF PausedInductive
<1>3. PausedInductive => ListenerPausedDuringWrite
    BY DEF PausedInductive
<1> QED
    BY <1>1, <1>2, <1>3, PTL DEF Spec

-----------------------------------------------------------------------------
(* What a step may never do *)

\* While a request is handled the inbox does not change: only the listener
\* would change it, and it needs the mutex the main thread has.
LEMMA InboxStableStep ==
    ASSUME Inductive, [Next]_vars, mpc \in InHandler, mpc' # "dead"
    PROVE  inbox' = inbox
<1> USE DEF InHandler, Answering
<1>1. CASE Killed
    BY <1>1 DEF Killed, Crash
<1>2. CASE MainCall
    BY <1>2 DEF MainCall, ServerInit, StartRejected, StartFails, StartCapListener,
        RejectedCall, StopCapListener, CleanupNotRunning, ProcessCapOnce, ProcessCapAll
<1>3. CASE MainStep
    BY <1>3
       DEF MainStep, StopJoins, CleanupJoins, JoinFails, InboxIsEmpty, Dequeue,
           DequeueCrashes, HandleReadError, HandleJunk, HandleDangling,
           HandleMalformed, SubscriptionAccepted, SubscriptionDuplicate,
           SubscriptionNoWorker, SubscriptionBadAlloc, SubscriptionStopsOwner, Unsubscribed,
           UnsubscriptionNoWorkers, UnsubscriptionUnknown, BlockSlept, SendOpens,
           SendOpenFails, SendWrites, SendBreaks, SendCloses, Crash, sharedVars
<1>4. CASE ListenerStep
    BY <1>4
       DEF Inductive, HandlerLocks, ListenerStep, ListenerChecks, ListenerPasses,
           ListenerOpens, ListenerOpenFails, ListenerReceives, ListenerTimesOut,
           ListenerReadFails, ListenerCloses, ListenerPushes, sharedVars
<1>5. CASE ClientStep
    BY <1>5 DEF ClientStep, ClientOpensToRead, ClientReceives, ClientOpensToWrite,
        ClientWrites, ClientCloses, sharedVars
<1>6. CASE UNCHANGED vars
    BY <1>6 DEF vars, sharedVars
<1> QED
    BY <1>1, <1>2, <1>3, <1>4, <1>5, <1>6 DEF Next, ServerStep

\* process_cap_once holds the mutex from dequeue to return: the inbox cannot
\* move under the handler.
THEOREM InboxIsStable == Spec => InboxStableWhileHandling
<1>1. Inductive /\ [Next]_vars =>
        [(mpc \in {"handle", "sent"} \cup Answering /\ mpc' # "dead")
            => inbox' = inbox]_vars
    BY InboxStableStep DEF InHandler
<1> QED
    BY <1>1, Invariance, PTL DEF Spec, InboxStableWhileHandling

-----------------------------------------------------------------------------
(* CapServer implements Registry *)

\* Every step that changes the workers or tells a client, with what it does to
\* the registry: one place is given, announced, withdrawn or left, or all end.
LEMMA RegistryStep ==
    ASSUME Inductive, [Next]_vars
    PROVE  \/ UNCHANGED <<Registered, told>>
           \/ /\ Registered' = {} /\ told' = {}
              /\ mpc' \in {"dead", "freed"} \/ mpc \in {"dead", "freed"}
           \/ \E c \in Clients : Abstract!Admit(c) \/ Abstract!Inform(c) \/ Abstract!Withdraw(c)
           \/ /\ \/ Handling("UNSUBSCRIPTION")
                 \/ Handling("SUBSCRIPTION") /\ rc' = "BAD_ALLOC"
              /\ cur.client \in Clients /\ Abstract!Leave(cur.client)
<1> DEFINE Quiet == UNCHANGED <<Registered, told>>
           Ends == /\ Registered' = {} /\ told' = {}
                   /\ mpc' \in {"dead", "freed"} \/ mpc \in {"dead", "freed"}
<1>1. ASSUME Crash PROVE Ends
    BY <1>1, NoWorkers DEF Crash, Forget
<1>2. ASSUME UNCHANGED <<workers, told>> PROVE Quiet
    BY <1>2, SameWorkers
<1>3. CASE Killed
    BY <1>1, <1>3 DEF Killed
<1>4. CASE MainCall
    <2>1. CASE ServerInit
        BY <2>1, NoWorkers DEF ServerInit, Forget
    <2>2. CASE ~ServerInit
        BY <1>2, <1>4, <2>2
           DEF MainCall, StartRejected, StartFails, StartCapListener, RejectedCall,
               StopCapListener, CleanupNotRunning, ProcessCapOnce, ProcessCapAll
    <2> QED
        BY <2>1, <2>2
<1>5. CASE MainStep
    <2>1. CASE CleanupJoins
        BY <2>1, NoWorkers DEF CleanupJoins
    <2>2. CASE \/ DequeueCrashes \/ SubscriptionDuplicate
               \/ UnsubscriptionUnknown \/ SendBreaks
        BY <1>1, <2>2 DEF DequeueCrashes, SubscriptionDuplicate,
            UnsubscriptionUnknown, SendBreaks
    <2>3. CASE \/ JoinFails \/ HandleReadError \/ HandleJunk \/ HandleDangling
               \/ HandleMalformed \/ SubscriptionNoWorker \/ SubscriptionBadAlloc
        BY <1>1, <1>2, <2>3 DEF JoinFails, HandleReadError, HandleJunk,
            HandleDangling, HandleMalformed, SubscriptionNoWorker, SubscriptionBadAlloc
    <2>4. CASE \/ StopJoins \/ InboxIsEmpty \/ Dequeue
               \/ UnsubscriptionNoWorkers
               \/ BlockSlept \/ SendOpens \/ SendCloses
        BY <1>2, <2>4 DEF StopJoins, InboxIsEmpty, Dequeue,
            UnsubscriptionNoWorkers, BlockSlept, SendOpens, SendCloses
    <2>5. CASE SubscriptionAccepted
        <3>1. cur.client \in Clients
            BY <2>5, EntryFacts
               DEF SubscriptionAccepted, Handling, RequestTypes, Inductive, EntryInHand
        <3>2. Registered' = Registered \cup {cur.client}
            BY <2>5, <3>1, AppendStep DEF SubscriptionAccepted
        <3>3. Registered = told
            BY <2>5 DEF SubscriptionAccepted, Handling, Inductive, AnnouncedServed,
                Pending, Answering
        <3>4. Abstract!Admit(cur.client)
            BY <2>5, <3>2, <3>3 DEF SubscriptionAccepted, Abstract!Admit
        <3> QED
            BY <3>1, <3>4
    <2>6. CASE Unsubscribed
        <3>1. cur.client \in Clients
            BY <2>6, EntryFacts
               DEF Unsubscribed, Handling, RequestTypes, Inductive, EntryInHand
        <3>2. Registered' = Registered \ {cur.client}
            BY <2>6, WithoutStep DEF Unsubscribed
        <3>3. Registered = told
            BY <2>6 DEF Unsubscribed, Handling, Inductive, AnnouncedServed,
                Pending, Answering
        <3>4. Abstract!Leave(cur.client)
            BY <2>6, <3>2, <3>3 DEF Unsubscribed, Abstract!Leave
        <3> QED
            BY <2>6, <3>1, <3>4 DEF Unsubscribed
    <2>7. CASE SendOpenFails
        <3>1. cur.client \in Clients
            BY <2>7, EntryFacts DEF SendOpenFails, Answering, Inductive, EntryInHand
        <3>2. Registered' = Registered \ {cur.client} /\ told' = told
            BY <2>7, WithoutStep DEF SendOpenFails
        <3>3. CASE answer = "SUCCESS"
            <4>1. cur.client \in Registered \ told
                BY <2>7, <3>3 DEF SendOpenFails, Answering, Pending, Inductive,
                    AnnouncedServed
            <4>2. Abstract!Withdraw(cur.client)
                BY <3>2, <4>1 DEF Abstract!Withdraw
            <4> QED
                BY <3>1, <4>2
        <3>4. CASE answer = "FS"
            <4>1. cur.client \notin Registered
                BY <2>7, <3>4 DEF SendOpenFails, Answering, Inductive, RefusedHasNone
            <4> QED
                BY <3>2, <4>1
        <3> QED
            BY <3>3, <3>4 DEF Inductive, TypeOK
    <2>8. CASE SendWrites
        <3>1. cur.client \in Clients
            BY <2>8, EntryFacts DEF SendWrites, Answering, Inductive, EntryInHand
        <3>2. Registered' = Registered /\ told' = told \cup Pending
            BY <2>8, SameWorkers DEF SendWrites
        <3>3. CASE answer = "SUCCESS"
            <4>1. Pending = {cur.client} /\ cur.client \in Registered \ told
                BY <2>8, <3>3 DEF SendWrites, Answering, Pending, Inductive,
                    AnnouncedServed
            <4>2. Abstract!Inform(cur.client)
                BY <3>2, <4>1 DEF Abstract!Inform
            <4> QED
                BY <3>1, <4>2
        <3>4. CASE answer # "SUCCESS"
            BY <3>2, <3>4 DEF Pending
        <3> QED
            BY <3>3, <3>4
    <2>9. CASE SubscriptionStopsOwner
        <3>1. cur.client \in Clients
            BY <2>9, EntryFacts
               DEF SubscriptionStopsOwner, Handling, RequestTypes, Inductive, EntryInHand
        <3>2. Registered' = Registered \ {cur.client}
            BY <2>9, WithoutStep DEF SubscriptionStopsOwner
        <3>3. Registered = told
            BY <2>9 DEF SubscriptionStopsOwner, Handling, Inductive, AnnouncedServed,
                Pending, Answering
        <3>4. Abstract!Leave(cur.client)
            BY <2>9, <3>2, <3>3 DEF SubscriptionStopsOwner, Abstract!Leave
        <3>5. Handling("SUBSCRIPTION") /\ rc' = "BAD_ALLOC"
            BY <2>9 DEF SubscriptionStopsOwner, Handled, Return
        <3> QED
            BY <3>1, <3>4, <3>5
    <2> QED
        BY <1>5, <2>1, <2>2, <2>3, <2>4, <2>5, <2>6, <2>7, <2>8, <2>9
           DEF MainStep
<1>6. CASE ListenerStep
    BY <1>2, <1>6
       DEF ListenerStep, ListenerChecks, ListenerPasses, ListenerOpens,
           ListenerOpenFails, ListenerReceives, ListenerTimesOut,
           ListenerReadFails, ListenerCloses, ListenerPushes, mainVars
<1>7. CASE ClientStep
    BY <1>2, <1>7 DEF ClientStep, ClientOpensToRead, ClientReceives,
        ClientOpensToWrite, ClientWrites, ClientCloses, mainVars
<1>8. CASE UNCHANGED vars
    BY <1>2, <1>8 DEF vars, mainVars
<1> QED
    BY <1>3, <1>4, <1>5, <1>6, <1>7, <1>8 DEF Next, ServerStep

\* The workers and the assignments written behave as a registry of members,
\* each told once, whatever fails.
THEOREM Refinement == Spec => ImplementsRegistry
<1>1. Init => Abstract!RegistryInit
    BY DEF Init, Registered, Abstract!RegistryInit
<1>2. Inductive /\ [Next]_vars => [Abstract!RegistryNext]_(Abstract!registryVars)
    <2> SUFFICES ASSUME Inductive, [Next]_vars
                 PROVE  [Abstract!RegistryNext]_(Abstract!registryVars)
        OBVIOUS
    <2>1. CASE UNCHANGED <<Registered, told>>
        BY <2>1 DEF Abstract!registryVars
    <2>2. CASE Registered' = {} /\ told' = {}
        BY <2>2 DEF Abstract!RegistryNext, Abstract!Shutdown
    <2>3. CASE \E c \in Clients : Abstract!Admit(c) \/ Abstract!Inform(c)
                                  \/ Abstract!Withdraw(c) \/ Abstract!Leave(c)
        BY <2>3 DEF Abstract!RegistryNext
    <2> QED
        BY <2>1, <2>2, <2>3, RegistryStep
<1> QED
    BY <1>1, <1>2, Invariance, PTL DEF Spec, ImplementsRegistry, Abstract!RegistrySpec

\* An announced client only loses its worker to its own requests and to the end
\* of the server (stop_worker, with what calls it).
THEOREM OnlyOwnersLeave == Spec => OnlyOwnerLeaves
<1>1. Inductive /\ [Next]_vars =>
        [\A c \in told :
            \/ c \in Registered'
            \/ Handling("UNSUBSCRIPTION") /\ cur.client = c
            \/ Handling("SUBSCRIPTION") /\ cur.client = c /\ rc' = "BAD_ALLOC"
            \/ mpc' \in {"dead", "freed"}
            \/ mpc = "freed"]_vars
    <2> SUFFICES ASSUME Inductive, [Next]_vars, NEW c \in told
                 PROVE  \/ c \in Registered'
                        \/ Handling("UNSUBSCRIPTION") /\ cur.client = c
                        \/ Handling("SUBSCRIPTION") /\ cur.client = c /\ rc' = "BAD_ALLOC"
                        \/ mpc' \in {"dead", "freed"}
                        \/ mpc = "freed"
        OBVIOUS
    <2>1. c \in Registered /\ mpc # "dead"
        BY DEF Inductive, AnnouncedServed, DeadHasNone
    <2>2. CASE \E d \in Clients : Abstract!Admit(d) \/ Abstract!Inform(d) \/ Abstract!Withdraw(d)
        BY <2>1, <2>2 DEF Abstract!Admit, Abstract!Inform, Abstract!Withdraw
    <2>3. CASE /\ \/ Handling("UNSUBSCRIPTION")
                  \/ Handling("SUBSCRIPTION") /\ rc' = "BAD_ALLOC"
               /\ Abstract!Leave(cur.client)
        BY <2>1, <2>3 DEF Abstract!Leave
    <2> QED
        BY <2>1, <2>2, <2>3, RegistryStep
<1> QED
    BY <1>1, Invariance, PTL DEF Spec, OnlyOwnerLeaves
=============================================================================
