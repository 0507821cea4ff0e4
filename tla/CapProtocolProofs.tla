------------------------- MODULE CapProtocolProofs -------------------------
(***************************************************************************)
(* CapProtocol implements CapServer: whatever the clients of client.c do is *)
(* something CapServer allows a client, so that every theorem of            *)
(* CapServerProofs holds of the two together.  With it, the types of the    *)
(* clients' part, and Served, for every set of clients, every number of     *)
(* calls and whatever the threads' speed: the clients take themselves for   *)
(* subscribed only while the server serves them.  Of the faults, failing    *)
(* allocations are left out there, with which it is false                   *)
(* (CapProtocolBadRefused).                                                 *)
(***************************************************************************)
EXTENDS CapProtocol, CapServerProofs

-----------------------------------------------------------------------------
(* CapProtocol implements CapServer *)

\* Closing a FIFO that is open is a step of a client, otherwise nothing happens.
LEMMA ClosesIsClientStep ==
    ASSUME NEW c \in Clients, Closes(c)
    PROVE  ClientStep \/ UNCHANGED vars
BY DEF Closes, ClientStep

\* Each step of a call is a step of CapServer's client, or none.
LEMMA ContinuesIsClientStep ==
    ASSUME NEW c \in Clients, ClientContinues(c)
    PROVE  ClientStep \/ UNCHANGED vars
<1>1. CASE SendOpensCap(c)
    BY <1>1 DEF SendOpensCap, ClientStep
<1>2. CASE SubscriptionWritten(c) \/ UnsubscriptionWritten(c)
    <2>1. {"SUBSCRIPTION", "UNSUBSCRIPTION"} \subseteq WrittenTypes
        BY DEF WrittenTypes, RequestTypes
    <2> QED
        BY <1>2, <2>1 DEF SubscriptionWritten, UnsubscriptionWritten, ClientStep
<1>3. CASE WaitOpens(c)
    BY <1>3 DEF WaitOpens, ClientStep
<1>4. CASE WaitReceives(c)
    BY <1>4 DEF WaitReceives, ClientStep
<1>5. CASE \/ SendGivesUp(c) \/ WrittenToDeleted(c) \/ WaitCannotOpen(c)
           \/ AssignmentAccepted(c) \/ AssignmentRefused(c)
    BY <1>5 DEF SendGivesUp, WrittenToDeleted, WaitCannotOpen, AssignmentAccepted,
                AssignmentRefused
<1>6. CASE WriteBreaks(c) \/ SubscriptionSent(c) \/ UnsubscriptionSent(c) \/ WaitEnds(c)
    <2>1. Closes(c)
        BY <1>6 DEF WriteBreaks, SubscriptionSent, UnsubscriptionSent, WaitEnds
    <2> QED
        BY <2>1, ClosesIsClientStep
<1> QED
    BY <1>1, <1>2, <1>3, <1>4, <1>5, <1>6 DEF ClientContinues

LEMMA StrangerIsClientStep ==
    ASSUME NEW c \in Clients, StrangerStep(c)
    PROVE  ClientStep
BY DEF StrangerStep, ClientStep

LEMMA StepIsServerStep ==
    ASSUME [ProtocolNext]_protocolVars
    PROVE  [Next]_vars
<1>1. CASE WithClients(ServerStep)
    BY <1>1 DEF WithClients, Next
<1>2. CASE \E c \in Clients \ Strangers : ClientCalls(c) \/ ClientRuns(c)
    <2>1. PICK c \in Clients \ Strangers : ClientCalls(c) \/ ClientRuns(c)
        BY <1>2
    <2>2. CASE ClientCalls(c)
        BY <2>2 DEF ClientCalls, Subscribe, Unsubscribe
    <2>3. CASE ClientRuns(c)
        BY <2>3, ContinuesIsClientStep DEF ClientRuns, Next
    <2> QED
        BY <2>1, <2>2, <2>3
<1>3. CASE \E c \in Strangers : StrangerStep(c)
    BY <1>3, StrangerIsClientStep, ProtocolAssumption DEF Next
<1>4. CASE UNCHANGED protocolVars
    BY <1>4 DEF protocolVars
<1> QED
    BY <1>1, <1>2, <1>3, <1>4 DEF ProtocolNext

\* The server together with the clients of client.c, and with strangers that
\* write no request, behaves as CapServer does: octopipes_subscribe and
\* octopipes_unsubscribe do nothing on the CAP that CapServer did not consider.
THEOREM ProtocolIsCapServer == ProtocolSpec => Spec
<1>1. ProtocolInit => Init
    BY DEF ProtocolInit
<1> QED
    BY <1>1, StepIsServerStep, PTL DEF ProtocolSpec, Spec

\* With long enough sleeps the listener does not have the CAP open while an
\* assignment to one of these clients is about to be written (lock_cap).
THEOREM ProtocolListenerPauses ==
    ASSUME Timed
    PROVE  ProtocolSpec => []ListenerPausedDuringWrite
BY ProtocolIsCapServer, ListenerPauses, PTL

\* The clients' server has one worker for each of them, never taken from them
\* by the requests of another.
THEOREM ProtocolOnlyOwnersLeave == ProtocolSpec => OnlyOwnerLeaves
BY ProtocolIsCapServer, OnlyOwnersLeave, PTL

-----------------------------------------------------------------------------
(* The types of the clients' part *)

LEMMA DecodedIsEntry ==
    ASSUME NEW m \in Message
    PROVE  Decode(m) \in Entry
BY DEF Decode, Entry

LEMMA ContinuesKeepsTypes ==
    ASSUME ProtocolTypeOK, TypeOK', NEW c \in Clients, ClientContinues(c), UNCHANGED stale
    PROVE  ProtocolTypeOK'
<1> USE DEF ProtocolTypeOK, Goes, At, Returns
<1>1. CASE SendOpensCap(c)
    BY <1>1 DEF SendOpensCap, Sending, NextAfterOpen
<1>2. CASE SendGivesUp(c)
    BY <1>2 DEF SendGivesUp, Sending
<1>3. CASE SubscriptionWritten(c) \/ UnsubscriptionWritten(c)
    BY <1>3 DEF SubscriptionWritten, UnsubscriptionWritten
<1>4. CASE WrittenToDeleted(c) \/ WriteBreaks(c)
    BY <1>4 DEF WrittenToDeleted, WriteBreaks
<1>5. CASE SubscriptionSent(c) \/ UnsubscriptionSent(c)
    BY <1>5 DEF SubscriptionSent, UnsubscriptionSent
<1>6. CASE WaitOpens(c) \/ WaitCannotOpen(c) \/ WaitEnds(c)
    BY <1>6 DEF WaitOpens, WaitCannotOpen, WaitEnds
<1>7. CASE WaitReceives(c)
    <2>1. Head(capBuf) \in Message
        BY <1>7, HeadTailProperties DEF WaitReceives, ClientReceives, TypeOK
    <2> QED
        BY <1>7, <2>1, DecodedIsEntry DEF WaitReceives
<1>8. CASE AssignmentAccepted(c) \/ AssignmentRefused(c)
    BY <1>8 DEF AssignmentAccepted, AssignmentRefused
<1> QED
    BY <1>1, <1>2, <1>3, <1>4, <1>5, <1>6, <1>7, <1>8 DEF ClientContinues

LEMMA StepKeepsTypes ==
    ASSUME ProtocolTypeOK, TypeOK', [ProtocolNext]_protocolVars
    PROVE  ProtocolTypeOK'
<1>1. CASE WithClients(ServerStep)
    BY <1>1 DEF WithClients, clientVars, ProtocolTypeOK
<1>2. CASE \E c \in Clients \ Strangers : ClientCalls(c) \/ ClientRuns(c)
    <2>1. PICK c \in Clients \ Strangers : ClientCalls(c) \/ ClientRuns(c)
        BY <1>2
    <2>2. CASE ClientCalls(c)
        BY <2>2, ProtocolAssumption
           DEF ClientCalls, Subscribe, Unsubscribe, Calls, Goes, At, Returns, ProtocolTypeOK
    <2>3. CASE ClientRuns(c)
        BY <2>3, ContinuesKeepsTypes DEF ClientRuns
    <2> QED
        BY <2>1, <2>2, <2>3
<1>3. CASE \E c \in Strangers : StrangerStep(c)
    BY <1>3 DEF StrangerStep, clientVars, ProtocolTypeOK
<1>4. CASE UNCHANGED protocolVars
    BY <1>4 DEF protocolVars, clientVars, ProtocolTypeOK
<1> QED
    BY <1>1, <1>2, <1>3, <1>4 DEF ProtocolNext

\* A call of subscribe returns SUCCESS or one of the errors the README names,
\* and no CAP error; what a client has in its hands is a decoded frame.
THEOREM ProtocolTypes == ProtocolSpec => []ProtocolTypeOK
<1>1. ProtocolInit /\ TypeOK => ProtocolTypeOK
    BY ProtocolAssumption DEF ProtocolInit, ProtocolTypeOK
<1>2. ProtocolSpec => []TypeOK
    BY ProtocolIsCapServer, TypeCorrect, PTL
<1>3. ProtocolTypeOK /\ TypeOK /\ TypeOK' /\ [ProtocolNext]_protocolVars => ProtocolTypeOK'
    BY StepKeepsTypes
<1> QED
    BY <1>1, <1>2, <1>3, PTL DEF ProtocolSpec

-----------------------------------------------------------------------------
(* The clients are served.  The argument is that of a token.  Of a client   *)
(* that the server informed there is one thing at a time: its assignment on *)
(* its way to it, or its own opinion that it is subscribed, or its          *)
(* unsubscription on its way to the server; and while there is one of them, *)
(* the server serves it.                                                    *)

Settled(c) == c \in joined /\ cpc[c] # "unsub_close"

\* The token of c is in one place, and the server serves c while it is in one.
Tied(c) ==
    /\ Settled(c) \/ Coming(c) \/ Going(c) => c \in told
    /\ ~(Settled(c) /\ Coming(c)) /\ ~(Settled(c) /\ Going(c)) /\ ~(Coming(c) /\ Going(c))
    /\ got[c] = Assigned(c) => Assigned(c) \notin Within(capBuf)
    /\ cur = Leaving(c) => Leaving(c) \notin {held} \cup Within(inbox) \cup Within(capBuf)
    /\ Leaving(c) \in Within(inbox) => Leaving(c) \notin {held} \cup Within(capBuf)
    /\ held = Leaving(c) => Leaving(c) \notin Within(capBuf)

\* Without failing allocations every assignment is a good one.
NoRefusals ==
    /\ answer = "SUCCESS"
    /\ \A m \in Within(capBuf) : m.type # "FS_ERROR"
    /\ \A c \in Clients : got[c].type # "FS_ERROR"

UnsubscribersAreJoined ==
    \A c \in Clients : cpc[c] \in {"unsub_open", "unsub_write", "unsub_close"} => c \in joined

EndedServersLeave == mpc \in {"dead", "freed"} => stale = Clients

ServedInductive ==
    /\ NoRefusals
    /\ UnsubscribersAreJoined
    /\ EndedServersLeave
    /\ \A c \in Clients \ stale : Tied(c)

-----------------------------------------------------------------------------
(* What is within a queue *)

LEMMA WithinFacts ==
    /\ Within(<<>>) = {}
    /\ \A q \in Seq(Message), m \in Message : Within(Append(q, m)) = Within(q) \cup {m}
    /\ \A q \in Seq(Entry), m \in Entry : Within(Append(q, m)) = Within(q) \cup {m}
    /\ \A q \in Seq(Message) \cup Seq(Entry) : q # <<>> => Head(q) \in Within(q)
<1>1. Within(<<>>) = {}
    BY DEF Within
<1>2. ASSUME NEW S, NEW q \in Seq(S), NEW m \in S
      PROVE  Within(Append(q, m)) = Within(q) \cup {m}
    <2>1. /\ Len(q) \in Nat
          /\ DOMAIN q = 1..Len(q)
          /\ DOMAIN Append(q, m) = 1..(Len(q) + 1)
          /\ \A i \in 1..Len(q) : Append(q, m)[i] = q[i]
          /\ Append(q, m)[Len(q) + 1] = m
        BY LenProperties, AppendProperties
    <2> DEFINE r == Append(q, m)
    <2> HIDE DEF r
    <2>2. {r[i] : i \in 1..(Len(q) + 1)} = {q[i] : i \in 1..Len(q)} \cup {m}
        BY <2>1 DEF r
    <2> QED
        BY <2>1, <2>2 DEF Within, r
<1>3. ASSUME NEW S, NEW q \in Seq(S), q # <<>>
      PROVE  Head(q) \in Within(q)
    <2>1. Len(q) \in Nat /\ Len(q) # 0 /\ DOMAIN q = 1..Len(q) /\ Head(q) = q[1]
        BY <1>3, EmptySeq, LenProperties, HeadTailProperties
    <2> QED
        BY <2>1 DEF Within
<1> QED
    BY <1>1, <1>2, <1>3

\* The slots that message_inbox_dequeue leaves are nobody's unsubscription.
LEMMA DequeuedIsNobodys ==
    ASSUME NEW q, NEW c
    PROVE  Leaving(c) \notin Within(Dequeued(q))
BY DEF Within, Dequeued, Leaving, Junk

\* What the last one to close the CAP leaves in it was in it.
LEMMA KeptIsLess ==
    ASSUME NEW io, NEW l, NEW m
    PROVE  Within(Kept(io, l, m)) \subseteq Within(capBuf)
BY WithinFacts DEF Kept

\* Decoding makes no request and no assignment of a frame that is none.
LEMMA DecodedFacts ==
    ASSUME NEW m \in Message, NEW c
    PROVE  /\ Decode(m) = Leaving(c) => m = Leaving(c)
           /\ Decode(m) = Assigned(c) => m = Assigned(c)
           /\ Decode(m).type = "FS_ERROR" => m.type = "FS_ERROR"
BY DEF Decode, Leaving, Assigned, Dangling

LEMMA RecordFacts ==
    /\ \A c, d : Leaving(c) = Leaving(d) => c = d
    /\ \A c, d : Assigned(c) = Assigned(d) => c = d
    /\ \A c, d : Assigned(c) # Leaving(d)
    /\ \A c : /\ NoEntry # Leaving(c) /\ NoEntry # Assigned(c)
              /\ ReadError # Leaving(c) /\ Junk # Leaving(c)
              /\ Assigned(c).type # "FS_ERROR" /\ Leaving(c).type # "FS_ERROR"
    /\ NoEntry.type # "FS_ERROR"
<1>1. \A c, d : Leaving(c) = Leaving(d) => Leaving(c).client = Leaving(d).client
    OBVIOUS
<1>2. \A c, d : Assigned(c) = Assigned(d) => Assigned(c).client = Assigned(d).client
    OBVIOUS
<1>3. \A c, d : Assigned(c) = Leaving(d) => Assigned(c).type = Leaving(d).type
    OBVIOUS
<1>4. \A c : /\ NoEntry = Leaving(c) => NoEntry.type = Leaving(c).type
             /\ NoEntry = Assigned(c) => NoEntry.type = Assigned(c).type
             /\ ReadError = Leaving(c) => ReadError.type = Leaving(c).type
             /\ Junk = Leaving(c) => Junk.type = Leaving(c).type
    OBVIOUS
<1> QED
    BY <1>1, <1>2, <1>3, <1>4 DEF Leaving, Assigned, NoEntry, ReadError, Junk

-----------------------------------------------------------------------------
(* The server's steps *)

\* Steps after which nothing is anywhere it was not, and nobody is told or untold.
LEMMA LosingStep ==
    ASSUME ServedInductive, UNCHANGED <<told, answer, clientVars>>,
           Within(capBuf)' \subseteq Within(capBuf),
           Within(inbox)' \subseteq Within(inbox),
           held' \in {held, NoEntry, ReadError}, cur' \in {cur, NoEntry},
           NEW c \in Clients \ stale
    PROVE  Tied(c)'
<1>1. Tied(c)
    BY DEF ServedInductive
<1>2. held' = Leaving(c) => held = Leaving(c)
    BY RecordFacts
<1>3. cur' = Leaving(c) => cur = Leaving(c)
    BY RecordFacts
<1>4. Going(c)' => Going(c)
    BY <1>2, <1>3 DEF Going, Leaving
<1>5. Coming(c)' => Coming(c)
    BY DEF Coming, Assigned, clientVars
<1>6. Settled(c)' = Settled(c)
    BY DEF Settled, clientVars
<1> HIDE DEF Going, Coming, Settled
<1> QED
    BY <1>1, <1>2, <1>3, <1>4, <1>5, <1>6 DEF Tied, Leaving, Assigned, clientVars

\* The clients an ended server leaves are those of stale, who are not Tied.
LEMMA EndingStep ==
    ASSUME ServedInductive, mpc' \in {"dead", "freed"}, WithClients(ServerStep),
           answer' = "SUCCESS", Within(capBuf)' \subseteq Within(capBuf)
    PROVE  ServedInductive'
BY DEF ServedInductive, WithClients, clientVars, NoRefusals, UnsubscribersAreJoined,
       EndedServersLeave

\* The steps of a server that lives.
LEMMA LivingStep ==
    ASSUME ServedInductive, WithClients(ServerStep), mpc' \notin {"dead", "freed"},
           answer' = "SUCCESS", \A m \in Within(capBuf)' : m.type # "FS_ERROR",
           \A c \in Clients \ stale' : Tied(c)'
    PROVE  ServedInductive'
BY DEF ServedInductive, WithClients, clientVars, NoRefusals, UnsubscribersAreJoined,
       EndedServersLeave

\* If nobody is told anew, the clients an ended server left stay what they are.
LEMMA NobodyInformed ==
    ASSUME WithClients(ServerStep), mpc' \notin {"dead", "freed"}, told' \subseteq told,
           stale \subseteq Clients
    PROVE  stale' = stale
BY DEF WithClients

\* message_inbox_dequeue.
LEMMA DequeueTied ==
    ASSUME ServedInductive, TypeOK, Dequeue, UNCHANGED clientVars,
           NEW c \in Clients \ stale
    PROVE  Tied(c)'
<1>1. Tied(c)
    BY DEF ServedInductive
<1>2. /\ cur' = Head(inbox) /\ cur' \in Within(inbox)
      /\ Leaving(c) \notin Within(inbox)'
      /\ UNCHANGED <<told, held, capBuf>>
    BY WithinFacts, DequeuedIsNobodys DEF Dequeue, TypeOK, listenerVars, capVars
<1>3. Coming(c)' = Coming(c) /\ Settled(c)' = Settled(c)
    BY <1>2 DEF Coming, Settled, Assigned, clientVars
<1>4. Going(c)' => Going(c)
    BY <1>2 DEF Going, Leaving
<1> HIDE DEF Coming, Settled, Going
<1> QED
    BY <1>1, <1>2, <1>3, <1>4 DEF Tied, Leaving, Assigned, clientVars

\* A read of the listener: the first frame is kept, the others are gone.
LEMMA ReceiveTied ==
    ASSUME ServedInductive, TypeOK, ListenerReceives, UNCHANGED clientVars,
           NEW c \in Clients \ stale
    PROVE  Tied(c)'
<1>1. Tied(c)
    BY DEF ServedInductive
<1>2. /\ Head(capBuf) \in Message /\ Head(capBuf) \in Within(capBuf)
      /\ held' = IF held = NoEntry THEN Decode(Head(capBuf)) ELSE held
      /\ Within(capBuf)' = {}
      /\ UNCHANGED <<told, inbox, cur>>
    BY WithinFacts, HeadTailProperties DEF ListenerReceives, TypeOK, mainVars, sharedVars
<1>3. held' = Leaving(c) => held = Leaving(c) \/ (held = NoEntry /\ Leaving(c) \in Within(capBuf))
    BY <1>2, DecodedFacts
<1>4. Settled(c)' = Settled(c) /\ (Coming(c)' => Coming(c))
    BY <1>2 DEF Coming, Settled, Assigned, clientVars
<1>5. Going(c)' => Going(c)
    BY <1>2, <1>3 DEF Going, Leaving
<1> HIDE DEF Coming, Settled, Going
<1> QED
    BY <1>1, <1>2, <1>3, <1>4, <1>5 DEF Tied, Leaving, Assigned, clientVars

\* message_inbox_push.
LEMMA PushTied ==
    ASSUME ServedInductive, TypeOK, EntryInHand, ListenerPushes, UNCHANGED clientVars,
           NEW c \in Clients \ stale
    PROVE  Tied(c)'
<1>1. Tied(c)
    BY DEF ServedInductive
<1>2. /\ held' = NoEntry
      /\ Within(inbox)' \subseteq Within(inbox) \cup {held}
      /\ UNCHANGED <<told, cur, capBuf>>
    BY WithinFacts DEF ListenerPushes, ListenerGoes, TypeOK, EntryInHand, mainVars, capVars
<1>3. Settled(c)' = Settled(c) /\ Coming(c)' = Coming(c)
    BY <1>2 DEF Coming, Settled, Assigned, clientVars
<1>4. Going(c)' => Going(c)
    BY <1>2, RecordFacts DEF Going, Leaving
<1> HIDE DEF Coming, Settled, Going
<1> QED
    BY <1>1, <1>2, <1>3, <1>4, RecordFacts DEF Tied, Leaving, Assigned, clientVars

\* cap_manage_unsubscription takes the token of the client out of the world; no
\* other client is concerned.
LEMMA UnsubscribedTied ==
    ASSUME ServedInductive, TypeOK, Unsubscribed, UNCHANGED clientVars,
           NEW c \in Clients \ stale
    PROVE  Tied(c)'
<1>1. Tied(c)
    BY DEF ServedInductive
<1>2. /\ cur.type = "UNSUBSCRIPTION"
      /\ told' = told \ {cur.client} /\ cur' = NoEntry
      /\ UNCHANGED <<held, inbox, capBuf>>
    BY DEF Unsubscribed, Handling, Handled, listenerVars, capVars
<1>3. Settled(c)' = Settled(c) /\ Coming(c)' = Coming(c)
    BY <1>2 DEF Coming, Settled, Assigned, clientVars
<1>4. Going(c)' => Going(c)
    BY <1>2, RecordFacts DEF Going, Leaving
<1>5. cur.client = c => cur = Leaving(c)
    <2>1. cur \in Message
        BY <1>2 DEF TypeOK, Entry, NoEntry, Dangling, ReadError, Junk
    <2> QED
        BY <1>2, <2>1 DEF Message, Leaving
<1>6. cur = Leaving(c) => ~Going(c)' /\ ~Coming(c) /\ ~Settled(c)
    BY <1>1, <1>2, RecordFacts DEF Tied, Going, Leaving
<1>7. cur' # Leaving(c)
    BY <1>2, RecordFacts
<1> HIDE DEF Coming, Settled, Going
<1> QED
    BY <1>1, <1>2, <1>3, <1>4, <1>5, <1>6, <1>7 DEF Tied, Leaving, Assigned, clientVars

\* pipe_send of an assignment: its client was not told, so nothing of it was
\* anywhere, also when it was a client that an ended server had left.
LEMMA WriteTied ==
    ASSUME ServedInductive, TypeOK, EntryInHand, AnnouncedServed, SendWrites,
           UNCHANGED clientVars, NEW c \in Clients,
           c \in stale => c \in told' \ told /\ ~Remains(c)
    PROVE  Tied(c)'
<1>1. /\ cur \in Message /\ Assignment = Assigned(cur.client)
      /\ told' = told \cup {cur.client} /\ cur.client \notin told
      /\ capBuf' = Append(capBuf, Assignment)
      /\ UNCHANGED <<held, inbox, cur>>
    BY DEF ServedInductive, NoRefusals, EntryInHand, AnnouncedServed, SendWrites, Pending,
           Answering, Assignment, Assigned, listenerVars, sharedVars
<1>2. Assignment \in Message
    BY <1>1 DEF Assigned, Message, AssignmentTypes
<1>3. Within(capBuf)' = Within(capBuf) \cup {Assigned(cur.client)}
    BY <1>1, <1>2, WithinFacts DEF TypeOK
<1>4. Settled(c)' = Settled(c) /\ Going(c)' = Going(c)
    BY <1>1, <1>3, RecordFacts DEF Going, Settled, Leaving, clientVars
<1>5. Leaving(c) \in Within(capBuf)' => Leaving(c) \in Within(capBuf)
    BY <1>3, RecordFacts
<1>6. got'[c] = got[c]
    BY DEF clientVars
<1>7. CASE c # cur.client
    <2>1. Assigned(c) \in Within(capBuf)' => Assigned(c) \in Within(capBuf)
        BY <1>3, <1>7, RecordFacts
    <2>2. Coming(c)' => Coming(c)
        BY <1>6, <2>1 DEF Coming, Assigned
    <2>3. Tied(c)
        BY <1>1, <1>7 DEF ServedInductive
    <2> HIDE DEF Coming, Settled, Going
    <2> QED
        BY <1>1, <1>4, <1>5, <1>6, <2>1, <2>2, <2>3 DEF Tied, Leaving, Assigned
<1>8. CASE c = cur.client
    <2>1. ~Settled(c) /\ ~Going(c) /\ ~Coming(c)
        BY <1>1, <1>8 DEF ServedInductive, Tied, Remains, Settled
    <2>2. got[c] # Assigned(c) /\ Leaving(c) \notin {held, cur} \cup Within(inbox) \cup Within(capBuf)
        BY <2>1 DEF Going, Coming
    <2> HIDE DEF Coming, Settled, Going
    <2> QED
        BY <1>1, <1>4, <1>5, <1>6, <1>8, <2>1, <2>2 DEF Tied, Leaving, Assigned
<1> QED
    BY <1>7, <1>8

\* What all other steps of the server have in common.
Loses ==
    /\ answer' = "SUCCESS"
    /\ Within(capBuf)' \subseteq Within(capBuf)
    /\ Within(inbox)' \subseteq Within(inbox)
    /\ held' \in {held, NoEntry, ReadError} /\ cur' \in {cur, NoEntry}
    /\ told' = told \/ mpc' \in {"dead", "freed"} \/ (mpc \in {"dead", "freed"} /\ told' = {})

LEMMA CrashLoses == Crash => Loses
BY WithinFacts, KeptIsLess DEF Crash, Forget, Loses

LEMMA MainCallLoses ==
    ASSUME answer = "SUCCESS", MainCall
    PROVE  Loses
<1>1. CASE ServerInit
    BY <1>1, WithinFacts DEF ServerInit, Forget, capVars, Loses
<1>2. CASE CleanupNotRunning
    BY <1>2, WithinFacts DEF CleanupNotRunning, listenerVars, capVars, Loses
<1>3. CASE ~(ServerInit \/ CleanupNotRunning)
    BY <1>3 DEF MainCall, StartRejected, StartFails, StartCapListener, RejectedCall,
        StopCapListener, ProcessCapOnce, ProcessCapAll, listenerVars, sharedVars, capVars, Loses
<1> QED
    BY <1>1, <1>2, <1>3

LEMMA MainStepLoses ==
    ASSUME answer = "SUCCESS", "resources" \notin Faults, "refusal" \notin Faults,
           MainStep, ~Dequeue, ~Unsubscribed, ~SendWrites
    PROVE  Loses
<1>1. CASE StopJoins \/ CleanupJoins
    BY <1>1, WithinFacts DEF StopJoins, CleanupJoins, Joined, Loses
<1>2. CASE \/ JoinFails \/ DequeueCrashes \/ HandleReadError \/ HandleJunk
           \/ HandleDangling \/ HandleMalformed \/ SubscriptionDuplicate
           \/ UnsubscriptionUnknown \/ SendBreaks
    BY <1>2, CrashLoses
       DEF JoinFails, DequeueCrashes, HandleReadError, HandleJunk, HandleDangling,
           HandleMalformed, SubscriptionDuplicate, UnsubscriptionUnknown, SendBreaks,
           Handled, listenerVars, sharedVars, capVars, Loses
<1>3. CASE SubscriptionNoWorker \/ SubscriptionBadAlloc \/ SubscriptionStopsOwner
    BY <1>3 DEF SubscriptionNoWorker, SubscriptionBadAlloc, SubscriptionStopsOwner
<1>4. CASE SendCloses
    BY <1>4, KeptIsLess DEF SendCloses, Handled, listenerVars, Loses
<1>5. CASE \/ InboxIsEmpty \/ SubscriptionAccepted \/ UnsubscriptionNoWorkers
           \/ BlockSlept \/ SendOpens \/ SendOpenFails
    BY <1>5 DEF InboxIsEmpty, SubscriptionAccepted, UnsubscriptionNoWorkers, BlockSlept,
        SendOpens, SendOpenFails, Handled, listenerVars, sharedVars, capVars, Loses
<1> QED
    BY <1>1, <1>2, <1>3, <1>4, <1>5 DEF MainStep

LEMMA ListenerStepLoses ==
    ASSUME answer = "SUCCESS", ListenerStep, ~ListenerReceives, ~ListenerPushes
    PROVE  Loses
<1>1. CASE ListenerCloses
    BY <1>1, KeptIsLess DEF ListenerCloses, mainVars, sharedVars, Loses
<1>2. CASE ~ListenerCloses
    BY <1>2 DEF ListenerStep, ListenerChecks, ListenerPasses, ListenerOpens, ListenerOpenFails,
        ListenerTimesOut, ListenerReadFails, ListenerGoes, mainVars, sharedVars, capVars, Loses
<1> QED
    BY <1>1, <1>2

LEMMA ServerServes ==
    ASSUME ServedInductive, ProtocolTypeOK, Inductive, "resources" \notin Faults,
           "refusal" \notin Faults, WithClients(ServerStep)
    PROVE  ServedInductive'
<1> DEFINE Ended == mpc' \in {"dead", "freed"}
<1>1. /\ TypeOK /\ EntryInHand /\ AnnouncedServed /\ stale \subseteq Clients
      /\ answer = "SUCCESS" /\ \A m \in Within(capBuf) : m.type # "FS_ERROR"
      /\ UNCHANGED clientVars
    BY DEF Inductive, ProtocolTypeOK, ServedInductive, NoRefusals, WithClients
<1>2. CASE Loses
    <2>1. CASE Ended
        BY <1>2, <2>1, EndingStep DEF Loses
    <2>2. CASE ~Ended
        <3>1. stale' = stale
            BY <1>1, <1>2, <2>2, NobodyInformed DEF Loses
        <3>2. CASE mpc \in {"dead", "freed"}
            BY <1>1, <1>2, <2>2, <3>1, <3>2, LivingStep DEF Loses, ServedInductive, EndedServersLeave
        <3>3. CASE mpc \notin {"dead", "freed"}
            <4>1. \A c \in Clients \ stale : Tied(c)'
                BY <1>1, <1>2, <2>2, <3>3, LosingStep DEF Loses
            <4> QED
                BY <1>1, <1>2, <2>2, <3>1, <4>1, LivingStep DEF Loses
        <3> QED
            BY <3>2, <3>3
    <2> QED
        BY <2>1, <2>2
<1>3. CASE Dequeue \/ Unsubscribed
    <2>1. ~Ended /\ answer' = "SUCCESS" /\ told' \subseteq told /\ UNCHANGED capBuf
        BY <1>1, <1>3 DEF Dequeue, Unsubscribed, Handled, Return, capVars
    <2>2. stale' = stale
        BY <1>1, <2>1, NobodyInformed
    <2>3. \A c \in Clients \ stale : Tied(c)'
        BY <1>1, <1>3, DequeueTied, UnsubscribedTied
    <2>4. Within(capBuf)' = Within(capBuf)
        BY <2>1
    <2> QED
        BY <1>1, <2>1, <2>2, <2>3, <2>4, LivingStep
<1>4. CASE ListenerReceives \/ ListenerPushes
    <2>1. /\ answer' = "SUCCESS" /\ told' = told /\ mpc' = mpc
          /\ capBuf' \in {capBuf, <<>>}
        BY <1>1, <1>4 DEF ListenerReceives, ListenerPushes, mainVars, capVars
    <2>2. Within(capBuf)' \subseteq Within(capBuf)
        BY <2>1, WithinFacts
    <2>3. CASE Ended
        BY <2>1, <2>2, <2>3, EndingStep
    <2>4. CASE ~Ended
        <3>1. stale' = stale
            BY <1>1, <2>1, <2>4, NobodyInformed
        <3>2. \A c \in Clients \ stale : Tied(c)'
            BY <1>1, <1>4, ReceiveTied, PushTied
        <3> QED
            BY <1>1, <2>1, <2>2, <2>4, <3>1, <3>2, LivingStep
    <2> QED
        BY <2>3, <2>4
<1>5. CASE SendWrites
    <2>1. ~Ended /\ answer' = "SUCCESS"
        BY <1>1, <1>5 DEF SendWrites
    <2>2. \A c \in Clients \ stale' : c \in stale => c \in told' \ told /\ ~Remains(c)
        BY <2>1 DEF WithClients
    <2>3. \A c \in Clients \ stale' : Tied(c)'
        BY <1>1, <1>5, <2>2, WriteTied
    <2>4. Assignment \in Message /\ Assignment.type # "FS_ERROR"
        BY <1>1, <1>5 DEF EntryInHand, SendWrites, Answering, Assignment, Message, AssignmentTypes
    <2>5. Within(capBuf)' = Within(capBuf) \cup {Assignment}
        BY <1>1, <1>5, <2>4, WithinFacts DEF SendWrites, TypeOK
    <2> QED
        BY <1>1, <2>1, <2>3, <2>4, <2>5, LivingStep
<1>6. CASE \/ Killed \/ MainCall
           \/ MainStep /\ ~(Dequeue \/ Unsubscribed \/ SendWrites)
           \/ ListenerStep /\ ~(ListenerReceives \/ ListenerPushes)
    BY <1>1, <1>2, <1>6, CrashLoses, MainCallLoses, MainStepLoses, ListenerStepLoses DEF Killed
<1> QED
    BY <1>3, <1>4, <1>5, <1>6 DEF WithClients, ServerStep

-----------------------------------------------------------------------------
(* The clients' steps *)

\* No client's step touches the server's memory.
ServerSame == UNCHANGED <<mainVars, listenerVars, sharedVars>>

LEMMA ClosesSame ==
    ASSUME NEW c \in Clients, Closes(c)
    PROVE  ServerSame /\ Within(capBuf)' \subseteq Within(capBuf)
<1>1. CASE cio[c] = "none"
    BY <1>1 DEF Closes, ServerSame, vars, capVars
<1>2. CASE cio[c] # "none"
    BY <1>2, KeptIsLess DEF Closes, ClientCloses, ServerSame
<1> QED
    BY <1>1, <1>2

\* What a step of client d leaves as it is for the token of client c.
Harmless(c) ==
    /\ Leaving(c) \in Within(capBuf)' => Leaving(c) \in Within(capBuf)
    /\ Assigned(c) \in Within(capBuf)' => Assigned(c) \in Within(capBuf)
    /\ got'[c] \in {got[c], NoEntry}
    /\ Settled(c)' => Settled(c)

LEMMA HarmlessTied ==
    ASSUME NEW c \in Clients, Tied(c), ServerSame, Harmless(c)
    PROVE  Tied(c)'
<1>1. UNCHANGED <<told, held, cur, inbox>>
    BY DEF ServerSame, mainVars, listenerVars, sharedVars
<1>2. got'[c] = Assigned(c) => got[c] = Assigned(c)
    BY RecordFacts DEF Harmless
<1>3. (Coming(c)' => Coming(c)) /\ (Going(c)' => Going(c))
    BY <1>1, <1>2 DEF Harmless, Coming, Going, Assigned, Leaving
<1> HIDE DEF Coming, Going, Settled
<1> QED
    BY <1>1, <1>2, <1>3 DEF Harmless, Tied, Assigned, Leaving

\* A frame that is neither an unsubscription nor an assignment.
LEMMA OtherWritten ==
    ASSUME TypeOK, NEW d \in Clients, NEW type \in {"SUBSCRIPTION"} \cup NoiseTypes,
           ClientWrites(d, type), NEW c \in Clients
    PROVE  /\ ServerSame
           /\ Leaving(c) \in Within(capBuf)' => Leaving(c) \in Within(capBuf)
           /\ Assigned(c) \in Within(capBuf)' => Assigned(c) \in Within(capBuf)
           /\ \A m \in Within(capBuf)' : m \in Within(capBuf) \/ m.type # "FS_ERROR"
<1> DEFINE m == [type |-> type, client |-> d]
<1>1. m \in Message /\ m.type \notin {"UNSUBSCRIPTION", "ASSIGNMENT", "FS_ERROR"}
    BY DEF Message, RequestTypes, NoiseTypes
<1>2. Within(capBuf)' = Within(capBuf) \cup {m}
    BY <1>1, WithinFacts DEF ClientWrites, TypeOK
<1>3. m # Leaving(c) /\ m # Assigned(c)
    BY <1>1 DEF Leaving, Assigned
<1> QED
    BY <1>1, <1>2, <1>3 DEF ClientWrites, ServerSame

\* octopipes_unsubscribe: the token goes from the client to the CAP.
LEMMA UnsubscriptionTied ==
    ASSUME ServedInductive, ProtocolTypeOK, NEW d \in Clients, UnsubscriptionWritten(d),
           NEW c \in Clients \ stale
    PROVE  Tied(c)'
<1>1. Tied(c)
    BY DEF ServedInductive
<1>2. /\ Within(capBuf)' = Within(capBuf) \cup {Leaving(d)}
      /\ ServerSame
    <2>1. Leaving(d) \in Message
        BY DEF Leaving, Message, RequestTypes
    <2>2. capBuf' = Append(capBuf, Leaving(d)) /\ ServerSame
        BY DEF UnsubscriptionWritten, ClientWrites, Leaving, ServerSame
    <2> QED
        BY <2>1, <2>2, WithinFacts DEF ProtocolTypeOK, TypeOK
<1>3. /\ UNCHANGED <<joined, got>> /\ cpc[d] = "unsub_write"
      /\ cpc' = [cpc EXCEPT ![d] = "unsub_close"]
    BY DEF UnsubscriptionWritten, Goes, At
<1>4. Assigned(c) \in Within(capBuf)' <=> Assigned(c) \in Within(capBuf)
    BY <1>2, RecordFacts
<1>5. UNCHANGED <<told, held, cur, inbox>>
    BY <1>2 DEF ServerSame, mainVars, listenerVars, sharedVars
<1>6. CASE c # d
    <2>1. Settled(c)' = Settled(c)
        BY <1>3, <1>6 DEF Settled, ProtocolTypeOK
    <2>2. Leaving(c) \in Within(capBuf)' => Leaving(c) \in Within(capBuf)
        BY <1>2, <1>6, RecordFacts
    <2> HIDE DEF Settled
    <2> QED
        BY <1>1, <1>2, <1>3, <1>4, <2>1, <2>2, HarmlessTied DEF Harmless
<1>7. CASE c = d
    <2>1. Settled(c) /\ ~Settled(c)'
        BY <1>3, <1>7 DEF ServedInductive, UnsubscribersAreJoined, Settled, ProtocolTypeOK
    <2>2. c \in told /\ ~Coming(c) /\ ~Going(c)
        BY <1>1, <2>1 DEF Tied
    <2>3. ~Coming(c)'
        BY <1>3, <1>4, <2>2 DEF Coming, Assigned
    <2>4. Leaving(c) \notin {held, cur} \cup Within(inbox) /\ got[c] # Assigned(c)
        BY <2>2 DEF Going, Coming
    <2> HIDE DEF Coming, Going, Settled
    <2> QED
        BY <1>3, <1>5, <2>1, <2>2, <2>3, <2>4 DEF Tied, Assigned, Leaving
<1> QED
    BY <1>6, <1>7

\* A client's read takes all that is in the CAP, other clients' tokens included.
LEMMA WaitTied ==
    ASSUME ServedInductive, ProtocolTypeOK, NEW d \in Clients, WaitReceives(d),
           NEW c \in Clients \ stale
    PROVE  Tied(c)'
<1>1. Tied(c)
    BY DEF ServedInductive
<1>2. Head(capBuf) \in Message /\ Head(capBuf) \in Within(capBuf)
    BY WithinFacts, HeadTailProperties DEF WaitReceives, ClientReceives, ProtocolTypeOK, TypeOK
<1>3. /\ Within(capBuf)' = {} /\ ServerSame /\ UNCHANGED <<cpc, joined>>
      /\ got' = [got EXCEPT ![d] = IF @ = NoEntry THEN Decode(Head(capBuf)) ELSE @]
    BY WithinFacts DEF WaitReceives, ClientReceives, ServerSame
<1>4. got'[c] = got[c] \/ (got[c] = NoEntry /\ got'[c] = Decode(Head(capBuf)))
    BY <1>3 DEF ProtocolTypeOK
<1>5. got'[c] = Assigned(c) => Coming(c)
    BY <1>2, <1>4, DecodedFacts DEF Coming
<1>6. UNCHANGED <<told, held, cur, inbox>>
    BY <1>3 DEF ServerSame, mainVars, listenerVars, sharedVars
<1>7. (Coming(c)' => Coming(c)) /\ (Going(c)' => Going(c)) /\ Settled(c)' = Settled(c)
    BY <1>3, <1>5, <1>6 DEF Coming, Going, Settled, Assigned, Leaving
<1> HIDE DEF Coming, Going, Settled
<1> QED
    BY <1>1, <1>3, <1>6, <1>7 DEF Tied, Assigned, Leaving

\* octopipes_subscribe: the token goes from the assignment to the client's state.
LEMMA AcceptedTied ==
    ASSUME ServedInductive, ProtocolTypeOK, NEW d \in Clients, AssignmentAccepted(d),
           NEW c \in Clients \ stale
    PROVE  Tied(c)'
<1>1. Tied(c)
    BY DEF ServedInductive
<1>2. /\ cpc' = [cpc EXCEPT ![d] = "idle"]
      /\ joined' = joined \cup {d} /\ got' = [got EXCEPT ![d] = NoEntry]
      /\ ServerSame /\ UNCHANGED capBuf
    BY DEF AssignmentAccepted, Goes, ServerSame, vars, capVars
<1>3. UNCHANGED <<told, held, cur, inbox>>
    BY <1>2 DEF ServerSame, mainVars, listenerVars, sharedVars
<1>4. CASE c # d
    <2>1. Settled(c)' = Settled(c) /\ got'[c] = got[c]
        BY <1>2, <1>4 DEF Settled, ProtocolTypeOK
    <2>2. Within(capBuf)' = Within(capBuf)
        BY <1>2
    <2> HIDE DEF Settled
    <2> QED
        BY <1>1, <1>2, <2>1, <2>2, HarmlessTied DEF Harmless
<1>5. CASE c = d
    <2>1. got[c] = Assigned(c)
        <3>1. got[c].type = "ASSIGNMENT" /\ got[c].client = c
            BY <1>5 DEF AssignmentAccepted, AddressedTo, AssignmentTypes, ServedInductive, NoRefusals
        <3>2. got[c] \in Message
            BY <3>1 DEF ProtocolTypeOK, Entry, NoEntry, Dangling, ReadError, Junk
        <3> QED
            BY <3>1, <3>2 DEF Message, Assigned
    <2>2. Coming(c)
        BY <2>1 DEF Coming
    <2>3. got'[c] = NoEntry
        BY <1>2, <1>5 DEF ProtocolTypeOK
    <2>4. ~Coming(c)'
        BY <1>1, <1>2, <2>1, <2>3, RecordFacts DEF Tied, Coming, Assigned
    <2>5. Going(c)' = Going(c)
        BY <1>2, <1>3 DEF Going, Leaving
    <2> HIDE DEF Coming, Going, Settled
    <2> QED
        BY <1>1, <1>2, <1>3, <2>2, <2>3, <2>4, <2>5, RecordFacts DEF Tied, Assigned, Leaving
<1> QED
    BY <1>4, <1>5

\* What a step that moves no token has to keep besides.
LEMMA HarmlessServes ==
    ASSUME ServedInductive, ServerSame, UNCHANGED stale, UnsubscribersAreJoined',
           \A c \in Clients : Harmless(c),
           \A m \in Within(capBuf)' : m \in Within(capBuf) \/ m.type # "FS_ERROR"
    PROVE  ServedInductive'
<1>1. \A c \in Clients \ stale : Tied(c)'
    BY HarmlessTied DEF ServedInductive
<1>2. NoRefusals'
    BY RecordFacts DEF ServedInductive, NoRefusals, Harmless, ServerSame, mainVars
<1>3. EndedServersLeave'
    BY DEF ServedInductive, EndedServersLeave, ServerSame, mainVars
<1> QED
    BY <1>1, <1>2, <1>3 DEF ServedInductive

\* Steps of a call that only move the client on, and at most empty the CAP.
LEMMA MovingServes ==
    ASSUME ServedInductive, ProtocolTypeOK, NEW d \in Clients, UNCHANGED stale,
           \/ Subscribe(d) \/ Unsubscribe(d) \/ SendOpensCap(d) \/ SendGivesUp(d)
           \/ WrittenToDeleted(d) \/ WriteBreaks(d) \/ SubscriptionSent(d)
           \/ UnsubscriptionSent(d) \/ WaitOpens(d) \/ WaitCannotOpen(d) \/ WaitEnds(d)
           \/ AssignmentRefused(d)
    PROVE  ServedInductive'
<1>1. ServerSame /\ Within(capBuf)' \subseteq Within(capBuf)
    <2>1. CASE WriteBreaks(d) \/ SubscriptionSent(d) \/ UnsubscriptionSent(d) \/ WaitEnds(d)
        BY <2>1, ClosesSame DEF WriteBreaks, SubscriptionSent, UnsubscriptionSent, WaitEnds
    <2>2. CASE ~(WriteBreaks(d) \/ SubscriptionSent(d) \/ UnsubscriptionSent(d) \/ WaitEnds(d))
        BY <2>2 DEF Subscribe, Unsubscribe, SendOpensCap, SendGivesUp, WrittenToDeleted,
            WaitOpens, WaitCannotOpen, AssignmentRefused, ClientOpensToWrite, ClientOpensToRead,
            ServerSame, vars, capVars
    <2> QED
        BY <2>1, <2>2
<1>2. \A c \in Clients : got'[c] \in {got[c], NoEntry}
    BY DEF Subscribe, Unsubscribe, SendOpensCap, SendGivesUp, WrittenToDeleted, WriteBreaks,
           SubscriptionSent, UnsubscriptionSent, WaitOpens, WaitCannotOpen, WaitEnds,
           AssignmentRefused, Calls, ProtocolTypeOK
<1>3. /\ \A c \in Clients : Settled(c)' => Settled(c)
      /\ UnsubscribersAreJoined'
    <2> USE DEF ServedInductive, UnsubscribersAreJoined, ProtocolTypeOK, Settled, Goes, At
    <2>1. CASE Subscribe(d) \/ Unsubscribe(d)
        BY <2>1 DEF Subscribe, Unsubscribe, Calls
    <2>2. CASE SendOpensCap(d) \/ SendGivesUp(d)
        BY <2>2 DEF SendOpensCap, SendGivesUp, Sending, NextAfterOpen
    <2>3. CASE WrittenToDeleted(d) \/ WriteBreaks(d)
        BY <2>3 DEF WrittenToDeleted, WriteBreaks
    <2>4. CASE SubscriptionSent(d) \/ UnsubscriptionSent(d)
        BY <2>4 DEF SubscriptionSent, UnsubscriptionSent
    <2>5. CASE WaitOpens(d) \/ WaitCannotOpen(d) \/ WaitEnds(d) \/ AssignmentRefused(d)
        BY <2>5 DEF WaitOpens, WaitCannotOpen, WaitEnds, AssignmentRefused
    <2> QED
        BY <2>1, <2>2, <2>3, <2>4, <2>5
<1> QED
    BY <1>1, <1>2, <1>3, HarmlessServes DEF Harmless

LEMMA SubscriptionServes ==
    ASSUME ServedInductive, ProtocolTypeOK, NEW d \in Clients, UNCHANGED stale,
           SubscriptionWritten(d)
    PROVE  ServedInductive'
<1>1. /\ ClientWrites(d, "SUBSCRIPTION") /\ UNCHANGED <<joined, got>>
      /\ cpc[d] = "sub_write" /\ cpc' = [cpc EXCEPT ![d] = "sub_close"]
    BY DEF SubscriptionWritten, Goes, At
<1>2. \A c \in Clients : Settled(c)' => Settled(c)
    BY <1>1 DEF Settled, ProtocolTypeOK
<1>3. UnsubscribersAreJoined'
    BY <1>1 DEF ServedInductive, UnsubscribersAreJoined, ProtocolTypeOK
<1> QED
    BY <1>1, <1>2, <1>3, OtherWritten, HarmlessServes DEF Harmless, ProtocolTypeOK

LEMMA StrangerServes ==
    ASSUME ServedInductive, ProtocolTypeOK, NEW d \in Clients, StrangerStep(d)
    PROVE  ServedInductive'
<1>1. UNCHANGED <<joined, got, cpc, stale>>
    BY DEF StrangerStep, clientVars
<1>2. (\A c \in Clients : Settled(c)' => Settled(c)) /\ UnsubscribersAreJoined'
    BY <1>1 DEF Settled, ServedInductive, UnsubscribersAreJoined
<1>3. CASE ClientOpensToWrite(d) \/ ClientCloses(d)
    <2>1. ServerSame /\ Within(capBuf)' \subseteq Within(capBuf)
        BY <1>3, KeptIsLess DEF ClientOpensToWrite, ClientCloses, ServerSame
    <2> QED
        BY <1>1, <1>2, <2>1, HarmlessServes DEF Harmless
<1>4. CASE \E type \in NoiseTypes : ClientWrites(d, type)
    BY <1>1, <1>2, <1>4, OtherWritten, HarmlessServes DEF Harmless, ProtocolTypeOK
<1> QED
    BY <1>3, <1>4 DEF StrangerStep

\* The steps that move the token.
LEMMA MoverServes ==
    ASSUME ServedInductive, ProtocolTypeOK, NEW d \in Clients, UNCHANGED stale,
           UnsubscriptionWritten(d) \/ WaitReceives(d) \/ AssignmentAccepted(d)
    PROVE  ServedInductive'
<1>1. \A c \in Clients \ stale : Tied(c)'
    BY UnsubscriptionTied, WaitTied, AcceptedTied
<1>2. ServerSame
    BY DEF UnsubscriptionWritten, WaitReceives, AssignmentAccepted, ClientWrites,
           ClientReceives, ServerSame, vars
<1>3. EndedServersLeave'
    BY <1>2 DEF ServedInductive, EndedServersLeave, ServerSame, mainVars
<1>4. UnsubscribersAreJoined'
    BY DEF UnsubscriptionWritten, WaitReceives, AssignmentAccepted, Goes, At,
           ServedInductive, UnsubscribersAreJoined, ProtocolTypeOK
<1>5. NoRefusals'
    <2>1. answer' = "SUCCESS"
        BY <1>2 DEF ServedInductive, NoRefusals, ServerSame, mainVars
    <2>2. CASE UnsubscriptionWritten(d)
        <3>1. Leaving(d) \in Message /\ capBuf' = Append(capBuf, Leaving(d)) /\ got' = got
            BY <2>2 DEF UnsubscriptionWritten, ClientWrites, Leaving, Message, RequestTypes
        <3>2. Within(capBuf)' = Within(capBuf) \cup {Leaving(d)}
            BY <3>1, WithinFacts DEF ProtocolTypeOK, TypeOK
        <3> QED
            BY <2>1, <3>1, <3>2, RecordFacts DEF ServedInductive, NoRefusals
    <2>3. CASE WaitReceives(d)
        <3>1. Head(capBuf) \in Message /\ Head(capBuf) \in Within(capBuf)
            BY <2>3, WithinFacts, HeadTailProperties
               DEF WaitReceives, ClientReceives, ProtocolTypeOK, TypeOK
        <3>2. Decode(Head(capBuf)).type # "FS_ERROR"
            BY <3>1, DecodedFacts DEF ServedInductive, NoRefusals
        <3>3. Within(capBuf)' = {}
            BY <2>3, WithinFacts DEF WaitReceives, ClientReceives
        <3> QED
            BY <2>1, <2>3, <3>2, <3>3 DEF WaitReceives, ProtocolTypeOK, ServedInductive, NoRefusals
    <2>4. CASE AssignmentAccepted(d)
        <3>1. Within(capBuf)' = Within(capBuf)
            BY <2>4 DEF AssignmentAccepted, vars, capVars
        <3> QED
            BY <2>1, <2>4, <3>1, RecordFacts
               DEF AssignmentAccepted, ProtocolTypeOK, ServedInductive, NoRefusals
    <2> QED
        BY <2>2, <2>3, <2>4
<1> QED
    BY <1>1, <1>3, <1>4, <1>5 DEF ServedInductive

-----------------------------------------------------------------------------

LEMMA StepServes ==
    ASSUME ServedInductive, ProtocolTypeOK, Inductive, "resources" \notin Faults,
           "refusal" \notin Faults, [ProtocolNext]_protocolVars
    PROVE  ServedInductive'
<1>1. CASE WithClients(ServerStep)
    BY <1>1, ServerServes
<1>2. CASE \E c \in Clients \ Strangers : ClientCalls(c) \/ ClientRuns(c)
    BY <1>2, MovingServes, SubscriptionServes, MoverServes
       DEF ClientCalls, ClientRuns, ClientContinues
<1>3. CASE \E c \in Strangers : StrangerStep(c)
    BY <1>3, StrangerServes, ProtocolAssumption
<1>4. CASE UNCHANGED protocolVars
    BY <1>4 DEF protocolVars, vars, clientVars, mainVars, listenerVars, sharedVars, capVars,
        ServedInductive, NoRefusals, UnsubscribersAreJoined, EndedServersLeave, Tied,
        Settled, Coming, Going, Within, Leaving, Assigned
<1> QED
    BY <1>1, <1>2, <1>3, <1>4 DEF ProtocolNext

\* Whoever takes itself for subscribed is served (octopipes_subscribe,
\* octopipes_unsubscribe, process_cap_once), whatever the threads' speed, whatever
\* the clients' number, and whatever becomes of the server process, its files and
\* the frames of others, as long as allocations do not fail.
THEOREM SubscribedIsServed ==
    ASSUME "resources" \notin Faults, "refusal" \notin Faults
    PROVE  ProtocolSpec => []Served
<1>1. ProtocolInit => ServedInductive
    <2> SUFFICES ASSUME ProtocolInit PROVE ServedInductive
        OBVIOUS
    <2>1. Within(capBuf) = {} /\ Within(inbox) = {} /\ held = NoEntry /\ cur = NoEntry
        BY WithinFacts DEF ProtocolInit, Init
    <2>2. \A c \in Clients : ~Settled(c) /\ ~Coming(c) /\ ~Going(c)
        BY <2>1, RecordFacts DEF ProtocolInit, Settled, Coming, Going
    <2> HIDE DEF Settled, Coming, Going
    <2> QED
        BY <2>1, <2>2, RecordFacts DEF ProtocolInit, Init, ServedInductive, NoRefusals,
            UnsubscribersAreJoined, EndedServersLeave, Tied
<1>2. ProtocolSpec => [](Inductive /\ ProtocolTypeOK)
    BY ProtocolIsCapServer, Invariance, ProtocolTypes, PTL
<1>3. /\ ServedInductive /\ Inductive /\ ProtocolTypeOK /\ [ProtocolNext]_protocolVars
      => ServedInductive'
    BY StepServes
<1>4. ServedInductive /\ ProtocolTypeOK => Served
    BY DEF ServedInductive, Served, Tied, Settled, ProtocolTypeOK
<1> QED
    BY <1>1, <1>2, <1>3, <1>4, PTL DEF ProtocolSpec
=============================================================================
