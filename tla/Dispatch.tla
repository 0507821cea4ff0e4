------------------------------ MODULE Dispatch ------------------------------
(***************************************************************************)
(* The workers of the octopipes server, src/server.c: one per subscribed    *)
(* client, with a listener thread (worker_loop) that fills its inbox from   *)
(* the client's tx FIFO; and the main thread, which empties the inboxes     *)
(* (octopipes_server_process_first, _once, _all) and writes every message   *)
(* to the rx FIFO of each client subscribed to its remote.  The clients     *)
(* send (octopipes_send_ex) and run octopipes_loop, both of src/client.c.   *)
(***************************************************************************)
EXTENDS Inbox

CONSTANTS
    Clients,         \* client identifiers
    Groups,          \* the other names a message can be sent to
    Subscriptions,   \* the groups each client asks for when it subscribes
    MaxMessages,     \* bound: messages sent, by all clients together
    MaxPending,      \* bound: an error is not pushed on as many inbox entries
    Faults           \* "noise": frames that do not decode; "io": failing open, poll,
                     \* read; "resources": failing malloc

ASSUME DispatchAssumption ==
    /\ Clients \cap Groups = {}
    /\ Subscriptions \in [Clients -> SUBSET Groups]
    /\ MaxMessages \in Nat /\ MaxPending \in Nat
    /\ Faults \subseteq {"noise", "io", "resources"}

VARIABLES
    order,     \* OctopipesServer.workers, by client id
    inbox,     \* OctopipesServerWorker.inbox of each client's worker
    active,    \* the workers whose active flag is set
    lpc,       \* where each worker's listener thread is
    held,      \* what each listener has received and not yet pushed
    tx, rx,    \* the frames in each client's FIFOs, named as the client names them
    sending,   \* the clients that have their tx FIFO open for writing
    looping,   \* the clients whose loop has the rx FIFO open for reading
    got,       \* what a client's loop has received so far
    heard,     \* history: the messages each client's on_received was called with
    mpc,       \* where the main thread is
    call,      \* the public call it is in
    at,        \* the index of the worker whose inbox is looked at
    cur,       \* the inbox entry being dispatched
    target,    \* the index of the worker it is sent to next
    served,    \* a message was processed in this session
    written,   \* history: the clients cur was written to
    rc,        \* what the last call returned, "NONE" while one runs
    sent       \* the messages sent so far

mainVars == <<order, active, mpc, call, at, cur, target, served, written, rc>>
workerVars == <<inbox, lpc, held>>
clientVars == <<sending, looping, got, heard, sent>>
vars == <<mainVars, workerVars, tx, rx, clientVars>>

-----------------------------------------------------------------------------
(* Messages and subscriptions *)

Remotes == Clients \cup Groups

\* No two messages have the same id; the ids of a sender grow.
Message == [type : {"MESSAGE", "GARBAGE"}, id : 1..MaxMessages,
            from : Clients, to : Remotes]
Entry == Message \cup {Dangling, ReadError, Junk}

Registered == {order[i] : i \in DOMAIN order}

\* Faulty variant: strcmp without the comparison with 0.
MatchesOther(c, remote) == \E name \in {c} \cup Subscriptions[c] : name # remote

\* worker_match_subscription: worker_init adds the client's own name to its groups.
Matches(c, remote) == remote = c \/ remote \in Subscriptions[c]

\* pipe_receive and octopipes_decode: of all the frames that the reads of one
\* receive bring, the first is decoded and the others are lost.
Received(e, frames) == IF e = NoEntry /\ frames # <<>> THEN Decode(Head(frames)) ELSE e

\* octopipes_loop calls on_received; a frame that does not decode is reported.
Delivered(c, e) == IF e \in Message THEN [heard EXCEPT ![c] = Append(@, e)] ELSE heard

Reading(c) == lpc[c] \in {"receive", "close"}
WritesTo(c) == mpc \in {"write", "sent"} /\ order[target] = c

Init ==
    /\ order = <<>> /\ active = {}
    /\ inbox = [c \in Clients |-> <<>>]
    /\ lpc = [c \in Clients |-> "none"]
    /\ held = [c \in Clients |-> NoEntry]
    /\ tx = [c \in Clients |-> <<>>] /\ rx = tx
    /\ sending = {} /\ looping = {}
    /\ got = held
    /\ heard = [c \in Clients |-> <<>>]
    /\ mpc = "idle" /\ call = "none" /\ rc = "SUCCESS"
    /\ at = 1 /\ target = 1 /\ cur = NoEntry
    /\ served = FALSE /\ written = {}
    /\ sent = 0

-----------------------------------------------------------------------------
(* Workers come and go: octopipes_server_start_worker and _stop_worker, from   *)
(* the handling of the CAP                                                     *)

StartWorker(c) ==
    /\ mpc = "idle"
    /\ c \notin Registered
    /\ order' = Append(order, c)
    /\ active' = active \cup {c}
    /\ lpc' = [lpc EXCEPT ![c] = "check"]
    /\ UNCHANGED <<mpc, call, at, cur, target, served, written, rc,
                   inbox, held, tx, rx, clientVars>>

StopWorker(c) ==
    /\ mpc = "idle"
    /\ c \in Registered
    /\ active' = active \ {c}
    /\ target' = CHOOSE i \in DOMAIN order : order[i] = c
    /\ mpc' = "join" /\ call' = "stop" /\ rc' = "NONE"
    /\ UNCHANGED <<order, at, cur, served, written, workerVars, tx, rx, clientVars>>

\* The FIFOs are deleted.  A client that reads its rx FIFO keeps it, and gets
\* what is in it; what is in its tx FIFO nobody will read.
Removed(c) ==
    /\ order' = [i \in 1..(Len(order) - 1) |-> IF i < target THEN order[i] ELSE order[i + 1]]
    /\ inbox' = [inbox EXCEPT ![c] = <<>>]
    /\ held' = [held EXCEPT ![c] = NoEntry]
    /\ tx' = [tx EXCEPT ![c] = <<>>]
    /\ rx' = [rx EXCEPT ![c] = <<>>]
    /\ got' = [got EXCEPT ![c] = NoEntry]
    /\ heard' = IF c \in looping THEN Delivered(c, Received(got[c], rx[c])) ELSE heard
    /\ sending' = sending \ {c}
    /\ looping' = looping \ {c}
    /\ mpc' = "idle" /\ call' = "none" /\ target' = 1 /\ rc' = "SUCCESS"
    /\ UNCHANGED <<active, at, cur, served, written, sent>>

\* Faulty variant: worker_cleanup does not wait for the thread.
WorkerLeft == mpc = "join" /\ Removed(order[target]) /\ UNCHANGED lpc

\* pthread_join of worker_cleanup returned.
WorkerJoined ==
    /\ mpc = "join"
    /\ lpc[order[target]] = "done"
    /\ lpc' = [lpc EXCEPT ![order[target]] = "none"]
    /\ Removed(order[target])

-----------------------------------------------------------------------------
(* octopipes_server_process_first, _once and _all *)

MainGoes(from, to) == mpc = from /\ mpc' = to

Crash ==
    /\ mpc' = "dead" /\ rc' = "NONE"
    /\ UNCHANGED <<order, active, call, at, cur, target, served, written,
                   workerVars, tx, rx, clientVars>>

Process(kind) ==
    /\ MainGoes("idle", "next")
    /\ call' = kind /\ rc' = "NONE"
    /\ UNCHANGED <<order, active, at, cur, target, served, written, workerVars, tx, rx, clientVars>>

\* Every return from a call lets go of the entry.
Return(code) ==
    /\ mpc' = "idle" /\ rc' = code
    /\ call' = "none" /\ at' = 1 /\ served' = FALSE
    /\ cur' = NoEntry /\ written' = {} /\ target' = 1
    /\ UNCHANGED <<order, active>>

NextIsEmpty ==
    /\ MainGoes("next", "next")
    /\ at <= Len(order)
    /\ inbox[order[at]] = <<>>
    /\ at' = at + 1
    /\ UNCHANGED <<order, active, call, cur, target, served, written, rc,
                   workerVars, tx, rx, clientVars>>

\* Faulty variant: the entry stays in the inbox.
NextTakenAndKept ==
    /\ MainGoes("next", "dispatch")
    /\ at <= Len(order) /\ inbox[order[at]] # <<>>
    /\ cur' = Head(inbox[order[at]])
    /\ target' = 1
    /\ UNCHANGED <<order, active, call, at, served, written, rc,
                   workerVars, tx, rx, clientVars>>

\* worker_get_next_message.
NextTaken ==
    /\ MainGoes("next", "dispatch")
    /\ at <= Len(order) /\ inbox[order[at]] # <<>>
    /\ cur' = Head(inbox[order[at]])
    /\ inbox' = [inbox EXCEPT ![order[at]] = Dequeued(@)]
    /\ target' = 1
    /\ UNCHANGED <<order, active, call, at, served, written, rc,
                   lpc, held, tx, rx, clientVars>>

\* The shift of message_inbox_dequeue read a pointer realloc does not accept.
NextCrashes ==
    /\ mpc = "next"
    /\ at <= Len(order) /\ Len(inbox[order[at]]) > 1
    /\ Crash

\* The entry at hand is done with: process_first returns, the others go on.
EntryDone(processed) ==
    IF call = "first" /\ processed THEN Return("SUCCESS")
    ELSE /\ mpc' = "next" /\ at' = at + 1
         /\ served' = (served \/ processed)
         /\ cur' = NoEntry /\ written' = {} /\ target' = 1
         /\ UNCHANGED <<order, active, call, rc>>

\* The error of the entry is returned.
DispatchReadError ==
    /\ mpc = "dispatch" /\ cur = ReadError
    /\ Return("READ_FAILED")
    /\ UNCHANGED <<workerVars, tx, rx, clientVars>>

\* Freed memory: it has no remote, or one that nobody has subscribed to, and it
\* is freed again.
DispatchDangling ==
    /\ mpc = "dispatch" /\ cur = Dangling
    /\ \/ Crash
       \/ /\ Return("NO_RECIPIENT") \/ EntryDone(TRUE)
          /\ UNCHANGED <<workerVars, tx, rx, clientVars>>

\* A slot that was never written is NULL, which is taken for an empty inbox, or
\* points anywhere.
DispatchJunk ==
    /\ mpc = "dispatch" /\ cur = Junk
    /\ \/ Crash
       \/ /\ Return("UNKNOWN") \/ EntryDone(FALSE)
          /\ UNCHANGED <<workerVars, tx, rx, clientVars>>

\* octopipes_server_dispatch_message: the worker at target, if the message at
\* hand is for it.
Dispatching == mpc = "dispatch" /\ cur \in Message
Subscriber == Matches(order[target], cur.to)

DispatchSkips ==
    /\ Dispatching
    /\ target <= Len(order) /\ ~Subscriber
    /\ target' = target + 1
    /\ UNCHANGED <<order, active, mpc, call, at, cur, served, written, rc,
                   workerVars, tx, rx, clientVars>>

\* worker_send: the client's loop has its rx FIFO open.
SendOpens ==
    /\ Dispatching /\ mpc' = "write"
    /\ target <= Len(order) /\ Subscriber
    /\ order[target] \in looping
    /\ UNCHANGED <<order, active, call, at, cur, target, served, written, rc,
                   workerVars, tx, rx, clientVars>>

\* Faulty variants: a client that does not read is passed over; the open is
\* tried for ever.
SendSkips ==
    /\ Dispatching
    /\ target <= Len(order) /\ Subscriber
    /\ order[target] \notin looping
    /\ target' = target + 1
    /\ UNCHANGED <<order, active, mpc, call, at, cur, served, written, rc,
                   workerVars, tx, rx, clientVars>>

SendWaits ==
    /\ Dispatching
    /\ target <= Len(order) /\ Subscriber /\ order[target] \notin looping
    /\ UNCHANGED vars

\* It has not for the ttl of the message, and the whole call ends.
SendFails ==
    /\ Dispatching
    /\ target <= Len(order) /\ Subscriber
    /\ order[target] \notin looping
    /\ Return("OPEN_FAILED")
    /\ UNCHANGED <<workerVars, tx, rx, clientVars>>

SendWrites ==
    /\ MainGoes("write", "sent")
    /\ order[target] \in looping
    /\ rx' = [rx EXCEPT ![order[target]] = Append(@, cur)]
    /\ written' = written \cup {order[target]}
    /\ UNCHANGED <<order, active, call, at, cur, target, served, rc,
                   workerVars, tx, clientVars>>

\* The client's loop closed its FIFO in between: SIGPIPE.
SendBreaks ==
    /\ mpc = "write"
    /\ order[target] \notin looping
    /\ Crash

SendCloses ==
    /\ MainGoes("sent", "dispatch")
    /\ rx' = IF order[target] \in looping THEN rx ELSE [rx EXCEPT ![order[target]] = <<>>]
    /\ target' = target + 1
    /\ UNCHANGED <<order, active, call, at, cur, served, written, rc,
                   workerVars, tx, clientVars>>

DispatchDone ==
    /\ Dispatching
    /\ target > Len(order)
    /\ EntryDone(TRUE)
    /\ UNCHANGED <<workerVars, tx, rx, clientVars>>

\* process_all starts again as long as a round has processed something.
RoundEnds ==
    /\ mpc = "next" /\ at > Len(order)
    /\ IF call = "all" /\ served
       THEN /\ at' = 1 /\ served' = FALSE
            /\ UNCHANGED <<order, active, mpc, call, cur, target, written, rc>>
       ELSE Return("SUCCESS")
    /\ UNCHANGED <<workerVars, tx, rx, clientVars>>

-----------------------------------------------------------------------------
(* worker_loop, the listener thread of a worker *)

ListenerGoes(c, from, to) ==
    /\ mpc # "dead"
    /\ lpc[c] = from
    /\ lpc' = [lpc EXCEPT ![c] = to]

\* Faulty variant: the active flag is not looked at again.
ListenerOpensAlways(c) ==
    /\ ListenerGoes(c, "check", "receive")
    /\ UNCHANGED <<mainVars, inbox, held, tx, rx, clientVars>>

\* while (active), and the open of pipe_receive.
ListenerOpens(c) ==
    /\ c \in active
    /\ ListenerGoes(c, "check", "receive")
    /\ UNCHANGED <<mainVars, inbox, held, tx, rx, clientVars>>

ListenerEnds(c) ==
    /\ c \notin active
    /\ ListenerGoes(c, "check", "done")
    /\ UNCHANGED <<mainVars, inbox, held, tx, rx, clientVars>>

Room(c) == Len(inbox[c]) < MaxPending

ListenerOpenFails(c) ==
    /\ "io" \in Faults /\ Room(c)
    /\ c \in active
    /\ ListenerGoes(c, "check", "push")
    /\ held' = [held EXCEPT ![c] = ReadError]
    /\ UNCHANGED <<mainVars, inbox, tx, rx, clientVars>>

ListenerReceives(c) ==
    /\ ListenerGoes(c, "receive", "receive")
    /\ tx[c] # <<>>
    /\ held' = [held EXCEPT ![c] = Received(@, tx[c])]
    /\ tx' = [tx EXCEPT ![c] = <<>>]
    /\ UNCHANGED <<mainVars, inbox, rx, clientVars>>

ListenerTimesOut(c) ==
    /\ ListenerGoes(c, "receive", "close")
    /\ tx[c] = <<>>
    /\ UNCHANGED <<mainVars, inbox, held, tx, rx, clientVars>>

ListenerReadFails(c) ==
    /\ "io" \in Faults /\ Room(c)
    /\ ListenerGoes(c, "receive", "close")
    /\ held' = IF held[c] = NoEntry THEN [held EXCEPT ![c] = ReadError] ELSE held
    /\ UNCHANGED <<mainVars, inbox, tx, rx, clientVars>>

\* Faulty variant: having received nothing is reported like an error.
ListenerClosesAndReports(c) ==
    /\ ListenerGoes(c, "close", "push")
    /\ tx' = IF c \in sending THEN tx ELSE [tx EXCEPT ![c] = <<>>]
    /\ UNCHANGED <<mainVars, inbox, held, rx, clientVars>>

ListenerCloses(c) ==
    /\ ListenerGoes(c, "close", IF held[c] = NoEntry THEN "check" ELSE "push")
    /\ tx' = IF c \in sending THEN tx ELSE [tx EXCEPT ![c] = <<>>]
    /\ UNCHANGED <<mainVars, inbox, held, rx, clientVars>>

\* message_inbox_push under worker_lock, which nobody holds for more than one
\* step; the entry is lost if malloc fails.
ListenerPushes(c) ==
    /\ ListenerGoes(c, "push", "check")
    /\ held' = [held EXCEPT ![c] = NoEntry]
    /\ \/ inbox' = [inbox EXCEPT ![c] = Append(@, held[c])]
       \/ "resources" \in Faults /\ inbox' = inbox
    /\ UNCHANGED <<mainVars, tx, rx, clientVars>>

-----------------------------------------------------------------------------
(* The clients: octopipes_send_ex and octopipes_loop *)

SendBegins(c) ==
    /\ c \in Registered \ sending
    /\ Reading(c)
    /\ sending' = sending \cup {c}
    /\ UNCHANGED <<mainVars, workerVars, tx, rx, looping, got, heard, sent>>

Types == {"MESSAGE"} \cup IF "noise" \in Faults THEN {"GARBAGE"} ELSE {}

SendMessage(c, type, remote) ==
    /\ c \in sending
    /\ Reading(c)
    /\ sent < MaxMessages
    /\ sent' = sent + 1
    /\ tx' = [tx EXCEPT ![c] = Append(@,
                 [type |-> type, id |-> sent', from |-> c, to |-> remote])]
    /\ UNCHANGED <<mainVars, workerVars, rx, sending, looping, got, heard>>

\* close, or the end of the client: what nobody has read is lost when the
\* listener has the FIFO closed too.
SendEnds(c) ==
    /\ c \in sending
    /\ sending' = sending \ {c}
    /\ tx' = IF Reading(c) THEN tx ELSE [tx EXCEPT ![c] = <<>>]
    /\ UNCHANGED <<mainVars, workerVars, rx, looping, got, heard, sent>>

LoopOpens(c) ==
    /\ c \in Registered \ looping
    /\ looping' = looping \cup {c}
    /\ UNCHANGED <<mainVars, workerVars, tx, rx, sending, got, heard, sent>>

LoopReceives(c) ==
    /\ c \in looping
    /\ rx[c] # <<>>
    /\ got' = [got EXCEPT ![c] = Received(@, rx[c])]
    /\ rx' = [rx EXCEPT ![c] = <<>>]
    /\ UNCHANGED <<mainVars, workerVars, tx, sending, looping, heard, sent>>

\* The receive is over, and the on_received callback is called.  What came after
\* the last poll is lost with the close, unless the server has the FIFO open.
LoopCloses(c) ==
    /\ c \in looping
    /\ looping' = looping \ {c}
    /\ rx' = IF WritesTo(c) THEN rx ELSE [rx EXCEPT ![c] = <<>>]
    /\ got' = [got EXCEPT ![c] = NoEntry]
    /\ heard' = Delivered(c, got[c])
    /\ UNCHANGED <<mainVars, workerVars, tx, sending, sent>>

-----------------------------------------------------------------------------

MainStep ==
    \/ WorkerJoined
    \/ NextIsEmpty \/ NextTaken \/ NextCrashes
    \/ DispatchReadError \/ DispatchDangling \/ DispatchJunk
    \/ DispatchSkips \/ SendOpens \/ SendFails
    \/ SendWrites \/ SendBreaks \/ SendCloses
    \/ DispatchDone \/ RoundEnds

MainCall ==
    \/ \E c \in Clients : StartWorker(c) \/ StopWorker(c)
    \/ \E kind \in {"first", "once", "all"} : Process(kind)

ListenerStep(c) ==
    \/ ListenerOpens(c) \/ ListenerEnds(c) \/ ListenerOpenFails(c)
    \/ ListenerReceives(c) \/ ListenerTimesOut(c) \/ ListenerReadFails(c)
    \/ ListenerCloses(c) \/ ListenerPushes(c)

ClientStep(c) ==
    \/ SendBegins(c) \/ SendEnds(c)
    \/ \E type \in Types, remote \in Remotes : SendMessage(c, type, remote)
    \/ LoopOpens(c) \/ LoopReceives(c) \/ LoopCloses(c)

Next ==
    \/ MainCall \/ MainStep
    \/ \E c \in Clients : ListenerStep(c) \/ ClientStep(c)

Spec == Init /\ [][Next]_vars

\* Threads run, and a receive finds its FIFO idle again and again.
FairSpec ==
    /\ Spec
    /\ WF_vars(MainStep)
    /\ \A c \in Clients : WF_vars(ListenerStep(c)) /\ SF_vars(ListenerTimesOut(c))

-----------------------------------------------------------------------------
(* Correctness *)

\* The type invariant.
DispatchTypeOK ==
    /\ order \in Seq(Clients) /\ active \subseteq Clients
    /\ inbox \in [Clients -> Seq(Entry)]
    /\ lpc \in [Clients -> {"none", "check", "receive", "close", "push", "done"}]
    /\ held \in [Clients -> Entry \cup {NoEntry}]
    /\ tx \in [Clients -> Seq(Message)] /\ rx \in [Clients -> Seq(Message)]
    /\ sending \subseteq Clients /\ looping \subseteq Clients
    /\ got \in [Clients -> Entry \cup {NoEntry}]
    /\ heard \in [Clients -> Seq(Message)]
    /\ mpc \in {"idle", "join", "next", "dispatch", "write", "sent", "dead"}
    /\ call \in {"none", "stop", "first", "once", "all"}
    /\ at \in 1..(Len(order) + 1) /\ target \in 1..(Len(order) + 1)
    /\ cur \in Entry \cup {NoEntry}
    /\ served \in BOOLEAN /\ written \subseteq Clients
    /\ rc \in {"NONE", "SUCCESS", "READ_FAILED", "OPEN_FAILED", "NO_RECIPIENT", "UNKNOWN"}
    /\ sent \in 0..MaxMessages

\* A client hears what one sender sent in the order it was sent and nothing
\* twice, through two FIFOs, an inbox and a dispatch, across a resubscription,
\* and whatever is lost on the way.
HeardOnceInOrder ==
    \A c \in Clients : \A i, j \in DOMAIN heard[c] :
        i < j /\ heard[c][i].from = heard[c][j].from => heard[c][i].id < heard[c][j].id

\* A client only hears what was sent to it or to one of its groups.
HeardWasAddressed ==
    \A c \in Clients : \A i \in DOMAIN heard[c] :
        heard[c][i].to \in {c} \cup Subscriptions[c]

\* A message is processed, and the call goes on or succeeds, only when it was
\* written to every worker that is subscribed to its remote.
ProcessedMeansWritten ==
    [][(Dispatching /\ cur' = NoEntry /\ rc' \in {"NONE", "SUCCESS"}) =>
          \A c \in Registered : cur.to \in {c} \cup Subscriptions[c] => c \in written]_vars

\* worker_cleanup frees a worker when its thread is gone: a listener thread
\* runs for the workers there are and for no other.
ThreadsHaveWorkers == {c \in Clients : lpc[c] # "none"} = Registered

\* octopipes_server_stop_worker comes back from its join.
StopWorkerReturns == mpc = "join" ~> mpc # "join"

\* process_first and process_once come back, whoever does not read its FIFO.
ProcessReturns ==
    (mpc \in {"next", "dispatch", "write", "sent"} /\ call # "all") ~> mpc \in {"idle", "dead"}

=============================================================================
