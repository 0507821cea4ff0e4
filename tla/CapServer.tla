----------------------------- MODULE CapServer -----------------------------
(***************************************************************************)
(* The Common Access Pipe (CAP) side of the octopipes server, src/server.c: *)
(* the listener thread (cap_loop), the inbox it shares with the main        *)
(* thread, the main thread's public calls, and the CAP FIFO itself with     *)
(* everybody who may have it open.                                          *)
(*                                                                          *)
(* Two threads run in the server process: the listener (lpc) and the main   *)
(* thread that calls the public API (mpc).  The clients are an environment  *)
(* as general as the operating system allows: each may open the CAP for     *)
(* reading or for writing, write any request, take what the FIFO holds and  *)
(* close it, at any time.  CapProtocol.tla narrows that environment to what *)
(* client.c does.                                                           *)
(***************************************************************************)
EXTENDS Inbox

CONSTANTS
    Clients,      \* client identifiers
    MaxPending,   \* bound: requests on their way (FIFO, listener, inbox) at once
    MaxErrors,    \* bound: read errors are not reported behind as many of them
    Faults,       \* the classes of fault that may happen, a subset of FaultClasses
    Timed         \* TRUE: the sleeps meant to let another thread go first are long
                  \* enough for that; FALSE: nothing is known of how long threads take

\* "noise": frames that do not decode or are no request; "resources": failing
\* malloc, mkdir, mkfifo, pthread_create; "refusal": failing malloc of the payload
\* that would refuse a taken name; "io": failing open, poll, read; "kill": the
\* server process is killed.
FaultClasses == {"noise", "resources", "refusal", "io", "kill"}

ASSUME ConstantsAssumption ==
    /\ MaxPending \in Nat /\ MaxErrors \in Nat
    /\ Faults \subseteq FaultClasses
    /\ Timed \in BOOLEAN

VARIABLES
    state,      \* OctopipesServer.state
    workers,    \* OctopipesServer.workers, by client id
    inbox,      \* OctopipesServer.cap_inbox
    capLock,    \* OctopipesServer.cap_lock: "free" or held by the "main" thread
    mpc,        \* where the main thread is
    cur,        \* the inbox entry the main thread handles
    answer,     \* the CAP error of the assignment being sent
    rc,         \* what the last public call returned, "NONE" while one runs
    lpc,        \* where the listener thread is, "none" when there is no thread
    held,       \* what the listener has received and not yet pushed
    capExists,  \* the CAP FIFO is in the file system
    capBuf,     \* the frames in the CAP FIFO
    cio,        \* what each client has the CAP open for
    fifos,      \* the clients whose tx and rx FIFO are in the client directory
    told        \* history: the clients whose worker was announced to them, and not stopped since

mainVars == <<state, workers, mpc, cur, answer, rc, told, fifos>>
listenerVars == <<lpc, held>>
sharedVars == <<inbox, capLock>>
capVars == <<capExists, capBuf, cio>>
vars == <<mainVars, listenerVars, sharedVars, capVars>>

-----------------------------------------------------------------------------
(* Messages and inbox entries *)

RequestTypes == {"SUBSCRIPTION", "UNSUBSCRIPTION"}
NoiseTypes == {"MALFORMED", "GARBAGE"}
AssignmentTypes == {"ASSIGNMENT", "FS_ERROR"}

\* A frame on the CAP.  client is its origin, or its remote for an assignment.
\* MALFORMED decodes but is no request; GARBAGE begins and ends like a frame but
\* does not decode (its version, a size or the checksum is wrong).
Message == [type : RequestTypes \cup NoiseTypes \cup AssignmentTypes,
            client : Clients]

Entry == Message \cup {Dangling, ReadError, Junk}

Registered == {workers[i] : i \in DOMAIN workers}

\* The client of the entry being handled while its assignment is not yet sent.
Answering == {"blocking", "open", "write"}
Pending == IF mpc \in Answering /\ answer = "SUCCESS" THEN {cur.client} ELSE {}

\* Faulty variant: whoever it is for, the first worker goes.
WithoutFirstWorker(ws, c) == IF ws = <<>> THEN ws ELSE Tail(ws)

\* octopipes_server_stop_worker: the worker goes, those behind it move up by one.
WithoutWorker(ws, c) ==
    IF \A i \in DOMAIN ws : ws[i] # c THEN ws
    ELSE LET k == CHOOSE i \in DOMAIN ws : ws[i] = c
         IN  [j \in 1..(Len(ws) - 1) |-> IF j < k THEN ws[j] ELSE ws[j + 1]]

-----------------------------------------------------------------------------
(* The CAP FIFO *)

ListenerReads == lpc \in {"receive", "close"}
HasReader == ListenerReads \/ \E c \in Clients : cio[c] = "reading"

\* A FIFO loses what it holds when the last file descriptor on it is closed:
\* what is left in it once the clients have it open as io says and the
\* listener and the main thread are at l and m.
Kept(io, l, m) ==
    IF \/ \E c \in Clients : io[c] # "none"
       \/ l \in {"receive", "close"}
       \/ m \in {"write", "sent"}
    THEN capBuf ELSE <<>>

InFlight == Len(capBuf) + Len(inbox) + (IF held = NoEntry THEN 0 ELSE 1)
Room == InFlight < MaxPending

-----------------------------------------------------------------------------
(* The server process as a whole *)

\* After octopipes_server_init.
Init ==
    /\ state = "INIT" /\ workers = <<>>
    /\ inbox = <<>> /\ capLock = "free"
    /\ mpc = "idle" /\ cur = NoEntry /\ answer = "SUCCESS" /\ rc = "SUCCESS"
    /\ lpc = "none" /\ held = NoEntry
    /\ capExists = FALSE /\ capBuf = <<>>
    /\ cio = [c \in Clients |-> "none"]
    /\ fifos = {}
    /\ told = {}

\* Nothing is left of the memory and the threads of the server.
Forget ==
    /\ state' = "INIT" /\ workers' = <<>>
    /\ inbox' = <<>> /\ capLock' = "free"
    /\ cur' = NoEntry /\ answer' = "SUCCESS"
    /\ lpc' = "none" /\ held' = NoEntry
    /\ told' = {}

\* The process ends here and now; its descriptors are closed, its FIFOs stay.
Crash ==
    /\ Forget
    /\ mpc' = "dead"
    /\ rc' = "NONE"
    /\ capBuf' = Kept(cio, "none", "dead")
    /\ UNCHANGED <<capExists, cio, fifos>>

Killed ==
    /\ "kill" \in Faults
    /\ mpc # "dead"
    /\ Crash

\* octopipes_server_init, for the next server of the same CAP path and directory.
ServerInit ==
    /\ mpc \in {"dead", "freed"}
    /\ Forget
    /\ mpc' = "idle"
    /\ rc' = "SUCCESS"
    /\ UNCHANGED <<fifos, capVars>>

Return(code) == mpc' = "idle" /\ rc' = code

-----------------------------------------------------------------------------
(* octopipes_server_start_cap_listener *)

StartRejected ==
    /\ mpc = "idle" /\ state = "RUNNING"
    /\ Return("THREAD_ALREADY_RUNNING")
    /\ UNCHANGED <<state, workers, cur, answer, told, fifos, listenerVars, sharedVars, capVars>>

\* create_clients_dir or pipe_create failed.
StartFails ==
    /\ "resources" \in Faults
    /\ mpc = "idle" /\ state # "RUNNING"
    /\ \E code \in {"BAD_CLIENT_DIR", "OPEN_FAILED"} : Return(code)
    /\ UNCHANGED <<state, workers, cur, answer, told, fifos, listenerVars, sharedVars, capVars>>

\* create_clients_dir leaves every FIFO of the client directory where it is:
\* lstat and unlink get the bare entry name, which is relative to the working
\* directory, and a FIFO would be spared anyway.  The state is RUNNING before
\* the mutex and the thread exist.
StartCapListener ==
    /\ mpc = "idle" /\ state # "RUNNING"
    /\ capExists' = TRUE
    /\ state' = "RUNNING"
    /\ capLock' = "free"
    /\ \/ lpc' = "check" /\ Return("SUCCESS")
       \/ "resources" \in Faults /\ lpc' = "none" /\ Return("THREAD_ERROR")
    /\ UNCHANGED <<workers, inbox, cur, answer, held, told, fifos, capBuf, cio>>

-----------------------------------------------------------------------------
(* octopipes_server_stop_cap_listener and octopipes_server_cleanup *)

\* A call that needs a running listener and finds none.
RejectedCall ==
    /\ mpc = "idle" /\ state # "RUNNING"
    /\ Return("UNINITIALIZED")
    /\ UNCHANGED <<state, workers, cur, answer, told, fifos, listenerVars, sharedVars, capVars>>

StopCapListener ==
    /\ mpc = "idle" /\ state = "RUNNING"
    /\ state' = "STOPPED"
    /\ rc' = "NONE"
    /\ mpc' \in {"join", "joinfree"}     \* on its own, or from cleanup
    /\ UNCHANGED <<workers, cur, answer, told, fifos, listenerVars, sharedVars, capVars>>

\* pthread_join returned: the mutex is destroyed and the CAP is deleted (who
\* still has it open keeps a FIFO nobody else will ever find).
Joined ==
    /\ lpc = "done"
    /\ lpc' = "none"
    /\ capLock' = "free"
    /\ capExists' = FALSE
    /\ capBuf' = <<>>
    /\ cio' = [c \in Clients |-> "none"]

StopJoins ==
    /\ mpc = "join"
    /\ Joined
    /\ Return("SUCCESS")
    /\ UNCHANGED <<state, workers, inbox, cur, answer, held, told, fifos>>

\* octopipes_server_cleanup after the join: every worker goes with its FIFOs.
CleanupJoins ==
    /\ mpc = "joinfree"
    /\ Joined
    /\ mpc' = "freed" /\ rc' = "SUCCESS"
    /\ state' = "INIT"
    /\ workers' = <<>>
    /\ fifos' = fifos \ Registered
    /\ told' = {}
    /\ inbox' = <<>>
    /\ UNCHANGED <<cur, answer, held>>

\* pthread_join on a thread that pthread_create never started: an error at best.
JoinFails ==
    /\ mpc \in {"join", "joinfree"}
    /\ lpc = "none"
    /\ \/ Crash
       \/ /\ Return("THREAD_ERROR")
          /\ UNCHANGED <<state, workers, cur, answer, told, fifos, listenerVars, sharedVars, capVars>>

\* octopipes_server_cleanup of a server that is not RUNNING: the structure and
\* the inbox are freed, the workers are not visited.
CleanupNotRunning ==
    /\ mpc = "idle" /\ state # "RUNNING"
    /\ mpc' = "freed" /\ rc' = "SUCCESS"
    /\ state' = "INIT"
    /\ inbox' = <<>>
    /\ UNCHANGED <<workers, cur, answer, told, fifos, listenerVars, capLock, capVars>>

-----------------------------------------------------------------------------
(* octopipes_server_process_cap_once: the lock and the inbox *)

ProcessCapOnce ==
    /\ mpc = "idle" /\ state = "RUNNING"
    /\ mpc' = "lock" /\ rc' = "NONE"
    /\ UNCHANGED <<state, workers, cur, answer, told, fifos, listenerVars, sharedVars, capVars>>

\* octopipes_server_process_cap_all returns UNINITIALIZED when the server is not
\* RUNNING, and also when the inbox is not NULL, which it is from init to cleanup.
ProcessCapAll ==
    /\ mpc = "idle"
    /\ Return("UNINITIALIZED")
    /\ UNCHANGED <<state, workers, cur, answer, told, fifos, listenerVars, sharedVars, capVars>>

InboxIsEmpty ==
    /\ mpc = "lock" /\ capLock = "free"
    /\ inbox = <<>>
    /\ Return("SUCCESS")
    /\ UNCHANGED <<state, workers, cur, answer, told, fifos, listenerVars, sharedVars, capVars>>

\* message_inbox_dequeue, the mutex held.
Dequeue ==
    /\ mpc = "lock" /\ capLock = "free"
    /\ inbox # <<>>
    /\ capLock' = "main"
    /\ mpc' = "handle"
    /\ cur' = Head(inbox)
    /\ inbox' = Dequeued(inbox)
    /\ UNCHANGED <<state, workers, answer, rc, told, fifos, listenerVars, capVars>>

\* The same shift, when the pointer it reads is none that realloc accepts.
DequeueCrashes ==
    /\ mpc = "lock" /\ capLock = "free"
    /\ Len(inbox) > 1
    /\ Crash

\* process_cap_once returns after the handler: the mutex is released when the
\* handler succeeded, and only then.
Handled(code) ==
    /\ Return(code)
    /\ cur' = NoEntry
    /\ answer' = "SUCCESS"
    /\ capLock' = IF code = "SUCCESS" THEN "free" ELSE capLock

Handling(type) == mpc = "handle" /\ cur.type = type

\* The entry has no message: its error is looked up in messages[0], which is
\* gone, or is a slot of junk.
HandleReadError ==
    /\ Handling("READ_ERROR")
    /\ \/ Crash
       \/ /\ inbox # <<>>
          /\ Handled("SUCCESS")
          /\ UNCHANGED <<state, workers, told, fifos, listenerVars, inbox, capVars>>

\* A junk slot is NULL, and then there is no message, or it points anywhere.
HandleJunk ==
    /\ Handling("JUNK")
    /\ \/ Crash
       \/ /\ Handled("SUCCESS")
          /\ UNCHANGED <<state, workers, told, fifos, listenerVars, inbox, capVars>>

\* octopipes_server_handle_cap_message of freed memory, which is then freed again.
HandleDangling ==
    /\ Handling("DANGLING")
    /\ \/ Crash
       \/ /\ Handled("BAD_PACKET")
          /\ UNCHANGED <<state, workers, told, fifos, listenerVars, inbox, capVars>>

\* No data, no origin (an assignment of the server's own has none), no request,
\* or a subscription whose groups do not parse: octopipes_cap_parse_subscribe
\* then frees a pointer it never set.
HandleMalformed ==
    /\ mpc = "handle"
    /\ cur.type \in {"MALFORMED"} \cup AssignmentTypes
    /\ \/ cur.type = "MALFORMED" /\ Crash
       \/ /\ Handled("BAD_PACKET")
          /\ UNCHANGED <<state, workers, told, fifos, listenerVars, inbox, capVars>>

-----------------------------------------------------------------------------
(* cap_manage_subscription and octopipes_server_start_worker *)

\* octopipes_server_lock_cap: the state is BLOCK, the main thread sleeps.
LockCap ==
    /\ state' = "BLOCK"
    /\ mpc' = "blocking"

\* Faulty variant: nobody asks whether the name is taken.
SubscriptionUnchecked ==
    /\ Handling("SUBSCRIPTION")
    /\ workers' = Append(workers, cur.client)
    /\ fifos' = fifos \cup {cur.client}
    /\ answer' = "SUCCESS"
    /\ LockCap
    /\ UNCHANGED <<cur, rc, told, listenerVars, sharedVars, capVars>>

\* A new worker: its two FIFOs, its thread, its place at the end of workers.
SubscriptionAccepted ==
    /\ Handling("SUBSCRIPTION")
    /\ cur.client \notin Registered
    /\ workers' = Append(workers, cur.client)
    /\ fifos' = fifos \cup {cur.client}
    /\ answer' = "SUCCESS"
    /\ LockCap
    /\ UNCHANGED <<cur, rc, told, listenerVars, sharedVars, capVars>>

\* The name is taken: the pipe names become NULL with length 0, start_worker
\* answers WORKER_EXISTS, and octopipes_cap_prepare_assign copies 0 - 1 bytes.
SubscriptionDuplicate ==
    /\ Handling("SUBSCRIPTION")
    /\ cur.client \in Registered
    /\ Crash

\* Faulty variant: the failure of start_worker is not put into the assignment.
SubscriptionNoWorkerUnnoticed ==
    /\ "resources" \in Faults
    /\ Handling("SUBSCRIPTION")
    /\ cur.client \notin Registered
    /\ answer' = "SUCCESS"
    /\ LockCap
    /\ UNCHANGED <<workers, fifos, cur, rc, told, listenerVars, sharedVars, capVars>>

\* worker_init fails, before or after it made the FIFOs, or the array of workers
\* does not grow and is lost: the pipe names are freed, then used for the
\* assignment and freed again; if the process survives that, the client is
\* answered with an FS error.
SubscriptionNoWorker ==
    /\ "resources" \in Faults
    /\ Handling("SUBSCRIPTION")
    /\ cur.client \notin Registered
    /\ \/ Crash
       \/ /\ fifos' \in {fifos, fifos \cup {cur.client}}
          /\ answer' = "FS"
          /\ LockCap
          /\ UNCHANGED <<workers, cur, rc, told, listenerVars, sharedVars, capVars>>

\* malloc fails: while the groups are parsed, which may free a pointer never set;
\* before the name is looked up; or after start_worker, whose worker is stopped
\* again and its FIFOs deleted, or which failed and left FIFOs.
SubscriptionBadAlloc ==
    /\ "resources" \in Faults
    /\ Handling("SUBSCRIPTION")
    /\ \/ Crash
       \/ /\ \/ fifos' = fifos
             \/ /\ cur.client \notin Registered
                /\ fifos' \in {fifos \cup {cur.client}, fifos \ {cur.client}}
          /\ Handled("BAD_ALLOC")
          /\ UNCHANGED <<state, workers, told, inbox, listenerVars, capVars>>

\* The payload for a taken name, of 2 bytes as its size wraps around, cannot be
\* allocated: stop_worker then takes the worker of whoever has the name.
SubscriptionStopsOwner ==
    /\ "refusal" \in Faults
    /\ Handling("SUBSCRIPTION")
    /\ cur.client \in Registered
    /\ workers' = WithoutWorker(workers, cur.client)
    /\ fifos' = fifos \ {cur.client}
    /\ told' = told \ {cur.client}
    /\ Handled("BAD_ALLOC")
    /\ UNCHANGED <<state, inbox, listenerVars, capVars>>

(* cap_manage_unsubscription and octopipes_server_stop_worker *)

Unsubscribed ==
    /\ Handling("UNSUBSCRIPTION")
    /\ cur.client \in Registered
    /\ workers' = WithoutWorker(workers, cur.client)
    /\ fifos' = fifos \ {cur.client}
    /\ told' = told \ {cur.client}
    /\ Handled("SUCCESS")
    /\ UNCHANGED <<state, inbox, listenerVars, capVars>>

UnsubscriptionNoWorkers ==
    /\ Handling("UNSUBSCRIPTION")
    /\ workers = <<>>
    /\ Handled("WORKER_NOT_FOUND")
    /\ UNCHANGED <<state, workers, told, fifos, inbox, listenerVars, capVars>>

\* The search has no bound but a match: without one it leaves the array.
UnsubscriptionUnknown ==
    /\ Handling("UNSUBSCRIPTION")
    /\ cur.client \notin Registered
    /\ workers # <<>>
    /\ Crash

-----------------------------------------------------------------------------
(* octopipes_server_write_cap: pipe_send between lock_cap and unlock_cap *)

\* The 500 ms sleep of lock_cap is over: long enough, it outlasts the 200 ms
\* receive the listener may have been in.
BlockSlept ==
    /\ mpc = "blocking"
    /\ Timed => lpc \notin {"open", "receive", "close"}
    /\ mpc' = "open"
    /\ UNCHANGED <<state, workers, cur, answer, rc, told, fifos, listenerVars, sharedVars, capVars>>

\* Opening the CAP for writing succeeds as soon as somebody has it open for reading.
SendOpens ==
    /\ mpc = "open"
    /\ HasReader
    /\ mpc' = "write"
    /\ UNCHANGED <<state, workers, cur, answer, rc, told, fifos, listenerVars, sharedVars, capVars>>

\* Faulty variants: write_cap failed, and the worker stays; its FIFOs go, the
\* worker stays; the CAP is tried again and again.
SendOpenFailsKeepingWorker ==
    /\ mpc = "open"
    /\ ~HasReader
    /\ state' = "RUNNING"
    /\ Handled("OPEN_FAILED")
    /\ UNCHANGED <<workers, fifos, told, inbox, listenerVars, capVars>>

SendOpenFailsDeletingFifos ==
    /\ mpc = "open"
    /\ ~HasReader
    /\ state' = "RUNNING"
    /\ fifos' = fifos \ {cur.client}
    /\ Handled("OPEN_FAILED")
    /\ UNCHANGED <<workers, told, inbox, listenerVars, capVars>>

SendOpensForEver == mpc = "open" /\ ~HasReader /\ UNCHANGED vars

\* Nobody did for 5 seconds: unlock_cap, then stop_worker.
SendOpenFails ==
    /\ mpc = "open"
    /\ ~HasReader
    /\ state' = "RUNNING"
    /\ workers' = WithoutWorker(workers, cur.client)
    /\ fifos' = IF cur.client \in Registered THEN fifos \ {cur.client} ELSE fifos
    /\ Handled("OPEN_FAILED")
    /\ UNCHANGED <<told, inbox, listenerVars, capVars>>

Assignment ==
    [type |-> IF answer = "SUCCESS" THEN "ASSIGNMENT" ELSE "FS_ERROR",
     client |-> cur.client]

SendWrites ==
    /\ mpc = "write"
    /\ HasReader
    /\ capBuf' = Append(capBuf, Assignment)
    /\ told' = told \cup Pending
    /\ mpc' = "sent"
    /\ UNCHANGED <<state, workers, cur, answer, rc, fifos, listenerVars, sharedVars, capExists, cio>>

\* The last reader closed the CAP in between: SIGPIPE.
SendBreaks ==
    /\ mpc = "write"
    /\ ~HasReader
    /\ Crash

\* close, then unlock_cap, then the mutex.
SendCloses ==
    /\ mpc = "sent"
    /\ capBuf' = Kept(cio, lpc, "idle")
    /\ state' = "RUNNING"
    /\ Handled("SUCCESS")
    /\ UNCHANGED <<workers, told, fifos, inbox, listenerVars, capExists, cio>>

-----------------------------------------------------------------------------
(* cap_loop, the listener thread *)

ListenerGoes(from, to) == lpc = from /\ lpc' = to

\* while (state != STOPPED)
ListenerChecks ==
    /\ ListenerGoes("check", IF state = "STOPPED" THEN "done" ELSE "gate")
    /\ UNCHANGED <<held, mainVars, sharedVars, capVars>>

\* Faulty variants: the listener does not wait; it waits for RUNNING.
ListenerPassesAlways ==
    /\ ListenerGoes("gate", "open")
    /\ UNCHANGED <<held, mainVars, sharedVars, capVars>>

ListenerPassesRunning ==
    /\ state = "RUNNING"
    /\ ListenerGoes("gate", "open")
    /\ UNCHANGED <<held, mainVars, sharedVars, capVars>>

\* while (state == BLOCK) usleep
ListenerPasses ==
    /\ state # "BLOCK"
    /\ ListenerGoes("gate", "open")
    /\ UNCHANGED <<held, mainVars, sharedVars, capVars>>

ListenerOpens ==
    /\ ListenerGoes("open", "receive")
    /\ UNCHANGED <<held, mainVars, sharedVars, capVars>>

ListenerOpenFails ==
    /\ "io" \in Faults /\ InFlight < MaxErrors
    /\ ListenerGoes("open", "push")
    /\ held' = ReadError
    /\ UNCHANGED <<mainVars, sharedVars, capVars>>

\* One read takes everything; octopipes_decode will look at the first frame of
\* what all reads of this receive brought, the rest is lost.
ListenerReceives ==
    /\ lpc = "receive"
    /\ capBuf # <<>>
    /\ held' = IF held = NoEntry THEN Decode(Head(capBuf)) ELSE held
    /\ capBuf' = <<>>
    /\ UNCHANGED <<lpc, mainVars, sharedVars, capExists, cio>>

\* poll found nothing: for 50 ms after something was read, for 200 ms otherwise.
ListenerTimesOut ==
    /\ ListenerGoes("receive", "close")
    /\ capBuf = <<>>
    /\ UNCHANGED <<held, mainVars, sharedVars, capVars>>

\* poll or read failed; what was read before counts as received.
ListenerReadFails ==
    /\ "io" \in Faults /\ InFlight < MaxErrors
    /\ ListenerGoes("receive", "close")
    /\ held' = IF held = NoEntry THEN ReadError ELSE held
    /\ UNCHANGED <<mainVars, sharedVars, capVars>>

\* Faulty variant: having received nothing is reported like an error.
ListenerClosesAndReports ==
    /\ ListenerGoes("close", "push")
    /\ capBuf' = Kept(cio, lpc', mpc)
    /\ UNCHANGED <<held, mainVars, sharedVars, capExists, cio>>

ListenerCloses ==
    /\ ListenerGoes("close", IF held = NoEntry THEN "check" ELSE "push")
    /\ capBuf' = Kept(cio, lpc', mpc)
    /\ UNCHANGED <<held, mainVars, sharedVars, capExists, cio>>

\* Faulty variant: the inbox is extended without the mutex.
ListenerPushesUnlocked ==
    /\ ListenerGoes("push", "check")
    /\ held' = NoEntry
    /\ inbox' = Append(inbox, held)
    /\ UNCHANGED <<mainVars, capLock, capVars>>

\* message_inbox_push under the mutex; the entry is lost if malloc fails.
ListenerPushes ==
    /\ capLock = "free"
    /\ ListenerGoes("push", "check")
    /\ held' = NoEntry
    /\ \/ inbox' = Append(inbox, held)
       \/ "resources" \in Faults /\ inbox' = inbox
    /\ UNCHANGED <<mainVars, capLock, capVars>>

-----------------------------------------------------------------------------
(* The clients, as the operating system lets them *)

Opened(c, use) == cio' = [cio EXCEPT ![c] = use]

ClientOpensToRead(c) ==
    /\ capExists /\ cio[c] = "none"
    /\ Opened(c, "reading")
    /\ UNCHANGED <<mainVars, listenerVars, sharedVars, capExists, capBuf>>

ClientReceives(c) ==
    /\ cio[c] = "reading"
    /\ capBuf # <<>>
    /\ capBuf' = <<>>
    /\ UNCHANGED <<mainVars, listenerVars, sharedVars, capExists, cio>>

ClientOpensToWrite(c) ==
    /\ capExists /\ cio[c] = "none"
    /\ HasReader
    /\ Opened(c, "writing")
    /\ UNCHANGED <<mainVars, listenerVars, sharedVars, capExists, capBuf>>

ClientWrites(c, type) ==
    /\ cio[c] = "writing"
    /\ HasReader
    /\ Room
    /\ capBuf' = Append(capBuf, [type |-> type, client |-> c])
    /\ UNCHANGED <<mainVars, listenerVars, sharedVars, capExists, cio>>

\* close, or the end of the client process.
ClientCloses(c) ==
    /\ cio[c] # "none"
    /\ Opened(c, "none")
    /\ capBuf' = Kept(cio', lpc, mpc)
    /\ UNCHANGED <<mainVars, listenerVars, sharedVars, capExists>>

WrittenTypes == RequestTypes \cup IF "noise" \in Faults THEN NoiseTypes ELSE {}

ClientStep ==
    \E c \in Clients :
        \/ ClientOpensToRead(c)
        \/ ClientReceives(c)
        \/ ClientOpensToWrite(c)
        \/ \E type \in WrittenTypes : ClientWrites(c, type)
        \/ ClientCloses(c)

-----------------------------------------------------------------------------
(* The server *)

\* The main thread decides to call the API.
MainCall ==
    \/ ServerInit
    \/ StartRejected \/ StartFails \/ StartCapListener
    \/ RejectedCall \/ StopCapListener \/ CleanupNotRunning
    \/ ProcessCapOnce \/ ProcessCapAll

\* The main thread goes on with a call.
MainStep ==
    \/ StopJoins \/ CleanupJoins \/ JoinFails
    \/ InboxIsEmpty \/ Dequeue \/ DequeueCrashes
    \/ HandleReadError \/ HandleJunk \/ HandleDangling \/ HandleMalformed
    \/ SubscriptionAccepted \/ SubscriptionDuplicate
    \/ SubscriptionNoWorker \/ SubscriptionBadAlloc \/ SubscriptionStopsOwner
    \/ Unsubscribed \/ UnsubscriptionNoWorkers \/ UnsubscriptionUnknown
    \/ BlockSlept \/ SendOpens \/ SendOpenFails
    \/ SendWrites \/ SendBreaks \/ SendCloses

ListenerStep ==
    \/ ListenerChecks \/ ListenerPasses
    \/ ListenerOpens \/ ListenerOpenFails
    \/ ListenerReceives \/ ListenerTimesOut \/ ListenerReadFails
    \/ ListenerCloses \/ ListenerPushes

ServerStep == Killed \/ MainCall \/ MainStep \/ ListenerStep

Next == ServerStep \/ ClientStep

Spec == Init /\ [][Next]_vars

\* Threads run, sleeps end; and a receive finds the FIFO idle again and again,
\* so that it cannot be kept in its loop for ever.  Nothing obliges the main
\* thread to make a call, nor a client to do anything.
Fairness ==
    /\ WF_vars(MainStep)
    /\ WF_vars(ListenerStep)
    /\ SF_vars(ListenerTimesOut)

FairSpec == Spec /\ Fairness

-----------------------------------------------------------------------------
(* Correctness *)

\* The type invariant: every variable holds a value of its C type.
TypeOK ==
    /\ state \in {"INIT", "RUNNING", "BLOCK", "STOPPED"}
    /\ workers \in Seq(Clients)
    /\ inbox \in Seq(Entry)
    /\ capLock \in {"free", "main"}
    /\ mpc \in {"idle", "lock", "handle", "join", "joinfree", "freed", "dead"}
               \cup Answering \cup {"sent"}
    /\ cur \in Entry \cup {NoEntry}
    /\ answer \in {"SUCCESS", "FS"}
    /\ rc \in {"NONE", "SUCCESS", "UNINITIALIZED", "THREAD_ALREADY_RUNNING",
               "BAD_CLIENT_DIR", "OPEN_FAILED", "THREAD_ERROR", "BAD_PACKET",
               "BAD_ALLOC", "WORKER_NOT_FOUND"}
    /\ lpc \in {"none", "check", "gate", "open", "receive", "close", "push", "done"}
    /\ held \in Entry \cup {NoEntry}
    /\ capExists \in BOOLEAN
    /\ capBuf \in Seq(Message)
    /\ cio \in [Clients -> {"none", "reading", "writing"}]
    /\ fifos \subseteq Clients
    /\ told \subseteq Clients

\* No client has two workers, whatever requests arrive in whatever order and
\* wherever the handler of one is interrupted by a failure.
UniqueWorkers ==
    \A i, j \in DOMAIN workers : workers[i] = workers[j] => i = j

\* A worker never outlives its FIFOs: every registered client can open both.
WorkersHavePipes == Registered \subseteq fifos

\* The workers of a live server are exactly those announced to their client and
\* the one whose assignment is on its way: no failure path of a subscription
\* leaves a worker nobody was told of or takes somebody else's.
AnnouncedServed == Registered = told \cup Pending /\ told \cap Pending = {}

\* While the main thread has the CAP open, or is about to, the listener does
\* not have it open: it cannot read the assignment.
ListenerPausedDuringWrite ==
    mpc \in {"open", "write", "sent"} => lpc \notin {"open", "receive", "close"}

\* A call that succeeded left the mutex free.
SuccessReleasesLock == mpc = "idle" /\ rc = "SUCCESS" => capLock = "free"

\* The handler runs with the mutex: from the moment an entry is dequeued until
\* the call returns, the listener pushes nothing, so the inbox does not change.
InboxStableWhileHandling ==
    [][(mpc \in {"handle", "sent"} \cup Answering /\ mpc' # "dead")
            => inbox' = inbox]_vars

\* An announced client loses its worker to its own unsubscription, to the end of
\* the server, or to a second subscription of its own whose refusal cannot be
\* allocated, and to nothing else: no request of another client takes it.
OnlyOwnerLeaves ==
    [][\A c \in told :
          \/ c \in Registered'
          \/ Handling("UNSUBSCRIPTION") /\ cur.client = c
          \/ Handling("SUBSCRIPTION") /\ cur.client = c /\ rc' = "BAD_ALLOC"
          \/ mpc' \in {"dead", "freed"}
          \/ mpc = "freed"]_vars

\* stop_cap_listener and cleanup return, if the mutex was free when they were called.
StopReturns ==
    (mpc \in {"join", "joinfree"} /\ capLock = "free")
        ~> mpc \in {"idle", "freed", "dead"}

\* A request taken from the inbox is dealt with: the handler does not stay in
\* the sleeps and loops of write_cap.
HandlerReturns == mpc \in {"handle", "sent"} \cup Answering ~> mpc \in {"idle", "dead"}

(* What the documentation says and the code does not keep *)

\* Every call comes back.  README.md's main loop calls process_cap_once again
\* after an error, and frees the server with cleanup, which "stops the workers
\* and the cap listener if they're running" (server.c).
CallsReturn == mpc \in {"lock", "join", "joinfree"} ~> mpc \in {"handle", "idle", "freed", "dead"}

=============================================================================
