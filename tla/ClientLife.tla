----------------------------- MODULE ClientLife -----------------------------
(***************************************************************************)
(* The life of one OctopipesClient of src/client.c: the public calls of the *)
(* thread that owns it and the loop thread that octopipes_loop_start makes. *)
(* The two share the client structure without any lock.  What arrives on    *)
(* the pipes, and whether a call on them succeeds, is left open.            *)
(***************************************************************************)
CONSTANTS
    Loops,      \* loop threads; bound: as many exist or are unjoined at once
    NoLoop,     \* the value of client->loop when there is no thread to join
    Owners      \* the programs that may own the client

ASSUME ClientAssumption == NoLoop \notin Loops

VARIABLES
    owner,      \* which program owns the client: a careful one, or any other
    state,      \* OctopipesClient.state
    pipes,      \* tx_pipe and rx_pipe: "null", "valid", or "freed" and dangling
    accepted,   \* the last subscription was answered without a CAP error
    upc,        \* where the owner's thread is
    assignment, \* the assignment octopipes_subscribe is about to parse
    loop,       \* OctopipesClient.loop, the last thread created and not joined
    loopPc,     \* where each loop thread is
    callback,   \* client->on_received is set
    alive,      \* octopipes_cleanup has not freed the client
    misused     \* history: freed memory was used or freed again, or NULL was called

vars == <<owner, state, pipes, accepted, upc, assignment, loop, loopPc, callback, alive, misused>>

\* After octopipes_init.
Init ==
    /\ owner \in Owners
    /\ state = "INIT"
    /\ pipes = "null"
    /\ accepted = FALSE
    /\ upc = "idle"
    /\ assignment = "none"
    /\ loop = NoLoop
    /\ loopPc = [t \in Loops |-> "none"]
    /\ callback = FALSE
    /\ alive = TRUE
    /\ misused = FALSE

\* A careful owner keeps to the order of calls stated below, and subscribes
\* with a server whose assignments parse.
Careful == owner = "careful"

Registered == state \in {"SUBSCRIBED", "RUNNING"}

\* No loop thread will touch the client any more.
Calm == \A t \in Loops : loopPc[t] \in {"none", "done"}

\* A careful owner lets a loop thread come up before it calls anything else.
Settled == Careful => \A t \in Loops : loopPc[t] # "start"

CallFrom(pc) == upc = pc /\ ~misused

-----------------------------------------------------------------------------
(* octopipes_subscribe.  A careful owner does not subscribe while the state says  *)
(* it is, accepted or refused, nor under a loop thread.                        *)

Subscribe ==
    /\ CallFrom("idle") /\ Settled
    /\ Careful => Calm /\ ~Registered
    /\ upc' = "subscribing"
    /\ UNCHANGED <<owner, state, pipes, accepted, assignment, loop, loopPc, callback, alive, misused>>

\* Sending, receiving, decoding or verifying failed.
SubscribeFails ==
    /\ CallFrom("subscribing")
    /\ upc' = "idle"
    /\ UNCHANGED <<owner, state, pipes, accepted, assignment, loop, loopPc, callback, alive, misused>>

Assignments == {"accepted", "refused"} \cup IF Careful THEN {} ELSE {"broken"}

\* Faulty variant: the pipe names are freed whatever the state is.
AssignmentArrivesFreeing ==
    /\ CallFrom("subscribing")
    /\ assignment' \in Assignments
    /\ upc' = "assigning"
    /\ pipes' = IF pipes # "null" THEN "freed" ELSE pipes
    /\ misused' = (pipes = "freed")
    /\ UNCHANGED <<owner, state, accepted, loop, loopPc, callback, alive>>

\* The loop_stop of a RUNNING client answers NOT_UNSUBSCRIBED; the pipe names
\* of a SUBSCRIBED or RUNNING client are freed.
AssignmentArrives ==
    /\ CallFrom("subscribing")
    /\ assignment' \in Assignments
    /\ upc' = "assigning"
    /\ pipes' = IF Registered /\ pipes # "null" THEN "freed" ELSE pipes
    /\ misused' = (Registered /\ pipes = "freed")
    /\ UNCHANGED <<owner, state, accepted, loop, loopPc, callback, alive>>

\* octopipes_cap_parse_assign: a refusal is a success that sets no pipes; an
\* assignment that does not parse leaves names it has freed.
AssignmentParsed ==
    /\ CallFrom("assigning")
    /\ upc' = "idle"
    /\ assignment' = "none"
    /\ accepted' = (assignment = "accepted")
    /\ \/ assignment = "accepted" /\ pipes' = "valid" /\ state' = "SUBSCRIBED"
       \/ assignment = "refused" /\ UNCHANGED pipes /\ state' = "SUBSCRIBED"
       \/ assignment = "broken" /\ pipes' = "freed" /\ UNCHANGED state
    /\ UNCHANGED <<owner, loop, loopPc, callback, alive, misused>>

-----------------------------------------------------------------------------
(* octopipes_unsubscribe, octopipes_send_ex, octopipes_cleanup *)

Unsubscribe ==
    /\ CallFrom("idle") /\ Settled
    /\ Registered
    /\ upc' = "unsubscribing"
    /\ UNCHANGED <<owner, state, pipes, accepted, assignment, loop, loopPc, callback, alive, misused>>

UnsubscribeFails ==
    /\ CallFrom("unsubscribing")
    /\ upc' = "idle"
    /\ UNCHANGED <<owner, state, pipes, accepted, assignment, loop, loopPc, callback, alive, misused>>

\* The loop_stop in it comes before the state is UNSUBSCRIBED, so it answers
\* NOT_UNSUBSCRIBED and joins nothing.
UnsubscribeSent ==
    /\ CallFrom("unsubscribing")
    /\ upc' = "idle"
    /\ state' = "UNSUBSCRIBED"
    /\ UNCHANGED <<owner, pipes, accepted, assignment, loop, loopPc, callback, alive, misused>>

Send ==
    /\ CallFrom("idle") /\ Settled
    /\ Registered
    /\ misused' = (pipes = "freed")
    /\ UNCHANGED <<owner, state, pipes, accepted, upc, assignment, loop, loopPc, callback, alive>>

\* A careful owner frees the client when no loop thread is left.
Cleanup ==
    /\ CallFrom("idle") /\ Settled
    /\ Careful => Calm
    /\ upc' = "cleaning"
    /\ UNCHANGED <<owner, state, pipes, accepted, assignment, loop, loopPc, callback, alive, misused>>

\* A registered client is unsubscribed first, whether that succeeds or not.
CleanupFrees ==
    /\ CallFrom("cleaning")
    /\ upc' = "gone"
    /\ alive' = FALSE
    /\ state' \in IF Registered THEN {state, "UNSUBSCRIBED"} ELSE {state}
    /\ misused' = (pipes = "freed")
    /\ UNCHANGED <<owner, pipes, accepted, assignment, loop, loopPc, callback>>

\* octopipes_set_received_cb, with a function or with NULL.  A careful owner
\* changes callbacks when no loop thread is left.
SetReceivedCb ==
    /\ CallFrom("idle") /\ Settled
    /\ Careful => Calm
    /\ callback' = ~callback
    /\ UNCHANGED <<owner, state, pipes, accepted, upc, assignment, loop, loopPc, alive, misused>>

-----------------------------------------------------------------------------
(* octopipes_loop_start and octopipes_loop_stop *)

\* A careful owner starts one loop, and only if the server accepted it.
LoopStart ==
    /\ CallFrom("idle") /\ Settled
    /\ Careful => Calm /\ accepted
    /\ state = "SUBSCRIBED"
    /\ \E t \in Loops :
          /\ loopPc[t] = "none" \/ (loopPc[t] = "done" /\ loop # t)
          /\ loopPc' = [loopPc EXCEPT ![t] = "start"]
          /\ loop' = t
    /\ UNCHANGED <<owner, state, pipes, accepted, upc, assignment, callback, alive, misused>>

\* A careful owner stops a loop it started.
LoopStop ==
    /\ CallFrom("idle") /\ Settled
    /\ Careful => loop # NoLoop
    /\ state = "UNSUBSCRIBED"
    /\ state' = "STOPPED"
    /\ upc' = "join"
    /\ UNCHANGED <<owner, pipes, accepted, assignment, loop, loopPc, callback, alive, misused>>

LoopJoined ==
    /\ CallFrom("join")
    /\ loop # NoLoop /\ loopPc[loop] = "done"
    /\ loopPc' = [loopPc EXCEPT ![loop] = "none"]
    /\ loop' = NoLoop
    /\ upc' = "idle"
    /\ UNCHANGED <<owner, state, pipes, accepted, assignment, callback, alive, misused>>

\* pthread_join of a thread that was never created or is joined already: an
\* error, and the state goes back, at best.
JoinUndefined ==
    /\ CallFrom("join")
    /\ loop = NoLoop
    /\ \/ misused' = TRUE /\ UNCHANGED <<state, upc>>
       \/ upc' = "idle" /\ state' = "UNSUBSCRIBED" /\ UNCHANGED misused
    /\ UNCHANGED <<owner, pipes, accepted, assignment, loop, loopPc, callback, alive>>

-----------------------------------------------------------------------------
(* octopipes_loop *)

LoopGoes(t, from, to) ==
    /\ ~misused
    /\ loopPc[t] = from
    /\ loopPc' = [loopPc EXCEPT ![t] = to]

\* The state becomes RUNNING whatever it was.
LoopBegins(t) ==
    /\ LoopGoes(t, "start", "test")
    /\ IF alive THEN state' = "RUNNING" /\ UNCHANGED misused
                ELSE misused' = TRUE /\ UNCHANGED state
    /\ UNCHANGED <<owner, pipes, accepted, upc, assignment, loop, callback, alive>>

\* Faulty variant: STOPPED does not end the loop.
LoopTestsUnsubscribed(t) ==
    /\ LoopGoes(t, "test", IF state # "UNSUBSCRIBED" THEN "receive" ELSE "done")
    /\ misused' = (~alive \/ (state # "UNSUBSCRIBED" /\ pipes = "freed"))
    /\ UNCHANGED <<owner, state, pipes, accepted, upc, assignment, loop, callback, alive>>

\* The loop condition, and the rx pipe opened by name.
LoopTests(t) ==
    /\ LoopGoes(t, "test", IF state = "RUNNING" THEN "receive" ELSE "done")
    /\ misused' = (~alive \/ (state = "RUNNING" /\ pipes = "freed"))
    /\ UNCHANGED <<owner, state, pipes, accepted, upc, assignment, loop, callback, alive>>

\* Faulty variant: having received nothing ends the loop.
LoopBreaks(t) ==
    /\ LoopGoes(t, "receive", "done")
    /\ UNCHANGED <<owner, state, pipes, accepted, upc, assignment, loop, callback, alive, misused>>

\* No data in time, which goes unreported, or an error, whose callback is
\* looked for in the client.
LoopReceivesNothing(t) ==
    /\ LoopGoes(t, "receive", "test")
    /\ UNCHANGED misused \/ misused' = ~alive
    /\ UNCHANGED <<owner, state, pipes, accepted, upc, assignment, loop, callback, alive>>

LoopReceives(t) ==
    /\ LoopGoes(t, "receive", "deliver")
    /\ UNCHANGED <<owner, state, pipes, accepted, upc, assignment, loop, callback, alive, misused>>

\* A message that was delivered may ask for an acknowledgement.
LoopDone(t, from) == LoopGoes(t, from, "test") \/ LoopGoes(t, from, "ack")

\* The callback is tested, and then called if it is set ...
LoopDelivers(t) ==
    /\ \/ callback /\ LoopGoes(t, "deliver", "call")
       \/ ~callback /\ LoopDone(t, "deliver")
    /\ misused' = ~alive
    /\ UNCHANGED <<owner, state, pipes, accepted, upc, assignment, loop, callback, alive>>

\* ... as the client has it by then.
LoopCalls(t) ==
    /\ LoopDone(t, "call")
    /\ misused' = (~alive \/ ~callback)
    /\ UNCHANGED <<owner, state, pipes, accepted, upc, assignment, loop, callback, alive>>

\* octopipes_send_ex of the loop thread tests the state and opens the tx pipe
\* by name; it waits there as long as pipe_send does.
LoopAcknowledges(t) ==
    /\ LoopGoes(t, "ack", IF Registered THEN "acking" ELSE "test")
    /\ misused' = (~alive \/ (Registered /\ pipes = "freed"))
    /\ UNCHANGED <<owner, state, pipes, accepted, upc, assignment, loop, callback, alive>>

\* The sent callback is looked for in the client, unless pipe_send failed.
LoopAcknowledged(t) ==
    /\ LoopGoes(t, "acking", "test")
    /\ UNCHANGED misused \/ misused' = ~alive
    /\ UNCHANGED <<owner, state, pipes, accepted, upc, assignment, loop, callback, alive>>

LoopStep(t) ==
    \/ LoopBegins(t) \/ LoopTests(t)
    \/ LoopReceivesNothing(t) \/ LoopReceives(t)
    \/ LoopDelivers(t) \/ LoopCalls(t) \/ LoopAcknowledges(t) \/ LoopAcknowledged(t)

-----------------------------------------------------------------------------

OwnerCalls ==
    Subscribe \/ Unsubscribe \/ Send \/ SetReceivedCb \/ Cleanup \/ LoopStart \/ LoopStop

OwnerContinues ==
    \/ SubscribeFails \/ AssignmentArrives \/ AssignmentParsed
    \/ UnsubscribeFails \/ UnsubscribeSent
    \/ CleanupFrees
    \/ LoopJoined \/ JoinUndefined

Next == OwnerCalls \/ OwnerContinues \/ \E t \in Loops : LoopStep(t)

Spec == Init /\ [][Next]_vars

\* Calls end and threads run; the owner is free to call nothing.
FairSpec ==
    /\ Spec
    /\ WF_vars(OwnerContinues)
    /\ \A t \in Loops : WF_vars(LoopStep(t))

-----------------------------------------------------------------------------
(* Correctness *)

InLoop == {"test", "receive", "deliver", "call", "ack", "acking"}

\* The type invariant.
TypeOK ==
    /\ owner \in Owners
    /\ state \in {"INIT", "SUBSCRIBED", "RUNNING", "UNSUBSCRIBED", "STOPPED"}
    /\ pipes \in {"null", "valid", "freed"}
    /\ accepted \in BOOLEAN
    /\ upc \in {"idle", "subscribing", "assigning", "unsubscribing", "cleaning",
                "join", "gone"}
    /\ assignment \in {"none", "accepted", "refused", "broken"}
    /\ loop \in Loops \cup {NoLoop}
    /\ loopPc \in [Loops -> {"none", "start", "done"} \cup InLoop]
    /\ callback \in BOOLEAN
    /\ alive \in BOOLEAN
    /\ misused \in BOOLEAN

\* With a careful owner no thread uses the client, or a pipe name of it, after
\* it was freed, and nothing is freed twice (octopipes_cleanup,
\* octopipes_subscribe, octopipes_loop).
CarefulUsesNoFreed == Careful => ~misused

\* With a careful owner, a client whose state says RUNNING has exactly one loop
\* thread in its loop (README.md: "RUNNING: the client loop is running").
RunningMeansLooping ==
    Careful /\ state = "RUNNING" /\ alive =>
        \E t \in Loops :
            /\ loop = t /\ loopPc[t] \in InLoop
            /\ \A s \in Loops \ {t} : loopPc[s] \in {"none", "done"}

\* octopipes_loop_stop returns (README.md: "Stops the client loop"): the loop
\* thread it waits for comes to see the state, unless memory was misused before.
LoopStopReturns == upc = "join" ~> upc # "join" \/ misused

\* With a careful owner it returns.
CarefulLoopStopReturns == Careful /\ upc = "join" ~> upc # "join"

=============================================================================
