-------------------------- MODULE ClientLifeProofs --------------------------
(***************************************************************************)
(* Proofs about ClientLife, for every set of loop threads and of owners, and *)
(* about the programs of CommandLine as owners of that client.              *)
(***************************************************************************)
EXTENDS CommandLine, TLAPS

\* Only an assignment that was received is parsed.
AssignmentInHand == upc = "assigning" <=> assignment # "none"

\* The part of the invariant a careful owner keeps: it subscribes and cleans up
\* with no loop thread about, so that only the thread client->loop names runs,
\* and a message is handed to the callback that was tested.
CarefulState ==
    /\ ~misused
    /\ pipes # "freed"
    /\ assignment # "broken"
    /\ upc \in {"subscribing", "assigning"} => Calm /\ ~Registered
    /\ upc = "cleaning" => Calm
    /\ ~alive => Calm /\ upc = "gone"
    /\ upc = "join" => loop # NoLoop
    /\ \A t \in Loops : loopPc[t] \notin {"none", "done"} => loop = t
    /\ \A t \in Loops : loopPc[t] = "call" => callback
    /\ state = "RUNNING" /\ alive => loop # NoLoop /\ loopPc[loop] \in InLoop

Inductive ==
    /\ TypeOK
    /\ AssignmentInHand
    /\ Careful => CarefulState

-----------------------------------------------------------------------------

LEMMA InductiveInit == Init => Inductive
BY ClientAssumption DEF Init, Inductive, TypeOK, AssignmentInHand, CarefulState, Calm, Careful,
   Registered

\* Every step keeps the types and the owner, and what is in hand.
LEMMA TypeStep ==
    ASSUME TypeOK, AssignmentInHand, [Next]_vars
    PROVE  TypeOK' /\ AssignmentInHand'
<1> USE DEF TypeOK, AssignmentInHand, CallFrom, Settled, Registered
<1>1. CASE UNCHANGED vars
    BY <1>1 DEF vars
<1>2. CASE OwnerCalls
    <2>1. CASE LoopStart
        BY <2>1 DEF LoopStart, InLoop
    <2> QED
        BY <1>2, <2>1 DEF OwnerCalls, Subscribe, Unsubscribe, Send, SetReceivedCb, Cleanup, LoopStop
<1>3. CASE OwnerContinues
    <2>1. CASE SubscribeFails \/ AssignmentArrives
        BY <2>1 DEF SubscribeFails, AssignmentArrives, Assignments
    <2>2. CASE AssignmentParsed
        BY <2>2 DEF AssignmentParsed
    <2>3. CASE UnsubscribeFails \/ UnsubscribeSent \/ CleanupFrees
        BY <2>3 DEF UnsubscribeFails, UnsubscribeSent, CleanupFrees
    <2>4. CASE LoopJoined \/ JoinUndefined
        BY <2>4 DEF LoopJoined, JoinUndefined
    <2> QED
        BY <1>3, <2>1, <2>2, <2>3, <2>4 DEF OwnerContinues
<1>4. CASE \E t \in Loops : LoopStep(t)
    <2> PICK t \in Loops : LoopStep(t)
        BY <1>4
    <2> USE DEF LoopGoes, LoopDone, InLoop
    <2>1. CASE LoopBegins(t) \/ LoopTests(t)
        BY <2>1 DEF LoopBegins, LoopTests
    <2>2. CASE LoopReceivesNothing(t) \/ LoopReceives(t)
        <3>1. misused' \in BOOLEAN
            BY <2>2, Zenon DEF LoopReceivesNothing, LoopReceives
        <3> QED
            BY <2>2, <3>1 DEF LoopReceivesNothing, LoopReceives
    <2>3. CASE LoopDelivers(t) \/ LoopCalls(t)
        BY <2>3 DEF LoopDelivers, LoopCalls
    <2>4. CASE LoopAcknowledges(t) \/ LoopAcknowledged(t)
        BY <2>4 DEF LoopAcknowledges, LoopAcknowledged
    <2> QED
        BY <2>1, <2>2, <2>3, <2>4 DEF LoopStep
<1> QED
    BY <1>1, <1>2, <1>3, <1>4 DEF Next

\* Every step of a careful owner's client keeps its part.
LEMMA CarefulStep ==
    ASSUME TypeOK, AssignmentInHand, Careful, CarefulState, [Next]_vars
    PROVE  CarefulState'
<1> USE ClientAssumption DEF TypeOK, AssignmentInHand, CarefulState, Careful, CallFrom,
                             Settled, Registered, Calm
<1>1. CASE UNCHANGED vars
    BY <1>1 DEF vars
<1>2. CASE OwnerCalls
    <2>1. CASE Subscribe \/ Unsubscribe \/ Send
        BY <2>1 DEF Subscribe, Unsubscribe, Send
    <2>2. CASE SetReceivedCb \/ Cleanup
        BY <2>2 DEF SetReceivedCb, Cleanup
    <2>3. CASE LoopStart
        <3>1. PICK t \in Loops : loop' = t /\ loopPc' = [loopPc EXCEPT ![t] = "start"]
            BY <2>3 DEF LoopStart
        <3>2. t # NoLoop /\ \A s \in Loops : loopPc'[s] = IF s = t THEN "start" ELSE loopPc[s]
            BY <3>1
        <3>3. Calm /\ upc' = "idle" /\ state' = "SUBSCRIBED" /\ alive
            BY <2>3 DEF LoopStart
        <3> QED
            BY <2>3, <3>1, <3>2, <3>3 DEF LoopStart
    <2>4. CASE LoopStop
        BY <2>4 DEF LoopStop
    <2> QED
        BY <1>2, <2>1, <2>2, <2>3, <2>4 DEF OwnerCalls
<1>3. CASE OwnerContinues
    <2>1. CASE SubscribeFails \/ AssignmentArrives
        BY <2>1 DEF SubscribeFails, AssignmentArrives, Assignments
    <2>2. CASE AssignmentParsed
        BY <2>2 DEF AssignmentParsed
    <2>3. CASE UnsubscribeFails \/ UnsubscribeSent \/ CleanupFrees
        BY <2>3 DEF UnsubscribeFails, UnsubscribeSent, CleanupFrees
    <2>4. CASE LoopJoined \/ JoinUndefined
        BY <2>4 DEF LoopJoined, JoinUndefined, InLoop
    <2> QED
        BY <1>3, <2>1, <2>2, <2>3, <2>4 DEF OwnerContinues
<1>4. CASE \E t \in Loops : LoopStep(t)
    <2> PICK t \in Loops : LoopStep(t)
        BY <1>4
    <2> USE DEF LoopGoes, LoopDone, InLoop
    <2>0. loopPc[t] \notin {"none", "done"} => alive /\ loop = t
        OBVIOUS
    <2>1. CASE LoopBegins(t)
        BY <2>0, <2>1 DEF LoopBegins
    <2>2. CASE LoopTests(t)
        BY <2>0, <2>2 DEF LoopTests
    <2>3. CASE LoopReceivesNothing(t) \/ LoopReceives(t)
        BY <2>0, <2>3 DEF LoopReceivesNothing, LoopReceives
    <2>4. CASE LoopDelivers(t)
        BY <2>0, <2>4 DEF LoopDelivers
    <2>5. CASE LoopCalls(t)
        BY <2>0, <2>5 DEF LoopCalls
    <2>6. CASE LoopAcknowledges(t) \/ LoopAcknowledged(t)
        BY <2>0, <2>6 DEF LoopAcknowledges, LoopAcknowledged
    <2> QED
        BY <2>1, <2>2, <2>3, <2>4, <2>5, <2>6 DEF LoopStep
<1> QED
    BY <1>1, <1>2, <1>3, <1>4 DEF Next

\* Who owns the client does not change.
LEMMA OwnerStays ==
    ASSUME [Next]_vars
    PROVE  owner' = owner
BY DEF Next, vars, OwnerCalls, OwnerContinues, LoopStep, Subscribe, SubscribeFails,
   AssignmentArrives, AssignmentParsed, Unsubscribe, UnsubscribeFails, UnsubscribeSent, Send,
   Cleanup, CleanupFrees, SetReceivedCb, LoopStart, LoopStop, LoopJoined, JoinUndefined,
   LoopBegins, LoopTests, LoopReceivesNothing, LoopReceives, LoopDelivers, LoopCalls,
   LoopAcknowledges, LoopAcknowledged

LEMMA InductiveStep == Inductive /\ [Next]_vars => Inductive'
BY TypeStep, CarefulStep, OwnerStays DEF Inductive, Careful

LEMMA InductiveHolds == Spec => []Inductive
BY InductiveInit, InductiveStep, PTL DEF Spec

-----------------------------------------------------------------------------

\* The variables of a client keep their types, whatever its owner and its loop
\* threads do (src/client.c).
THEOREM ClientTypes == Spec => []TypeOK
<1>1. Inductive => TypeOK
    BY DEF Inductive
<1> QED
    BY <1>1, InductiveHolds, PTL

\* A careful owner, whatever arrives and however its loop thread runs, is never
\* made to use freed memory (octopipes_cleanup, octopipes_subscribe, octopipes_loop).
THEOREM CarefulIsSafe == Spec => []CarefulUsesNoFreed
<1>1. Inductive => CarefulUsesNoFreed
    BY DEF Inductive, CarefulState, CarefulUsesNoFreed
<1> QED
    BY <1>1, InductiveHolds, PTL

\* A careful owner's client that says RUNNING has exactly one thread in its loop
\* (octopipes_loop_start, octopipes_loop).
THEOREM RunningIsLooping == Spec => []RunningMeansLooping
<1>1. Inductive => RunningMeansLooping
    BY DEF Inductive, CarefulState, RunningMeansLooping, TypeOK
<1> QED
    BY <1>1, InductiveHolds, PTL

-----------------------------------------------------------------------------
(* The programs *)

LEMMA ProgramStep == [ProgramNext]_allVars => [Next]_vars
<1> USE DEF Next, vars, OwnerCalls, OwnerContinues, LoopStep
<1>1. ASSUME MainSetsCallback \/ MainSubscribes \/ MainSends \/ MainStarts
      PROVE  [Next]_vars
    BY <1>1 DEF MainSetsCallback, MainSubscribes, MainSends, MainStarts
<1>2. ASSUME MainWaited \/ MainUnsubscribes \/ MainStops \/ MainExits \/ MainReturns
      PROVE  [Next]_vars
    BY <1>2 DEF MainWaited, MainUnsubscribes, MainStops, MainExits, MainReturns
<1>3. ASSUME NEW t \in Loops, LoopThread(t)
      PROVE  [Next]_vars
    BY <1>3 DEF LoopThread, OnReceived
<1>4. ASSUME handleSigterm \/ OfOwnAccord(OwnerCalls) \/ OfOwnAccord(OwnerContinues)
      PROVE  [Next]_vars
    BY <1>4 DEF handleSigterm, OfOwnAccord
<1>5. UNCHANGED allVars => UNCHANGED vars
    BY DEF allVars
<1> QED
    BY <1>1, <1>2, <1>3, <1>4, <1>5 DEF ProgramNext, Main

\* The programs of src/clients use the client as some owner of ClientLife may:
\* what holds of every owner holds of them (main of octopipes_sub.c and
\* octopipes_send.c).
THEOREM ProgramsAreOwners == ProgramSpec => Spec
<1>1. ProgramInit => Init
    BY DEF ProgramInit
<1> QED
    BY <1>1, ProgramStep, PTL DEF ProgramSpec, Spec

\* What a program's line says of its client: only the thread client->loop names
\* exists, only octopipes_sub makes one, and one that ended while main joins it
\* has seen STOPPED.
ProgramState ==
    /\ \A t \in Loops : t # loop => loopPc[t] = "none"
    /\ loop # NoLoop => Sub /\ line \in {"wait", "unsubscribe", "stop", "exit", "return", "ended"}
    /\ line \in {"start", "wait", "stop"} => Sub
    /\ upc = "join" =>
          /\ line = "stop"
          /\ state \in {"STOPPED", "RUNNING"}
          /\ loop # NoLoop /\ loopPc[loop] = "done" => state = "STOPPED"
    /\ line \in {"exit", "return", "ended"} /\ rc = "SUCCESS" => loop = NoLoop /\ ~Registered

ProgramInductive == TypeOK /\ (Program => ProgramState)

LEMMA ProgramStateInit == ProgramInit => ProgramInductive
<1> SUFFICES ASSUME ProgramInit PROVE ProgramInductive
    OBVIOUS
<1>1. TypeOK
    BY InductiveInit DEF ProgramInit, Inductive
<1>2. Program => line \in {"callback", "subscribe"}
    BY DEF ProgramInit, Program, Sub
<1> QED
    BY <1>1, <1>2 DEF ProgramInit, Init, ProgramInductive, ProgramState

LEMMA ProgramStateStep ==
    ASSUME TypeOK, Program, ProgramState, [ProgramNext]_allVars
    PROVE  ProgramState'
<1> USE ClientAssumption DEF ProgramState, Program, Sub, CallFrom, Registered
<1>0. ASSUME UNCHANGED allVars
      PROVE  ProgramState'
    BY <1>0 DEF allVars, vars, programVars
<1>1. CASE Main
    <2> USE DEF Goes, Stays, Fails, programVars
    <2>1. CASE MainSetsCallback
        BY <2>1 DEF MainSetsCallback, SetReceivedCb
    <2>2. CASE MainSubscribes
        BY <2>2 DEF MainSubscribes, Subscribe, SubscribeFails, AssignmentArrives, AssignmentParsed
    <2>3. CASE MainSends
        BY <2>3 DEF MainSends, Send
    <2>4. CASE MainStarts
        <3>1. CASE UNCHANGED vars
            BY <2>4, <3>1 DEF MainStarts, vars, LoopStart
        <3>2. CASE LoopStart
            <4>1. PICK t \in Loops : loop' = t /\ loopPc' = [loopPc EXCEPT ![t] = "start"]
                BY <3>2 DEF LoopStart
            <4>2. line = "start" /\ line' \in {"wait", "exit"}
                BY <2>4 DEF MainStarts
            <4>3. line' = "exit" => UNCHANGED vars
                BY <2>4 DEF MainStarts
            <4>4. loop = NoLoop /\ upc' = "idle" /\ owner' = owner
                BY <3>2, <4>2 DEF LoopStart
            <4>5. line' = "wait"
                BY <4>1, <4>2, <4>3, <4>4 DEF vars
            <4> QED
                BY <4>1, <4>2, <4>4, <4>5 DEF TypeOK
        <3> QED
            BY <2>4, <3>1, <3>2 DEF MainStarts
    <2>5. CASE MainWaited
        BY <2>5 DEF MainWaited, vars
    <2>6. CASE MainUnsubscribes
        BY <2>6 DEF MainUnsubscribes, AfterUnsubscribe, Unsubscribe, UnsubscribeFails, UnsubscribeSent
    <2>7. CASE MainStops
        <3>1. CASE LoopJoined
            BY <2>7, <3>1 DEF MainStops, LoopJoined, LoopStop, vars, TypeOK
        <3>2. CASE ~LoopJoined
            BY <2>7, <3>2 DEF MainStops, LoopStop, vars
        <3> QED
            BY <3>1, <3>2
    <2>8. CASE MainExits
        BY <2>8 DEF MainExits, Cleanup, CleanupFrees
    <2>9. CASE MainReturns
        BY <2>9 DEF MainReturns, vars
    <2> QED
        BY <1>1, <2>1, <2>2, <2>3, <2>4, <2>5, <2>6, <2>7, <2>8, <2>9 DEF Main
<1>2. CASE \E t \in Loops : LoopThread(t)
    <2> PICK t \in Loops : LoopThread(t)
        BY <1>2
    <2>1. /\ UNCHANGED <<owner, upc, loop, line, rc>>
          /\ loopPc[t] # "none"
          /\ \/ UNCHANGED state
             \/ loopPc[t] = "start" /\ state' = "RUNNING"
          /\ \E pc \in {"test", "receive", "deliver", "call", "ack", "acking", "done"} :
                /\ loopPc' = [loopPc EXCEPT ![t] = pc]
                /\ pc = "done" => state # "RUNNING" /\ UNCHANGED state
        BY DEF LoopThread, OnReceived, LoopBegins, LoopTests, LoopReceivesNothing, LoopReceives,
               LoopDelivers, LoopCalls, LoopAcknowledges, LoopAcknowledged, LoopDone, LoopGoes,
               programVars
    <2>2. loop = t
        BY <2>1
    <2> QED
        BY <2>1, <2>2 DEF TypeOK
<1>3. CASE handleSigterm
    BY <1>3 DEF handleSigterm, vars
<1>4. CASE OfOwnAccord(OwnerCalls) \/ OfOwnAccord(OwnerContinues)
    BY <1>4 DEF OfOwnAccord
<1> QED
    BY <1>0, <1>1, <1>2, <1>3, <1>4 DEF ProgramNext

LEMMA ProgramInductiveHolds == ProgramSpec => []ProgramInductive
<1>1. ProgramInductive /\ TypeOK' /\ [ProgramNext]_allVars => ProgramInductive'
    <2>1. [ProgramNext]_allVars => owner' = owner
        BY ProgramStep, OwnerStays
    <2>2. [ProgramNext]_allVars /\ Program' => Program
        BY <2>1 DEF Program, Sub
    <2> QED
        BY <2>2, ProgramStateStep DEF ProgramInductive
<1>2. ProgramSpec => []TypeOK
    BY ProgramsAreOwners, ClientTypes, PTL
<1> QED
    BY <1>1, <1>2, ProgramStateInit, PTL DEF ProgramSpec

\* octopipes_sub or octopipes_send that returns without an error has ended its
\* registration and joined its loop thread, whatever raced with it.
THEOREM SuccessIsClean == ProgramSpec => []SuccessLeavesNothing
<1>1. ProgramInductive => SuccessLeavesNothing
    BY ClientAssumption DEF ProgramInductive, ProgramState, SuccessLeavesNothing
<1> QED
    BY <1>1, ProgramInductiveHolds, PTL

\* What a program has in hand before it may misuse it: nothing until it has
\* subscribed, its callback from then on, and its client until it is returning;
\* pipe names it has lost made it leave with an error.
ProgramHolds ==
    /\ line \in {"callback", "subscribe"} => state = "INIT" /\ pipes = "null"
    /\ Sub => (callback <=> line # "callback")
    /\ ~alive => line \in {"return", "ended"}
    /\ pipes = "freed" => rc = "ERROR"
    /\ misused => rc = "ERROR" /\ (pipes = "freed" \/ loop # NoLoop)

\* A step of a loop thread: it is the one client->loop names, and what it may
\* misuse is a client that was freed, pipe names that were, or no callback.
LEMMA LoopThreadSteps ==
    ASSUME TypeOK, Program, ProgramState, NEW t \in Loops, LoopThread(t)
    PROVE  /\ UNCHANGED <<owner, pipes, upc, assignment, loop, callback, alive>>
           /\ UNCHANGED <<line, rc, count, sigterm_called, hurried>>
           /\ loop = t /\ loopPc[t] # "none"
           /\ misused' => misused \/ ~alive \/ pipes = "freed" \/ (Sub /\ ~callback)
<1>1. /\ UNCHANGED <<owner, pipes, upc, assignment, loop, callback, alive>>
      /\ UNCHANGED <<line, rc, count, sigterm_called, hurried>>
      /\ loopPc[t] # "none"
    BY DEF LoopThread, OnReceived, LoopBegins, LoopTests, LoopReceivesNothing, LoopReceives,
           LoopDelivers, LoopCalls, LoopAcknowledges, LoopAcknowledged, LoopDone, LoopGoes,
           programVars
<1>2. loop = t
    BY <1>1 DEF ProgramState
<1>3. Sub
    BY <1>2, ClientAssumption DEF ProgramState
<1>4. misused' => misused \/ ~alive \/ pipes = "freed" \/ ~callback
    BY Zenon
    DEF LoopThread, OnReceived, LoopBegins, LoopTests, LoopReceivesNothing, LoopReceives,
        LoopDelivers, LoopCalls, LoopAcknowledges, LoopAcknowledged
<1> QED
    BY <1>1, <1>2, <1>3, <1>4

LEMMA ProgramHoldsStep ==
    ASSUME ProgramTypeOK, Program, ProgramState, ProgramHolds, [ProgramNext]_allVars
    PROVE  ProgramHolds'
<1> USE DEF ProgramHolds, Program, Sub, CallFrom, Registered
<1>1. CASE Main
    <2> USE DEF Goes, Stays, Fails, programVars, vars
    <2>1. CASE MainSetsCallback
        <3>1. line = "callback" /\ line' = "subscribe"
              /\ UNCHANGED <<owner, state, pipes, loop, alive, misused, rc>>
            BY <2>1 DEF MainSetsCallback, SetReceivedCb
        <3>2. callback' = ~callback
            BY <2>1, Zenon DEF MainSetsCallback, SetReceivedCb
        <3>3. Sub => callback'
            BY <3>1, <3>2, Zenon
        <3> QED
            BY <3>1, <3>3
    <2>2. CASE MainSubscribes
        <3>1. line = "subscribe" /\ pipes # "freed"
            BY <2>2 DEF MainSubscribes
        <3>2. misused' => misused
            <4>1. CASE AssignmentArrives
                BY <3>1, <4>1, Zenon DEF AssignmentArrives
            <4>2. CASE ~AssignmentArrives
                BY <2>2, <4>2 DEF MainSubscribes, Subscribe, SubscribeFails, AssignmentParsed
            <4> QED
                BY <4>1, <4>2
        <3> QED
            BY <2>2, <3>1, <3>2
            DEF MainSubscribes, Subscribe, SubscribeFails, AssignmentArrives, AssignmentParsed
    <2>3. CASE MainSends
        <3>1. misused' => pipes = "freed"
            BY <2>3, Zenon DEF MainSends, Send
        <3> QED
            BY <2>3, <3>1 DEF MainSends, Send
    <2>4. CASE MainStarts \/ MainWaited
        <3>1. /\ UNCHANGED <<owner, state, pipes, callback, alive, misused>>
              /\ loop' = loop \/ (loop' \in Loops /\ ~misused)
              /\ rc' \in {rc, "ERROR"}
              /\ line \in {"start", "wait"} /\ line' \in {"wait", "exit", "unsubscribe"}
            <4>1. CASE MainStarts
                BY <4>1 DEF MainStarts, LoopStart
            <4>2. CASE MainWaited
                BY <4>2, Zenon DEF MainWaited
            <4> QED
                BY <2>4, <4>1, <4>2
        <3> QED
            BY <3>1, ClientAssumption
    <2>5. CASE MainUnsubscribes
        BY <2>5 DEF MainUnsubscribes, AfterUnsubscribe, Unsubscribe, UnsubscribeFails, UnsubscribeSent
    <2>6. CASE MainStops
        BY <2>6 DEF MainStops, LoopStop, LoopJoined
    <2>7. CASE MainExits
        <3>1. misused' => misused \/ pipes = "freed"
            BY <2>7, Zenon DEF MainExits, Cleanup, CleanupFrees
        <3>2. /\ UNCHANGED <<owner, pipes, loop, callback, rc>>
              /\ line = "exit" /\ line' \in {"exit", "return"} /\ alive
            BY <2>7 DEF MainExits, Cleanup, CleanupFrees
        <3>3. line' = "return" \/ alive'
            BY <2>7, <3>2 DEF MainExits, Cleanup, CleanupFrees
        <3> QED
            BY <3>1, <3>2, <3>3
    <2>8. CASE MainReturns
        BY <2>8 DEF MainReturns
    <2> QED
        BY <1>1, <2>1, <2>2, <2>3, <2>4, <2>5, <2>6, <2>7, <2>8 DEF Main
<1>2. CASE \E t \in Loops : LoopThread(t)
    <2>1. PICK t \in Loops : LoopThread(t)
        BY <1>2
    <2>2. /\ UNCHANGED <<owner, pipes, upc, assignment, loop, callback, alive>>
          /\ UNCHANGED <<line, rc, count, sigterm_called, hurried>>
          /\ loop = t /\ loopPc[t] # "none"
          /\ misused' => misused \/ ~alive \/ pipes = "freed" \/ (Sub /\ ~callback)
        BY <2>1, LoopThreadSteps DEF ProgramTypeOK
    <2>3. loop # NoLoop /\ line \notin {"callback", "subscribe"}
        BY <2>2, ClientAssumption DEF ProgramState
    <2>4. ~alive => rc = "ERROR"
        BY <2>3 DEF ProgramState, ProgramTypeOK
    <2> QED
        BY <2>2, <2>3, <2>4
<1>3. CASE handleSigterm \/ UNCHANGED allVars
    BY <1>3 DEF handleSigterm, allVars, vars, programVars
<1>4. CASE OfOwnAccord(OwnerCalls) \/ OfOwnAccord(OwnerContinues)
    BY <1>4 DEF OfOwnAccord
<1> QED
    BY <1>1, <1>2, <1>3, <1>4 DEF ProgramNext

\* A message that is being handed to octopipes_sub is not counted yet.
Uncounted ==
    \A t \in Loops : Sub /\ loopPc[t] \in {"deliver", "call"} => message_counter < MostHeard

LEMMA ProgramTypesInit == ProgramInit => ProgramTypeOK /\ Uncounted
<1> SUFFICES ASSUME ProgramInit PROVE ProgramTypeOK /\ Uncounted
    OBVIOUS
<1>1. TypeOK
    BY InductiveInit DEF ProgramInit, Inductive
<1>2. count \in Counts \cup {-1} /\ message_counter \in 0..MostHeard
    BY CommandLineAssumption DEF ProgramInit
<1>3. Uncounted
    BY DEF ProgramInit, Init, Uncounted
<1> QED
    BY <1>1, <1>2, <1>3 DEF ProgramInit, ProgramTypeOK

\* The types of the program's own variables, but for the counter.
LEMMA LineTypesStep ==
    ASSUME ProgramTypeOK, [ProgramNext]_allVars
    PROVE  /\ line' \in {"none", "callback", "subscribe", "send", "start", "wait", "unsubscribe",
                         "stop", "exit", "return", "ended"}
           /\ rc' \in {"SUCCESS", "ERROR"}
           /\ count' = count
           /\ sigterm_called' \in BOOLEAN
           /\ hurried' \in BOOLEAN
<1> USE DEF ProgramTypeOK, programVars
<1>1. CASE Main
    <2> USE DEF Goes, Stays, Fails, AfterUnsubscribe
    <2>1. CASE MainWaited
        <3>1. hurried' \in BOOLEAN
            BY <2>1, Zenon DEF MainWaited
        <3>2. line' = "unsubscribe" /\ UNCHANGED <<rc, count, sigterm_called>>
            BY <2>1, Zenon DEF MainWaited
        <3> QED
            BY <3>1, <3>2
    <2>2. CASE MainSetsCallback \/ MainSubscribes \/ MainSends \/ MainStarts
        BY <2>2 DEF MainSetsCallback, MainSubscribes, MainSends, MainStarts
    <2>3. CASE MainUnsubscribes \/ MainStops \/ MainExits \/ MainReturns
        BY <2>3 DEF MainUnsubscribes, MainStops, MainExits, MainReturns
    <2> QED
        BY <1>1, <2>1, <2>2, <2>3 DEF Main
<1>2. CASE \E t \in Loops : LoopThread(t)
    BY <1>2 DEF LoopThread, OnReceived
<1>3. CASE handleSigterm \/ UNCHANGED allVars
    BY <1>3 DEF handleSigterm, allVars
<1>4. CASE OfOwnAccord(OwnerCalls) \/ OfOwnAccord(OwnerContinues)
    BY <1>4 DEF OfOwnAccord
<1> QED
    BY <1>1, <1>2, <1>3, <1>4 DEF ProgramNext

\* Only octopipes_sub counts, and only a message it has not counted.
LEMMA CounterStep ==
    ASSUME ProgramTypeOK, Uncounted, Program => ProgramState, [ProgramNext]_allVars
    PROVE  message_counter' \in 0..MostHeard /\ Uncounted'
<1> USE DEF Uncounted
<1>0. message_counter \in 0..MostHeard /\ MostHeard \in Nat /\ TypeOK
    BY CommandLineAssumption DEF ProgramTypeOK
<1>1. owner' = owner
    BY ProgramStep, OwnerStays
<1>2. ASSUME message_counter' = message_counter,
             \A t \in Loops : Sub /\ loopPc'[t] \in {"deliver", "call"} =>
                                  loopPc[t] \in {"deliver", "call"}
      PROVE  message_counter' \in 0..MostHeard /\ Uncounted'
    BY <1>0, <1>1, <1>2 DEF Sub
<1>3. CASE Main
    <2> USE DEF Goes, Stays, Fails, programVars
    <2>1. message_counter' = message_counter
        BY <1>3 DEF Main, MainSetsCallback, MainSubscribes, MainSends, MainStarts, MainWaited,
                    MainUnsubscribes, MainStops, MainExits, MainReturns
    <2>2. CASE MainStarts \/ MainStops
        BY <1>0, <1>2, <2>1, <2>2 DEF MainStarts, MainStops, LoopStart, LoopStop, LoopJoined, vars, TypeOK
    <2>3. CASE MainSetsCallback \/ MainSubscribes \/ MainSends \/ MainWaited \/ MainUnsubscribes
               \/ MainExits \/ MainReturns
        <3>1. loopPc' = loopPc
            BY <2>3 DEF MainSetsCallback, SetReceivedCb, MainSubscribes, Subscribe, SubscribeFails,
                        AssignmentArrives, AssignmentParsed, MainSends, Send, MainWaited,
                        MainUnsubscribes, Unsubscribe, UnsubscribeFails, UnsubscribeSent, MainExits,
                        Cleanup, CleanupFrees, MainReturns, vars
        <3> QED
            BY <1>2, <2>1, <3>1
    <2> QED
        BY <1>3, <2>2, <2>3 DEF Main
<1>4. CASE \E t \in Loops : LoopThread(t)
    <2>1. PICK t \in Loops : LoopThread(t)
        BY <1>4
    <2> USE DEF LoopGoes, LoopDone
    <2>2. CASE OnReceived(t)
        <3>1. Sub /\ loopPc[t] = "call" /\ loopPc' \in {[loopPc EXCEPT ![t] = pc] : pc \in {"test", "ack"}}
              /\ message_counter' = message_counter + 1
            BY <2>2 DEF OnReceived, LoopCalls
        <3>2. message_counter < MostHeard
            BY <3>1
        <3>3. loop = t /\ \A s \in Loops : s # t => loopPc[s] = "none"
            BY <3>1 DEF Program, Sub, ProgramState
        <3>4. \A s \in Loops : loopPc'[s] \notin {"deliver", "call"}
            BY <1>0, <3>1, <3>3 DEF TypeOK
        <3>5. message_counter + 1 \in 0..MostHeard
            BY <1>0, <3>2
        <3> QED
            BY <3>1, <3>4, <3>5
    <2>3. CASE message_counter < MostHeard /\ LoopReceives(t) /\ UNCHANGED programVars
        BY <1>0, <2>3 DEF programVars
    <2>4. CASE /\ UNCHANGED programVars
               /\ \/ LoopBegins(t) \/ LoopTests(t) \/ LoopReceivesNothing(t)
                  \/ LoopDelivers(t) \/ LoopAcknowledges(t) \/ LoopAcknowledged(t)
                  \/ ~Sub /\ LoopCalls(t)
        BY <1>0, <1>2, <2>4
        DEF LoopBegins, LoopTests, LoopReceivesNothing, LoopDelivers, LoopAcknowledges,
            LoopAcknowledged, programVars, TypeOK
    <2> QED
        BY <2>1, <2>2, <2>3, <2>4 DEF LoopThread
<1>5. CASE handleSigterm \/ UNCHANGED allVars
    BY <1>2, <1>5 DEF handleSigterm, allVars, vars, programVars
<1>6. CASE OfOwnAccord(OwnerCalls) \/ OfOwnAccord(OwnerContinues)
    BY <1>0, <1>1, <1>6 DEF OfOwnAccord, Program, Sub, programVars
<1> QED
    BY <1>3, <1>4, <1>5, <1>6 DEF ProgramNext

\* The variables of the programs keep their types, and octopipes_sub counts a
\* message once (on_received).
THEOREM ProgramTypes == ProgramSpec => []ProgramTypeOK
<1>1. ProgramInductive /\ ProgramTypeOK /\ Uncounted /\ TypeOK' /\ [ProgramNext]_allVars
        => ProgramTypeOK' /\ Uncounted'
    BY LineTypesStep, CounterStep DEF ProgramTypeOK, ProgramInductive
<1> QED
    BY <1>1, ProgramTypesInit, ProgramInductiveHolds, ProgramsAreOwners, ClientTypes, PTL
    DEF ProgramSpec

\* octopipes_sub and octopipes_send use memory they have freed, or a callback
\* they have not set, in no case but on the way out after an error: with a loop
\* thread left running, or with pipe names an assignment that did not parse left.
THEOREM ProgramsAreSafe == ProgramSpec => []ProgramsUseNoFreed
<1>1. ProgramInit => (Program => ProgramHolds)
    BY DEF ProgramInit, Init, Program, Sub, ProgramHolds
<1>2. ProgramTypeOK /\ ProgramInductive /\ (Program => ProgramHolds) /\ [ProgramNext]_allVars
        => (Program => ProgramHolds)'
    <2>1. [ProgramNext]_allVars /\ Program' => Program
        BY ProgramStep, OwnerStays DEF Program, Sub
    <2> QED
        BY <2>1, ProgramHoldsStep DEF ProgramInductive
<1>3. (Program => ProgramHolds) => ProgramsUseNoFreed
    BY DEF ProgramHolds, ProgramsUseNoFreed
<1> QED
    BY <1>1, <1>2, <1>3, ProgramTypes, ProgramInductiveHolds, PTL DEF ProgramSpec
=============================================================================
