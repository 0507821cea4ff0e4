---------------------------- MODULE CommandLine ----------------------------
(***************************************************************************)
(* The programs octopipes_sub and octopipes_send of src/clients as owners  *)
(* of the client of ClientLife: main calls the client line by line, leaves *)
(* for exit at the first error and frees the client there, while the loop  *)
(* thread of octopipes_sub counts messages and a signal may come at any    *)
(* time.  Owners that are neither of the two make the calls of ClientLife   *)
(* of their own accord.                                                    *)
(***************************************************************************)
EXTENDS ClientLife, Integers

CONSTANTS
    Counts,     \* what octopipes_sub -c may be given, -1 for no limit
    MostHeard   \* bound: the messages that arrive

ASSUME CommandLineAssumption ==
    Counts \subseteq Nat \cup {-1} /\ MostHeard \in Nat

VARIABLES
    line,             \* where main is
    rc,               \* what main will return: no error so far, or an error
    count,
    sigterm_called,
    message_counter,
    hurried           \* history: the wait was over before the loop thread ran

programVars == <<line, rc, count, sigterm_called, message_counter, hurried>>
allVars == <<vars, programVars>>

Sub == owner = "sub"
Program == owner \in {"sub", "send"}

\* After octopipes_init.
ProgramInit ==
    /\ Init
    /\ line = CASE Sub -> "callback" [] owner = "send" -> "subscribe" [] OTHER -> "none"
    /\ rc = "SUCCESS"
    /\ count \in IF Sub THEN Counts ELSE {-1}
    /\ sigterm_called = FALSE
    /\ message_counter = 0
    /\ hurried = FALSE

Stays(from) == line = from /\ UNCHANGED programVars

Goes(from, to) ==
    /\ line = from /\ line' = to
    /\ UNCHANGED <<rc, count, sigterm_called, message_counter, hurried>>

\* A call that failed: its error is what main returns.
Fails(from) ==
    /\ line = from /\ line' = "exit" /\ rc' = "ERROR"
    /\ UNCHANGED <<count, sigterm_called, message_counter, hurried>>

-----------------------------------------------------------------------------
(* The lines of main *)

MainSetsCallback == Goes("callback", "subscribe") /\ SetReceivedCb

\* A refused subscription succeeds: assignment_error is not looked at.
MainSubscribes ==
    \/ Stays("subscribe") /\ (Subscribe \/ AssignmentArrives)
    \/ Fails("subscribe") /\ SubscribeFails
    \/ Fails("subscribe") /\ assignment = "broken" /\ AssignmentParsed
    \/ Goes("subscribe", IF Sub THEN "start" ELSE "send") /\ assignment # "broken" /\ AssignmentParsed

\* octopipes_send fails without pipes, and may fail with them.
MainSends ==
    \/ Fails("send") /\ Send
    \/ Goes("send", "unsubscribe") /\ pipes = "valid" /\ Send

\* pthread_create may fail.
MainStarts ==
    \/ Goes("start", "wait") /\ LoopStart
    \/ Fails("start") /\ UNCHANGED vars

\* Faulty variant: a signal does not end the wait.
WaitOverByCount == count # -1 /\ message_counter >= count

WaitOver == sigterm_called \/ (count # -1 /\ message_counter >= count)

\* main sleeps a second at a time until the wait is over.
MainWaited ==
    /\ line = "wait" /\ line' = "unsubscribe"
    /\ WaitOver
    /\ hurried' = \E t \in Loops : loopPc[t] = "start"
    /\ UNCHANGED <<vars, rc, count, sigterm_called, message_counter>>

AfterUnsubscribe == IF Sub THEN "stop" ELSE "exit"

\* Faulty variant: octopipes_sub leaves its loop to octopipes_cleanup.
MainUnsubscribesAndLeaves ==
    \/ Stays("unsubscribe") /\ Unsubscribe
    \/ Fails("unsubscribe") /\ UnsubscribeFails
    \/ Goes("unsubscribe", "exit") /\ UnsubscribeSent

\* Faulty variant: an unsubscription that failed is passed over.
MainUnsubscribesAnyway ==
    \/ Stays("unsubscribe") /\ Unsubscribe
    \/ Goes("unsubscribe", "exit") /\ UnsubscribeFails
    \/ Goes("unsubscribe", AfterUnsubscribe) /\ UnsubscribeSent

MainUnsubscribes ==
    \/ Stays("unsubscribe") /\ Unsubscribe
    \/ Fails("unsubscribe") /\ UnsubscribeFails
    \/ Goes("unsubscribe", AfterUnsubscribe) /\ UnsubscribeSent

\* octopipes_loop_stop refuses when the state is no longer UNSUBSCRIBED.
MainStops ==
    \/ Stays("stop") /\ LoopStop
    \/ Goes("stop", "exit") /\ LoopJoined
    \/ Fails("stop") /\ CallFrom("idle") /\ state # "UNSUBSCRIBED" /\ UNCHANGED vars

MainExits ==
    \/ Stays("exit") /\ Cleanup
    \/ Goes("exit", "return") /\ CleanupFrees

\* The process ends, and its threads with it.
MainReturns == Goes("return", "ended") /\ ~misused /\ UNCHANGED vars

Main ==
    \/ MainSetsCallback \/ MainSubscribes \/ MainSends \/ MainStarts \/ MainWaited
    \/ MainUnsubscribes \/ MainStops \/ MainExits \/ MainReturns

-----------------------------------------------------------------------------

\* Faulty variant: the counter counts down.
OnReceivedDown(t) ==
    /\ Sub /\ LoopCalls(t)
    /\ message_counter' = message_counter - 1
    /\ UNCHANGED <<line, rc, count, sigterm_called, hurried>>

\* on_received counts the message, in the loop thread.
OnReceived(t) ==
    /\ Sub /\ LoopCalls(t)
    /\ message_counter' = message_counter + 1
    /\ UNCHANGED <<line, rc, count, sigterm_called, hurried>>

LoopThread(t) ==
    /\ line # "ended"
    /\ \/ OnReceived(t)
       \/ message_counter < MostHeard /\ LoopReceives(t) /\ UNCHANGED programVars
       \/ /\ UNCHANGED programVars
          /\ \/ LoopBegins(t) \/ LoopTests(t) \/ LoopReceivesNothing(t)
             \/ LoopDelivers(t) \/ LoopAcknowledges(t) \/ LoopAcknowledged(t)
             \/ ~Sub /\ LoopCalls(t)

OfOwnAccord(Calls) == ~Program /\ Calls /\ UNCHANGED programVars

\* SIGTERM or SIGINT, for which only octopipes_sub has a handler.
handleSigterm ==
    /\ Sub /\ ~sigterm_called /\ line # "ended"
    /\ sigterm_called' = TRUE
    /\ UNCHANGED <<vars, line, rc, count, message_counter, hurried>>

ProgramNext ==
    \/ Main \/ handleSigterm \/ OfOwnAccord(OwnerCalls) \/ OfOwnAccord(OwnerContinues)
    \/ \E t \in Loops : LoopThread(t)

\* Calls return, sleeps end and threads run.
ProgramSpec ==
    /\ ProgramInit /\ [][ProgramNext]_allVars
    /\ WF_allVars(Main) /\ WF_allVars(OfOwnAccord(OwnerContinues))
    /\ \A t \in Loops : WF_allVars(LoopThread(t))

-----------------------------------------------------------------------------

\* The type invariant.
ProgramTypeOK ==
    /\ TypeOK
    /\ line \in {"none", "callback", "subscribe", "send", "start", "wait", "unsubscribe", "stop",
                 "exit", "return", "ended"}
    /\ rc \in {"SUCCESS", "ERROR"}
    /\ count \in Counts \cup {-1}
    /\ sigterm_called \in BOOLEAN
    /\ message_counter \in 0..MostHeard
    /\ hurried \in BOOLEAN

\* A program uses freed memory only on its way out after an error, which it does
\* not guard against: an assignment did not parse, or octopipes_sub goes to exit
\* with its loop running (octopipes_sub.c, main, from the wait to exit).
ProgramsUseNoFreed ==
    Program /\ misused => rc = "ERROR" /\ (pipes = "freed" \/ loop # NoLoop)

\* A program that returns without an error has ended its registration and
\* joined its loop thread, whatever raced with it (the calls of main from
\* octopipes_unsubscribe on).
SuccessLeavesNothing ==
    Program /\ line = "ended" /\ rc = "SUCCESS" => ~Registered /\ \A t \in Loops : loopPc[t] = "none"

\* octopipes_send always ends, and octopipes_sub after a signal or the count
\* of messages, with the same exceptions ("terminate main loop", handleSigterm).
ProgramsEnd ==
    Program /\ (~Sub \/ sigterm_called \/ (count # -1 /\ message_counter >= count))
        ~> line = "ended" \/ misused \/ hurried
=============================================================================
