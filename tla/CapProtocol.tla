---------------------------- MODULE CapProtocol ----------------------------
(***************************************************************************)
(* The CAP server together with clients that run octopipes_subscribe and    *)
(* octopipes_unsubscribe of src/client.c.  Every client step on the FIFO is *)
(* one of the steps CapServer allows a client, so what is proved of         *)
(* CapServer holds here too.                                                *)
(*                                                                          *)
(* The CAP is one FIFO for both directions: a client that waits for its     *)
(* assignment reads whatever is in it, requests and assignments of others   *)
(* included, and whoever reads first gets everything.                       *)
(***************************************************************************)
EXTENDS CapServer

CONSTANTS
    MaxCalls,    \* bound: calls of subscribe by each client
    Strangers    \* programs that write other things than requests to the CAP

ASSUME ProtocolAssumption == MaxCalls \in [Clients -> Nat] /\ Strangers \subseteq Clients

VARIABLES
    cpc,       \* where the client's thread is in octopipes_subscribe or _unsubscribe
    joined,    \* the clients whose state is SUBSCRIBED or RUNNING
    got,       \* what a client's pipe_receive has read so far, the first frame of it
    result,    \* what the client's last subscribe returned
    calls,     \* how many calls of subscribe each client has made
    stale      \* history: the clients that an ended server has left with something,
               \* and that were not informed anew since

clientVars == <<cpc, joined, got, result, calls>>
protocolVars == <<vars, clientVars, stale>>

ProtocolInit ==
    /\ Init
    /\ cpc = [c \in Clients |-> "idle"]
    /\ joined = {}
    /\ got = [c \in Clients |-> NoEntry]
    /\ result = [c \in Clients |-> "NONE"]
    /\ calls = [c \in Clients |-> 0]
    /\ stale = {}

At(c, pc) == cpc[c] = pc
Goes(c, from, to) == At(c, from) /\ cpc' = [cpc EXCEPT ![c] = to]
Returns(c, code) == result' = [result EXCEPT ![c] = code]

Calls(c, to) ==
    /\ Goes(c, "idle", to)
    /\ UNCHANGED <<joined, got>>

-----------------------------------------------------------------------------
(* octopipes_subscribe *)

\* No state of the client forbids a subscription.
Subscribe(c) ==
    /\ Calls(c, "sub_open")
    /\ calls[c] < MaxCalls[c]
    /\ calls' = [calls EXCEPT ![c] = @ + 1]
    /\ Returns(c, "NONE")
    /\ UNCHANGED vars

\* octopipes_unsubscribe: NOT_SUBSCRIBED is returned, and nothing done, otherwise.
Unsubscribe(c) ==
    /\ c \in joined
    /\ Calls(c, "unsub_open")
    /\ UNCHANGED <<result, calls, vars>>

Sending == {"sub_open", "unsub_open"}
NextAfterOpen(pc) == IF pc = "sub_open" THEN "sub_write" ELSE "unsub_write"

\* pipe_send of either, which tries to open the CAP for 5 seconds.
SendOpensCap(c) ==
    /\ cpc[c] \in Sending
    /\ ClientOpensToWrite(c)
    /\ cpc' = [cpc EXCEPT ![c] = NextAfterOpen(@)]
    /\ UNCHANGED <<joined, got, result, calls>>

SendGivesUp(c) ==
    /\ cpc[c] \in Sending
    /\ ~(capExists /\ HasReader)
    /\ IF At(c, "sub_open") THEN Returns(c, "OPEN_FAILED") ELSE UNCHANGED result
    /\ cpc' = [cpc EXCEPT ![c] = "idle"]
    /\ UNCHANGED <<joined, got, calls, vars>>

SubscriptionWritten(c) ==
    /\ Goes(c, "sub_write", "sub_close")
    /\ ClientWrites(c, "SUBSCRIPTION")
    /\ UNCHANGED <<joined, got, result, calls>>

UnsubscriptionWritten(c) ==
    /\ Goes(c, "unsub_write", "unsub_close")
    /\ ClientWrites(c, "UNSUBSCRIPTION")
    /\ UNCHANGED <<joined, got, result, calls>>

\* close, also of a FIFO that was deleted since it was opened.
Closes(c) == IF cio[c] = "none" THEN UNCHANGED vars ELSE ClientCloses(c)

\* A write into a FIFO that was deleted reaches nobody, but succeeds if another
\* client still reads there.
WrittenToDeleted(c) ==
    /\ cpc[c] \in {"sub_write", "unsub_write"} /\ cio[c] = "none"
    /\ cpc' = [cpc EXCEPT ![c] = IF @ = "sub_write" THEN "sub_close" ELSE "unsub_close"]
    /\ UNCHANGED <<joined, got, result, calls, vars>>

\* write on a FIFO nobody reads any more: SIGPIPE ends the client, and its
\* user may start it again.
WriteBreaks(c) ==
    /\ cpc[c] \in {"sub_write", "unsub_write"}
    /\ cio[c] = "none" \/ ~HasReader
    /\ Closes(c)
    /\ cpc' = [cpc EXCEPT ![c] = "idle"]
    /\ joined' = joined \ {c}
    /\ UNCHANGED <<got, result, calls>>

SubscriptionSent(c) ==
    /\ Goes(c, "sub_close", "wait_open")
    /\ Closes(c)
    /\ UNCHANGED <<joined, got, result, calls>>

UnsubscriptionSent(c) ==
    /\ Goes(c, "unsub_close", "idle")
    /\ Closes(c)
    /\ joined' = joined \ {c}
    /\ UNCHANGED <<got, result, calls>>

\* After 100 ms, in which whoever has the CAP open has read it, pipe_receive of
\* 5 seconds.
WaitOpens(c) ==
    /\ Goes(c, "wait_open", "wait")
    /\ Timed => capBuf = <<>>
    /\ ClientOpensToRead(c)
    /\ UNCHANGED <<joined, got, result, calls>>

\* The server was stopped and deleted the CAP.
WaitCannotOpen(c) ==
    /\ Goes(c, "wait_open", "idle")
    /\ ~capExists
    /\ Returns(c, "OPEN_FAILED")
    /\ UNCHANGED <<joined, got, calls, vars>>

WaitReceives(c) ==
    /\ At(c, "wait")
    /\ ClientReceives(c)
    /\ got' = [got EXCEPT ![c] = IF @ = NoEntry THEN Decode(Head(capBuf)) ELSE @]
    /\ UNCHANGED <<cpc, joined, result, calls>>

\* Faulty variant: the receive has no time limit.
WaitEndsWithData(c) ==
    /\ Goes(c, "wait", "decide")
    /\ got[c] # NoEntry
    /\ cio[c] = "reading" => capBuf = <<>>
    /\ Closes(c)
    /\ UNCHANGED <<joined, got, result, calls>>

\* The FIFO is idle: the receive is over, with what it got or with nothing.
\* A FIFO deleted meanwhile stays idle for ever.
WaitEnds(c) ==
    /\ Goes(c, "wait", "decide")
    /\ cio[c] = "reading" => capBuf = <<>>
    /\ Closes(c)
    /\ UNCHANGED <<joined, got, result, calls>>

\* Faulty variant: nobody compares the remote.
IsAssignment(m, c) == m.type \in AssignmentTypes

\* The frame was decoded and its remote is this client.
AddressedTo(m, c) == m.type \in AssignmentTypes /\ m.client = c

\* Faulty variant: the CAP error is returned as if it were an error of the client.
AssignmentPassedOn(c) ==
    /\ Goes(c, "decide", "idle")
    /\ AddressedTo(got[c], c)
    /\ joined' = joined \cup {c}
    /\ Returns(c, got[c].type)
    /\ got' = [got EXCEPT ![c] = NoEntry]
    /\ UNCHANGED <<calls, vars>>

\* octopipes_cap_parse_assign succeeds whatever CAP error the assignment
\* carries, and the state becomes SUBSCRIBED.
AssignmentAccepted(c) ==
    /\ Goes(c, "decide", "idle")
    /\ AddressedTo(got[c], c)
    /\ joined' = joined \cup {c}
    /\ Returns(c, "SUCCESS")
    /\ got' = [got EXCEPT ![c] = NoEntry]
    /\ UNCHANGED <<calls, vars>>

AssignmentRefused(c) ==
    /\ Goes(c, "decide", "idle")
    /\ ~AddressedTo(got[c], c)
    /\ Returns(c, IF got[c] = NoEntry THEN "NO_DATA_AVAILABLE" ELSE "BAD_PACKET")
    /\ got' = [got EXCEPT ![c] = NoEntry]
    /\ UNCHANGED <<joined, calls, vars>>

-----------------------------------------------------------------------------

\* A client in the middle of a call; what it does next does not depend on its user.
ClientContinues(c) ==
    \/ SendOpensCap(c) \/ SendGivesUp(c)
    \/ SubscriptionWritten(c) \/ UnsubscriptionWritten(c)
    \/ WrittenToDeleted(c) \/ WriteBreaks(c)
    \/ SubscriptionSent(c) \/ UnsubscriptionSent(c)
    \/ WaitOpens(c) \/ WaitCannotOpen(c) \/ WaitReceives(c) \/ WaitEnds(c)
    \/ AssignmentAccepted(c) \/ AssignmentRefused(c)

Within(queue) == {queue[i] : i \in DOMAIN queue}

\* An unsubscription of the client is on its way to the handler of the server.
Leaving(c) == [type |-> "UNSUBSCRIPTION", client |-> c]
Going(c) == Leaving(c) \in {held, cur} \cup Within(inbox) \cup Within(capBuf)

\* An assignment is on its way to the client, or in its hands.
Assigned(c) == [type |-> "ASSIGNMENT", client |-> c]
Coming(c) == Assigned(c) \in {got[c]} \cup Within(capBuf)

\* Something of what a client did before is left.
Remains(c) == c \in joined \/ Going(c) \/ Coming(c)

\* The server's steps of CapServer; a client of which nothing remains is informed
\* anew after a server ended.
WithClients(step) ==
    /\ step
    /\ stale' = IF mpc' \in {"dead", "freed"} THEN Clients
                ELSE {c \in stale : c \in told' \ told => Remains(c)}
    /\ UNCHANGED clientVars

ClientCalls(c) == (Subscribe(c) \/ Unsubscribe(c)) /\ UNCHANGED stale
ClientRuns(c) == ClientContinues(c) /\ UNCHANGED stale

StrangerStep(c) ==
    /\ \/ ClientOpensToWrite(c) \/ ClientCloses(c)
       \/ InFlight < MaxErrors /\ \E type \in NoiseTypes \cap WrittenTypes : ClientWrites(c, type)
    /\ UNCHANGED <<clientVars, stale>>

ProtocolNext ==
    \/ WithClients(ServerStep)
    \/ \E c \in Clients \ Strangers : ClientCalls(c) \/ ClientRuns(c)
    \/ \E c \in Strangers : StrangerStep(c)

ProtocolSpec == ProtocolInit /\ [][ProtocolNext]_protocolVars

\* As in CapServer, and the clients' threads run too.
ProtocolFairness ==
    /\ WF_protocolVars(WithClients(MainStep))
    /\ WF_protocolVars(WithClients(ListenerStep))
    /\ SF_protocolVars(WithClients(ListenerTimesOut))
    /\ \A c \in Clients \ Strangers :
          /\ WF_protocolVars(ClientRuns(c))
          /\ SF_protocolVars(WaitEnds(c) /\ UNCHANGED stale)

FairProtocolSpec == ProtocolSpec /\ ProtocolFairness

-----------------------------------------------------------------------------
(* Correctness *)

\* The type invariant of the clients' part.
ProtocolTypeOK ==
    /\ TypeOK
    /\ cpc \in [Clients -> {"idle", "sub_open", "sub_write", "sub_close", "wait_open",
                            "wait", "decide", "unsub_open", "unsub_write", "unsub_close"}]
    /\ joined \subseteq Clients
    /\ got \in [Clients -> Entry \cup {NoEntry}]
    /\ result \in [Clients -> {"NONE", "SUCCESS", "OPEN_FAILED",
                               "NO_DATA_AVAILABLE", "BAD_PACKET"}]
    /\ calls \in [Clients -> Nat] /\ \A c \in Clients : calls[c] <= MaxCalls[c]
    /\ stale \subseteq Clients

\* A client that takes itself for subscribed is: as long as the server that
\* told it lives and the client has not written an unsubscription, it has a
\* worker, whatever other clients and retries sent and in whatever order the
\* frames were read (octopipes_subscribe returning SUCCESS, README.md:
\* "if the client successfully subscribed").  The clients that an ended server
\* has left with something are not asked; they may take the answer to one
\* request for that to another.
Served ==
    \A c \in joined \ stale : cpc[c] # "unsub_close" => c \in told

\* subscribe and unsubscribe return, whatever becomes of the server.
SubscribeReturns == \A c \in Clients : cpc[c] # "idle" ~> cpc[c] = "idle"

=============================================================================
