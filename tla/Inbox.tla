------------------------------- MODULE Inbox -------------------------------
(***************************************************************************)
(* OctopipesServerInbox of src/server.c: the queue between a listener       *)
(* thread and the main thread, for the CAP and for every worker.  An entry  *)
(* that is not a message is one of the records below.                       *)
(***************************************************************************)
EXTENDS Naturals, Sequences

\* What octopipes_decode leaves in *message: when it fails it frees the message
\* and leaves the pointer dangling, and the listener pushes it as it is.
Dangling == [type |-> "DANGLING"]
\* An OctopipesServerMessage with a NULL message and an error.
ReadError == [type |-> "READ_ERROR"]
\* A slot of the inbox that was never written.
Junk == [type |-> "JUNK"]
NoEntry == [type |-> "NONE"]

\* octopipes_decode, of a frame: GARBAGE does not decode.
Decode(m) == IF m.type = "GARBAGE" THEN Dangling ELSE m

\* What message_inbox_dequeue leaves of an inbox.  It shifts inbox[i], the
\* memory behind the structure, where messages[i] was meant, and so reallocates
\* a pointer it read from there: the slots left are not the ones pushed.
Dequeued(q) == [i \in 1..(Len(q) - 1) |-> Junk]
=============================================================================
