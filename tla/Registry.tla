------------------------------ MODULE Registry ------------------------------
(***************************************************************************)
(* What the CAP promises to the clients, without pipes, threads or locks:   *)
(* a set of members, each admitted on its own request, told so exactly      *)
(* once, and a member until it leaves or the server ends.  One admission is *)
(* under way at a time.  CapServer implements this specification.           *)
(***************************************************************************)
CONSTANTS Clients

VARIABLES
    members,    \* the clients that have a place
    informed    \* the members that were told so

registryVars == <<members, informed>>

RegistryInit == members = {} /\ informed = {}

\* A request of a client without a place is accepted, if every member was told.
Admit(c) ==
    /\ members = informed
    /\ c \notin members
    /\ members' = members \cup {c}
    /\ UNCHANGED informed

Inform(c) ==
    /\ c \in members \ informed
    /\ informed' = informed \cup {c}
    /\ UNCHANGED members

\* The member cannot be told: it never was one.
Withdraw(c) ==
    /\ c \in members \ informed
    /\ members' = members \ {c}
    /\ UNCHANGED informed

\* A member leaves, on a request of its own: to leave, or one that came too much.
Leave(c) ==
    /\ c \in informed
    /\ members' = members \ {c}
    /\ informed' = informed \ {c}

\* The end of the server.
Shutdown == members' = {} /\ informed' = {}

RegistryNext ==
    \/ \E c \in Clients : Admit(c) \/ Inform(c) \/ Withdraw(c) \/ Leave(c)
    \/ Shutdown

RegistrySpec == RegistryInit /\ [][RegistryNext]_registryVars
=============================================================================
