---------------------------- MODULE CapRegistry ----------------------------
(***************************************************************************)
(* CapServer implements Registry: the members are the clients that have a   *)
(* worker, the informed ones those whose assignment was written to the CAP. *)
(***************************************************************************)
EXTENDS CapServer

Abstract == INSTANCE Registry WITH members <- Registered, informed <- told

\* Every step of the server and of the clients is a step of the registry, or
\* none: no crash, no lost frame and no failing allocation makes the server
\* admit, inform or dismiss a client otherwise than the registry may.
ImplementsRegistry == Abstract!RegistrySpec
=============================================================================
