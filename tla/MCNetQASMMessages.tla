-------------------------- MODULE MCNetQASMMessages --------------------------
(* Instances of NetQASMMessages for TLC.                                   *)
EXTENDS NetQASMMessages, TLC

CONSTANTS probe, first, second

\* Network.running looks whether the server is up; one application waits for
\* each message, the other sends all of its messages before it waits.
InTurn == (probe :> 0) @@ (first :> 2) @@ (second :> 2)
Waits == (probe :> TRUE) @@ (first :> TRUE) @@ (second :> FALSE)
=============================================================================
