----------------------------- MODULE MCNetworks -----------------------------
(* Instances of Networks for TLC.                                          *)
EXTENDS Networks

CONSTANTS ann, bob, default, lab

Lists == (default :> {<<ann, bob>>, <<ann>>}) @@ (lab :> {<<bob>>})

Addition(n, x, ports, neighbors) ==
  [to |-> n, node |-> x, ports |-> ports, neighbors |-> neighbors]

\* A second node, with and without neighbours; a server's port may be given,
\* and may be taken already.
Fourth == [AnyPorts EXCEPT !.qnodeos = 4]
Added ==
  {Addition(default, bob, AnyPorts, NoTopology),
   Addition(default, bob, Fourth, {ann}),
   Addition(lab, ann, Fourth, NoTopology)}
=============================================================================
