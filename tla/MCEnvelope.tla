----------------------------- MODULE MCEnvelope -----------------------------
(***************************************************************************)
(* Small instances of Envelope for TLC: two features, one or both of them  *)
(* monotonic, every network with three values, and instances that lie      *)
(* below, within and above the bounds of the configuration.                *)
(***************************************************************************)
EXTENDS Envelope

Both == {1, 2}
BoundLo == [f \in Mono |-> 1]
BoundHi == [f \in Mono |-> 2]

\* Networks: any values where the first feature is 1 or 2, a fixed one below.
Inner == [Feature -> {1, 2}]
Networks ==
  {[p \in Point |-> IF p \in Inner THEN g[p] ELSE 2] : g \in [Inner -> {0, 2, 3, 5}]}

AllSetups ==
  [net : Networks, dir : {0, 1}, classifies : BOOLEAN, fails : BOOLEAN,
   points : {{<<1, 2>>, <<2, 2>>}, {<<0, 2>>, <<2, 1>>}}]
SoundSetups ==
  {s \in AllSetups : s.dir = 0 /\ ~s.fails /\ ~s.classifies}
=============================================================================
