----------------------------- MODULE MCMessageSync -----------------------------
(* A receiving device, one or two peers and two messages for TLC.           *)
EXTENDS MessageSync, TLC

CONSTANTS a, b, me, g, m1, m2

OnlyM1FromA == m1 :> a
OnlyM1InG == m1 :> g
AllFromA == m1 :> a @@ m2 :> a
OneConversation == m1 :> g @@ m2 :> g

\* The messages are interchangeable when both come from a and neither over P2P, as long
\* as no liveness is checked.
Symmetry == Permutations(Messages)
=============================================================================
