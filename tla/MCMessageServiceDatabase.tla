---------------------- MODULE MCMessageServiceDatabase ----------------------
(* The message store for TLC: two senders that are also each other's       *)
(* recipients, a client that only receives, two conversations.             *)
EXTENDS MessageServiceDatabase, TLC

CONSTANTS u1, u2, u3, g, h, m1, m2

MCSender == (m1 :> u1) @@ (m2 :> u2)

\* The conversations are interchangeable: no definition names one.
ConversationSymmetry == Permutations(Conversations)
=============================================================================
