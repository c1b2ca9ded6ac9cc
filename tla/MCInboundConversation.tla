------------------------ MODULE MCInboundConversation ------------------------
(* Model checking of InboundConversation: the instance of MCInboundPipeline, *)
(* watching the conversation of k1.                                          *)
EXTENDS MCInboundPipeline, InboundConversation

\* The instance is one that the proof of RefinesConversation is about.
ASSUME UndisturbedInstance == Undisturbed /\ IsFiniteSet(Messages)
=============================================================================
