--------------------------- MODULE MCConversation ---------------------------
(* Model checking of Conversation with every response of at most two calls. *)
EXTENDS Conversation

CallLists == {<<>>} \cup {<<a>> : a \in CallNames} \cup {<<a, b>> : a, b \in CallNames}

MCResponses == [calls : CallLists, text : {TRUE}]

MCFromGreeting == {"greeting"}
=============================================================================
