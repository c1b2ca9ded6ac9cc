------------------------- MODULE InboundConversation -------------------------
(***************************************************************************)
(* One conversation of the inbound pipeline, with the order and the        *)
(* customer it is about, seen as a Conversation: what the row, the order   *)
(* and the escalation queue show between transactions.                     *)
(***************************************************************************)
EXTENDS InboundPipeline

CONSTANT Watched   \* the conversation that is watched

ASSUME WatchedAssumption == Watched \in Convs

\* The turns of h, without the messages they answer.
Bare(h) == [i \in DOMAIN h |-> [from |-> h[i].from, to |-> h[i].to]]

\* The tickets of T for the conversation, by the turn of h they belong to.
TicketsOf(h, T) ==
  {p \in (DOMAIN h) \X {t[3] : t \in T} : <<Watched, h[p[1]].msg, p[2]>> \in T}

OneConversation ==
  INSTANCE Conversation WITH
    MaxTurns <- Cardinality(Messages),
    state    <- conv[Watched].state,
    hist     <- Bare(conv[Watched].hist),
    outcome  <- conv[Watched].outcome,
    closed   <- conv[Watched].closed,
    status   <- status[OrderOf[Watched]],
    fakes    <- fakes[CustomerOf[Watched]],
    tickets  <- TicketsOf(conv[Watched].hist, tickets)

(* With one loop and no operator, whatever fails or crashes, a conversation  *)
(* takes whole turns from the state it is in and changes in no other way.    *)
RefinesConversation == OneConversation!Spec

-----------------------------------------------------------------------------
(* When that is so.                                                        *)

\* workers/run_all.py starts one loop.
OneWorker == \A v, w \in Workers : v = w

\* A delivery does not name a message twice.
NoRepetition ==
  \A e \in Events : \A i, j \in DOMAIN Payload[e] : Payload[e][i] = Payload[e][j] => i = j

\* A delivery brings one message of the customer at most: the turns of one
\* delivery are committed together.
OneAtATime ==
  \A e \in Events : \A i, j \in DOMAIN Payload[e] :
    /\ Sender[Payload[e][i]] = CustomerOf[Watched]
    /\ Sender[Payload[e][j]] = CustomerOf[Watched]
    => i = j

\* No other conversation is about the order, or with the customer.
OwnRows ==
  \A c \in Convs :
    OrderOf[c] = OrderOf[Watched] \/ CustomerOf[c] = CustomerOf[Watched] => c = Watched

Undisturbed ==
  /\ OneWorker
  /\ Closers = {}
  /\ NoRebatching
  /\ NoRepetition
  /\ OneAtATime
  /\ OwnRows
=============================================================================
