------------------------- MODULE Conversation_proofs --------------------------
(***************************************************************************)
(* One conversation, for every set of responses, however many calls a      *)
(* response makes, and for every number of turns: how it ends, and what    *)
(* the customer has been asked before a decision is taken on the order.    *)
(*                                                                         *)
(* The two facts the proofs rest on are TurnFollowsTable (a turn stays,    *)
(* takes the default or the edge of an admitted tool) and                  *)
(* StatusNeedsTool (only a tool the state admits sets the status).  The    *)
(* decision is then a matter of the transition table: Prerequisites lists  *)
(* for each state the states that come before it, and a turn needs no      *)
(* prerequisite that the state it starts from does not give.               *)
(*                                                                         *)
(* The last part is about the messages of such a conversation, LLMHistory. *)
(***************************************************************************)
EXTENDS LLMHistory, WellFoundedInduction, TLAPS

-----------------------------------------------------------------------------
(* First and last positions; the same as in InboundPipeline_proofs, whose    *)
(* variables keep the two modules apart.                                     *)

Below == OpToRel(<, Nat)

LEMMA SomeMinimum ==
  ASSUME NEW I \in SUBSET Nat, I # {}
  PROVE  \E i \in I : \A j \in I : i <= j
<1>1. PICK i \in I : \A j \in I : ~ (<<j, i>> \in Below)
  BY NatLessThanWellFounded, WFMin DEF Below
<1>2. \A j \in I : ~ (j < i)
  BY <1>1 DEF Below, OpToRel
<1> QED
  BY <1>2

LEMMA FirstIsMember ==
  ASSUME NEW I \in SUBSET Nat, I # {}
  PROVE  First(I) \in I
BY SomeMinimum DEF First

LEMMA LastIsMember ==
  ASSUME NEW n \in Nat, NEW I \in SUBSET (1 .. n), I # {}
  PROVE  Last(I) \in I
<1> DEFINE J == {m \in Nat : n - m \in I}
<1>1. J \in SUBSET Nat /\ \A i \in I : n - i \in J
  OBVIOUS
<1>2. PICK k \in J : \A j \in J : k <= j
  BY <1>1, SomeMinimum
<1>3. PICK i \in I : i = n - k
  BY <1>2
<1>4. ASSUME NEW j \in I PROVE j <= i
  <2>1. k <= n - j
    BY <1>1, <1>2
  <2>2. n \in Nat /\ k \in Nat /\ j \in Nat
    OBVIOUS
  <2> QED
    BY <1>3, <2>1, <2>2
<1> QED
  BY <1>4 DEF Last

-----------------------------------------------------------------------------
(* Turns.                                                                  *)

\* s may be followed by n.
Follows(s, n) ==
  \/ n = s
  \/ s \notin Terminal /\ n = DefaultNext[s]
  \/ \E t \in AllowedTools[s] : <<s, t, n>> \in ToolEdges

(* A turn moves along the transition table, whatever the LLM calls.         *)
LEMMA TurnFollowsTable ==
  ASSUME NEW s \in States, NEW calls \in Seq(CallNames)
  PROVE  NextState(s, calls) \in States /\ Follows(s, NextState(s, calls))
<1>1. CASE s \in Terminal
  BY <1>1 DEF NextState, Follows
<1>2. CASE s \notin Terminal /\ calls = <<>>
  <2>1. DefaultNext[s] \in States
    BY DEF DefaultNext, States, Terminal
  <2> QED
    BY <1>2, <2>1 DEF NextState, Follows
<1>3. CASE s \notin Terminal /\ calls # <<>> /\ Moves(s, calls) = {}
  BY <1>3 DEF NextState, Follows
<1>4. CASE s \notin Terminal /\ calls # <<>> /\ Moves(s, calls) # {}
  <2>1. PICK i : i = First(Moves(s, calls))
    OBVIOUS
  <2>2. i \in Moves(s, calls)
    <3>1. Moves(s, calls) \in SUBSET Nat
      BY DEF Moves, Uses
    <3> QED
      BY <1>4, <2>1, <3>1, FirstIsMember
  <2>3. calls[i] \in AllowedTools[s] /\ \E n \in States : <<s, calls[i], n>> \in ToolEdges
    BY <1>4, <2>2 DEF Moves, Uses
  <2>4. PICK n : n = NextState(s, calls)
    OBVIOUS
  <2>5. n \in States /\ <<s, calls[i], n>> \in ToolEdges
    BY <1>4, <2>1, <2>3, <2>4 DEF NextState
  <2> QED
    BY <2>3, <2>4, <2>5 DEF Follows
<1> QED
  BY <1>1, <1>2, <1>3, <1>4

(* Only a handler of a tool that the state admits sets the order's status.  *)
LEMMA StatusNeedsTool ==
  ASSUME NEW st, NEW s \in States, NEW calls \in Seq(CallNames),
         StatusAfter(st, s, calls) # st
  PROVE  \E t \in AllowedTools[s] \cap Effectful : StatusAfter(st, s, calls) = StatusSetBy[t]
<1>1. PICK U : U = Uses(s, calls, Effectful)
  OBVIOUS
<1>2. U # {} /\ U \in SUBSET (1 .. Len(calls)) /\ Len(calls) \in Nat
  BY <1>1 DEF StatusAfter, Uses
<1>3. PICK i : i = Last(U)
  OBVIOUS
<1>4. i \in U
  BY <1>2, <1>3, LastIsMember
<1>5. calls[i] \in AllowedTools[s] \cap Effectful
  BY <1>1, <1>4 DEF Uses
<1> QED
  BY <1>1, <1>2, <1>3, <1>5 DEF StatusAfter

-----------------------------------------------------------------------------
(* The invariant's shape.                                                  *)

Turns == Seq([from : States, to : States])

Shape == state \in States /\ hist \in Turns

LEMMA ResponseCalls == \A r \in Responses : r.calls \in Seq(CallNames)
BY ConversationAssumption

LEMMA ShapeInit == Init => Shape
BY ConversationAssumption DEF Init, Shape, Turns

LEMMA ShapeNext == Shape /\ [Next]_vars => Shape'
<1> SUFFICES ASSUME Shape, [Next]_vars PROVE Shape'
  OBVIOUS
<1>1. ASSUME NEW r \in Responses, Turn(r) PROVE Shape'
  <2>1. state' \in States
    BY <1>1, ResponseCalls, TurnFollowsTable DEF Turn, Shape
  <2>2. [from |-> state, to |-> state'] \in [from : States, to : States]
    BY <2>1 DEF Shape
  <2>3. hist' \in Turns
    BY <1>1, <2>2 DEF Turn, Shape, Turns
  <2> QED
    BY <2>1, <2>3 DEF Shape
<1>2. CASE UNCHANGED vars
  BY <1>2 DEF vars, Shape
<1> QED
  BY <1>1, <1>2 DEF Next

-----------------------------------------------------------------------------
(* How a conversation ends.                                                *)

\* _ensure_conversation inserts a conversation in 'greeting'.
StartsReachable == StartStates \subseteq Reachable

LEMMA ReachableIsClosed ==
  ASSUME NEW s \in Reachable, NEW n \in States, Follows(s, n)
  PROVE  n \in Reachable
<1>1. DefaultNext[s] \in Reachable
  BY DEF DefaultNext, Reachable, States, Terminal
<1>2. ASSUME NEW t, <<s, t, n>> \in ToolEdges PROVE n \in Reachable
  <2>1. n \in {"wrong_number", "proxy_answerer", "language_fallback", "closing"}
    BY <1>2 DEF ToolEdges
  <2> QED
    BY <2>1 DEF Reachable, States, Terminal
<1> QED
  BY <1>1, <1>2 DEF Follows

(* A conversation is closed exactly when it is in closing, and reaches       *)
(* neither the other terminal states nor out_of_scope, whatever the LLM     *)
(* answers.                                                                 *)
THEOREM EndsInClosing ==
  ASSUME StartsReachable
  PROVE  Spec => []ClosedIffClosing
<1>1. Init => ClosedIffClosing
  BY ConversationAssumption DEF Init, StartsReachable, ClosedIffClosing
<1>2. Shape /\ ClosedIffClosing /\ [Next]_vars => ClosedIffClosing'
  <2> SUFFICES ASSUME Shape, ClosedIffClosing, [Next]_vars PROVE ClosedIffClosing'
    OBVIOUS
  <2>1. ASSUME NEW r \in Responses, Turn(r) PROVE ClosedIffClosing'
    <3>1. state' \in Reachable
      BY <2>1, ResponseCalls, TurnFollowsTable, ReachableIsClosed
         DEF Turn, Shape, ClosedIffClosing
    <3>2. closed' <=> state' \in Terminal
      BY <2>1 DEF Turn, Finished
    <3> QED
      BY <3>1, <3>2 DEF ClosedIffClosing
  <2>2. CASE UNCHANGED vars
    BY <2>2 DEF vars, ClosedIffClosing
  <2> QED
    BY <2>1, <2>2 DEF Next
<1> QED
  BY <1>1, <1>2, ShapeInit, ShapeNext, PTL DEF Spec

-----------------------------------------------------------------------------
(* What a decision presupposes.                                            *)

Opening == {"greeting", "disclosure", "identity_verify"}

\* States a conversation that began with the greeting has left before s.
Prerequisites ==
  [s \in States |->
     CASE s = "disclosure"      -> {"greeting"}
       [] s = "identity_verify" -> {"greeting", "disclosure"}
       [] s \in {"order_recap", "wrong_number", "proxy_answerer", "language_fallback"} ->
            {"greeting", "disclosure", "identity_verify"}
       [] s \in {"confirm_intent", "out_of_scope"} ->
            {"greeting", "disclosure", "identity_verify", "order_recap"}
       [] OTHER -> {}]

Left == {hist[i].from : i \in DOMAIN hist}

FromGreeting == IF hist = <<>> THEN state = "greeting" ELSE hist[1].from = "greeting"

RecapDecisions == {"confirmed", "cancelled", "change_request", "escalated"}

\* The statuses that the states L allow an order to have.
Justified(st, L) ==
  st \in Decisions => /\ Opening \subseteq L
                      /\ st \in RecapDecisions => "order_recap" \in L

RecapInv ==
  FromGreeting => Prerequisites[state] \subseteq Left /\ Justified(status, Left)

LEMMA FollowsNeedsNoMore ==
  ASSUME NEW s \in States, NEW n \in States, Follows(s, n)
  PROVE  Prerequisites[n] \subseteq Prerequisites[s] \cup {s}
<1>1. Prerequisites[DefaultNext[s]] \subseteq Prerequisites[s] \cup {s}
  BY DEF Prerequisites, DefaultNext, States, Terminal
<1>2. ASSUME NEW t, <<s, t, n>> \in ToolEdges
      PROVE  Prerequisites[n] \subseteq Prerequisites[s] \cup {s}
  <2>1. \/ /\ s = "identity_verify"
           /\ n \in {"wrong_number", "proxy_answerer", "language_fallback"}
        \/ n = "closing"
    BY <1>2 DEF ToolEdges
  <2> QED
    BY <2>1 DEF Prerequisites
<1> QED
  BY <1>1, <1>2 DEF Follows

LEMMA ToolIsJustified ==
  ASSUME NEW s \in States, NEW t \in AllowedTools[s] \cap Effectful
  PROVE  Justified(StatusSetBy[t], Prerequisites[s] \cup {s})
<1>1. CASE s = "identity_verify"
  <2>1. t \in {"flag_wrong_number", "flag_proxy_answerer"}
    BY <1>1 DEF AllowedTools, IdentityTools, Effectful, States
  <2>2. StatusSetBy[t] \notin RecapDecisions
    BY <2>1 DEF StatusSetBy, Effectful, Tools, RecapDecisions
  <2> QED
    BY <1>1, <2>2 DEF Justified, Prerequisites, Opening
<1>2. CASE s \in {"confirm_intent", "out_of_scope"}
  BY <1>2 DEF Justified, Prerequisites, Opening
<1>3. CASE s \notin {"identity_verify", "confirm_intent", "out_of_scope"}
  BY <1>3 DEF AllowedTools, Effectful
<1> QED
  BY <1>1, <1>2, <1>3

LEMMA RecapTurn ==
  ASSUME Shape, RecapInv, NEW r \in Responses, Turn(r)
  PROVE  RecapInv'
<1> SUFFICES ASSUME FromGreeting'
             PROVE  Prerequisites[state'] \subseteq Left' /\ Justified(status', Left')
  BY DEF RecapInv
<1>1. PICK t : t = [from |-> state, to |-> state']
  OBVIOUS
<1>2. /\ state \in States /\ hist \in Turns /\ r.calls \in Seq(CallNames)
      /\ state' \in States /\ Follows(state, state')
      /\ t \in [from : States, to : States] /\ t.from = state /\ hist' = Append(hist, t)
  BY <1>1, ResponseCalls, TurnFollowsTable DEF Turn, Shape
<1>3. /\ DOMAIN hist = 1 .. Len(hist) /\ DOMAIN hist' = 1 .. Len(hist) + 1 /\ Len(hist) \in Nat
      /\ \A i \in 1 .. Len(hist) : hist'[i] = hist[i]
      /\ hist'[Len(hist) + 1] = t
  BY <1>2 DEF Turns
<1>4. Left' = Left \cup {state}
  <2>1. \A i \in 1 .. Len(hist) + 1 : i \in 1 .. Len(hist) \/ i = Len(hist) + 1
    BY <1>3
  <2> QED
    BY <1>2, <1>3, <2>1 DEF Left
<1>5. FromGreeting
  <2>1. CASE hist = <<>>
    <3>1. hist' # <<>> /\ hist'[1].from = state
      BY <1>2, <1>3, <2>1
    <3> QED
      BY <2>1, <3>1 DEF FromGreeting
  <2>2. CASE hist # <<>>
    <3>1. hist' # <<>> /\ hist'[1] = hist[1]
      BY <1>2, <1>3, <2>2 DEF Turns
    <3> QED
      BY <2>2, <3>1 DEF FromGreeting
  <2> QED
    BY <2>1, <2>2
<1>6. Prerequisites[state] \cup {state} \subseteq Left' /\ Justified(status, Left)
  BY <1>4, <1>5 DEF RecapInv
<1>7. Justified(status', Left')
  <2>1. CASE status' = status
    BY <1>4, <1>6, <2>1 DEF Justified
  <2>2. CASE status' # status
    <3>1. PICK u \in AllowedTools[state] \cap Effectful : status' = StatusSetBy[u]
      BY <1>2, <2>2, StatusNeedsTool DEF Turn
    <3>2. Justified(status', Prerequisites[state] \cup {state})
      BY <1>2, <3>1, ToolIsJustified
    <3> QED
      BY <1>6, <3>2 DEF Justified
  <2> QED
    BY <2>1, <2>2
<1> QED
  BY <1>2, <1>6, <1>7, FollowsNeedsNoMore

(* No decision is taken on an order before the customer's identity was       *)
(* verified and, unless the wrong person or a relative answered, the order  *)
(* read back, for every sequence of answers of the LLM.                     *)
THEOREM DecisionsFollowRecap == Spec => []DecisionAfterRecap
<1>1. Init => RecapInv
  <2> SUFFICES ASSUME Init, FromGreeting
               PROVE  Prerequisites[state] \subseteq Left /\ Justified(status, Left)
    BY DEF RecapInv
  <2>1. state = "greeting" /\ status = "dispatched"
    BY DEF Init, FromGreeting
  <2> QED
    BY <2>1 DEF Prerequisites, Justified, Decisions, States
<1>2. Shape /\ RecapInv /\ [Next]_vars => RecapInv'
  <2>1. ASSUME Shape, RecapInv, UNCHANGED vars PROVE RecapInv'
    BY <2>1 DEF vars, RecapInv, FromGreeting, Left
  <2> QED
    BY <2>1, RecapTurn DEF Next
<1>3. RecapInv => DecisionAfterRecap
  BY DEF RecapInv, FromGreeting, Justified, Opening, RecapDecisions, Left,
         DecisionAfterRecap, Decided, Visited
<1> QED
  BY <1>1, <1>2, <1>3, ShapeInit, ShapeNext, PTL DEF Spec

-----------------------------------------------------------------------------
(* The messages behind the turns (LLMHistory), however long the conversation *)
(* and however many calls an answer makes.  Paired speaks of a request, and  *)
(* of every message that may follow an answer; the history has a simpler     *)
(* shape that a turn extends at its end: CallsAnswered and ResultsCalled say *)
(* at which distance a call and its result stand.                            *)

Messages ==
  [type : {"UserMessage"}, text : BOOLEAN]
  \cup [type : {"AssistantMessage"}, text : BOOLEAN, tool_calls : Seq(Call)]
  \cup [type : {"ToolResultMessage"}, tool_call_id : Ids, is_error : BOOLEAN]

\* The j-th call of an answer has its result j messages further on.
CallsAnswered(h) ==
  \A i \in DOMAIN h : h[i].type = "AssistantMessage" =>
    \A j \in DOMAIN h[i].tool_calls :
      /\ i + j \in DOMAIN h /\ h[i + j].type = "ToolResultMessage"
      /\ h[i + j].tool_call_id = h[i].tool_calls[j].id

\* A result stands no further from an answer than the calls of that answer go.
ResultsCalled(h) ==
  \A k \in DOMAIN h : h[k].type = "ToolResultMessage" =>
    \E i \in DOMAIN h : /\ i < k /\ h[i].type = "AssistantMessage"
                        /\ k - i \in DOMAIN h[i].tool_calls

SaidInv ==
  /\ said \in Seq(Messages)
  /\ row = EncodeHistory(said)
  /\ CallsAnswered(said) /\ ResultsCalled(said)
  /\ "openai_compat" \notin refused

LEMMA MessageKinds ==
  ASSUME NEW m \in Messages
  PROVE  /\ m.type \in {"UserMessage", "AssistantMessage", "ToolResultMessage"}
         /\ m.type = "UserMessage" => m = UserMessage(m.text)
         /\ m.type = "AssistantMessage" =>
              m = AssistantMessage(m.text, m.tool_calls) /\ m.tool_calls \in Seq(Call)
         /\ m.type = "ToolResultMessage" =>
              m = ToolResultMessage(m.tool_call_id, m.is_error) /\ m.tool_call_id \in Ids
  BY DEF Messages, UserMessage, AssistantMessage, ToolResultMessage

\* The JSON of a message gives the message back.
LEMMA DecodeEncode ==
  ASSUME NEW m \in Messages
  PROVE  Decode(Encode(m)) = m
<1>1. CASE m.type = "UserMessage"
  BY <1>1, MessageKinds DEF Encode, Decode, UserMessage
<1>2. CASE m.type = "AssistantMessage"
  BY <1>2, MessageKinds DEF Encode, Decode, AssistantMessage
<1>3. CASE m.type = "ToolResultMessage"
  BY <1>3, MessageKinds DEF Encode, Decode, ToolResultMessage
<1> QED
  BY <1>1, <1>2, <1>3, MessageKinds

LEMMA DecodeEncodeHistory ==
  ASSUME NEW h \in Seq(Messages)
  PROVE  DecodeHistory(EncodeHistory(h)) = h
<1>1. \A i \in DOMAIN h : Decode(EncodeHistory(h)[i]) = h[i]
  BY DecodeEncode DEF EncodeHistory
<1>2. DOMAIN EncodeHistory(h) = DOMAIN h
  BY DEF EncodeHistory
<1> QED
  BY <1>1, <1>2 DEF DecodeHistory

\* What of a message a request shows.
LEMMA RequestShape ==
  ASSUME NEW p \in {"anthropic", "openai_compat"}, NEW h \in Seq(Messages), NEW i \in DOMAIN h
  PROVE  /\ DOMAIN BuildParams(p, h) = DOMAIN h
         /\ BuildParams(p, h)[i].role = "assistant" <=> h[i].type = "AssistantMessage"
         /\ h[i].type = "AssistantMessage" => BuildParams(p, h)[i].uses = IdsOf(h[i].tool_calls)
         /\ h[i].type = "ToolResultMessage" =>
              /\ BuildParams(p, h)[i].role = (IF p = "anthropic" THEN "user" ELSE "tool")
              /\ BuildParams(p, h)[i].results = {h[i].tool_call_id}
         /\ h[i].type # "ToolResultMessage" => BuildParams(p, h)[i].results = {}
         /\ p = "openai_compat" => ~BuildParams(p, h)[i].empty
<1>1. h[i].type \in {"UserMessage", "AssistantMessage", "ToolResultMessage"}
  BY MessageKinds
<1>2. CASE p = "anthropic"
  <2>1. BuildParams(p, h)[i] = AnthropicMessage(h[i])
    BY <1>2 DEF BuildParams
  <2> QED
    BY <1>1, <1>2, <2>1 DEF BuildParams, AnthropicMessage
<1>3. CASE p = "openai_compat"
  <2>1. BuildParams(p, h)[i] = OpenAIMessage(h[i])
    BY <1>3 DEF BuildParams
  <2> QED
    BY <1>1, <1>3, <2>1 DEF BuildParams, OpenAIMessage
<1> QED
  BY <1>2, <1>3

\* Between an answer and the results of its calls stand results only.
LEMMA ResultsFollow ==
  ASSUME NEW p \in {"anthropic", "openai_compat"}, NEW h \in Seq(Messages), CallsAnswered(h),
         NEW i \in DOMAIN h, h[i].type = "AssistantMessage",
         NEW j \in DOMAIN h[i].tool_calls
  PROVE  i + j \in Following(p, BuildParams(p, h), i)
<1>1. i \in Nat /\ j \in Nat \ {0} /\ h[i].tool_calls \in Seq(Call) /\ j <= Len(h[i].tool_calls)
  BY MessageKinds
<1>2. i + j \in DOMAIN h
  BY DEF CallsAnswered
<1>3. ASSUME NEW l \in (i + 1) .. (i + j)
      PROVE  BuildParams(p, h)[l].role = IF p = "anthropic" THEN "user" ELSE "tool"
  <2>1. l - i \in DOMAIN h[i].tool_calls /\ i + (l - i) = l
    BY <1>1
  <2>2. l \in DOMAIN h /\ h[l].type = "ToolResultMessage"
    BY <2>1 DEF CallsAnswered
  <2> QED
    BY <2>2, RequestShape
<1>4. DOMAIN BuildParams(p, h) = DOMAIN h
  BY RequestShape
<1> QED
  BY <1>1, <1>2, <1>3, <1>4 DEF Following

\* No result of another answer follows: one that came before would have had to
\* put its results where this answer stands.
LEMMA FollowingIsCalled ==
  ASSUME NEW p \in {"anthropic", "openai_compat"}, NEW h \in Seq(Messages),
         CallsAnswered(h), ResultsCalled(h),
         NEW i \in DOMAIN h, h[i].type = "AssistantMessage",
         NEW k \in Following(p, BuildParams(p, h), i), h[k].type = "ToolResultMessage"
  PROVE  k - i \in DOMAIN h[i].tool_calls /\ h[i].tool_calls[k - i].id = h[k].tool_call_id
<1>1. /\ k \in DOMAIN h /\ k > i
      /\ \A l \in (i + 1) .. k :
           BuildParams(p, h)[l].role = IF p = "anthropic" THEN "user" ELSE "tool"
  BY RequestShape DEF Following
<1>2. PICK n \in DOMAIN h : /\ n < k /\ h[n].type = "AssistantMessage"
                            /\ k - n \in DOMAIN h[n].tool_calls
  BY <1>1 DEF ResultsCalled
<1>3. i \in Nat /\ k \in Nat /\ n \in Nat
  BY <1>1, <1>2
<1>4. ~(n > i)
  <2>1. BuildParams(p, h)[n].role = "assistant"
    BY <1>2, RequestShape
  <2> QED
    BY <1>1, <1>2, <1>3, <2>1
<1>5. ~(n < i)
  <2> SUFFICES ASSUME n < i PROVE FALSE
    OBVIOUS
  <2>1. h[n].tool_calls \in Seq(Call)
    BY <1>2, MessageKinds
  <2>2. i - n \in DOMAIN h[n].tool_calls /\ n + (i - n) = i
    BY <1>1, <1>2, <1>3, <2>1
  <2> QED
    BY <1>2, <2>2 DEF CallsAnswered
<1>6. n = i /\ i + (k - i) = k
  BY <1>3, <1>4, <1>5
<1> QED
  BY <1>2, <1>6 DEF CallsAnswered

\* A history of this shape makes a request whose calls and results pair.
LEMMA WellFormedPairs ==
  ASSUME NEW p \in {"anthropic", "openai_compat"}, NEW h \in Seq(Messages),
         CallsAnswered(h), ResultsCalled(h)
  PROVE  Paired(p, BuildParams(p, h))
<1> DEFINE req == BuildParams(p, h)
<1>1. DOMAIN req = DOMAIN h
  BY DEF BuildParams
<1>2. ASSUME NEW i \in DOMAIN h, h[i].type = "AssistantMessage"
      PROVE  Answered(p, req, i) = IdsOf(h[i].tool_calls)
  <2>1. ASSUME NEW j \in DOMAIN h[i].tool_calls
        PROVE  h[i].tool_calls[j].id \in Answered(p, req, i)
    <3>1. /\ i + j \in DOMAIN h /\ h[i + j].type = "ToolResultMessage"
          /\ h[i + j].tool_call_id = h[i].tool_calls[j].id
      BY <1>2 DEF CallsAnswered
    <3>2. req[i + j].results = {h[i].tool_calls[j].id}
      BY <3>1, RequestShape
    <3> QED
      BY <1>2, <3>2, ResultsFollow DEF Answered
  <2>2. ASSUME NEW k \in Following(p, req, i), NEW x \in req[k].results
        PROVE  x \in IdsOf(h[i].tool_calls)
    <3>1. k \in DOMAIN h
      BY <1>1 DEF Following
    <3>2. h[k].type = "ToolResultMessage" /\ x = h[k].tool_call_id
      BY <2>2, <3>1, RequestShape
    <3> QED
      BY <1>2, <3>2, FollowingIsCalled DEF IdsOf
  <2> QED
    BY <2>1, <2>2 DEF Answered, IdsOf
<1>3. ASSUME NEW k \in DOMAIN h, req[k].results # {}
      PROVE  \E i \in DOMAIN h : h[i].type = "AssistantMessage" /\ k \in Following(p, req, i)
  <2>1. h[k].type = "ToolResultMessage"
    BY <1>3, RequestShape
  <2>2. PICK i \in DOMAIN h : /\ i < k /\ h[i].type = "AssistantMessage"
                              /\ k - i \in DOMAIN h[i].tool_calls
    BY <2>1 DEF ResultsCalled
  <2>3. i + (k - i) = k
    BY <2>2
  <2> QED
    BY <2>2, <2>3, ResultsFollow
<1> HIDE DEF req
<1>4. \A i \in DOMAIN h : /\ req[i].role = "assistant" <=> h[i].type = "AssistantMessage"
                          /\ h[i].type = "AssistantMessage" => req[i].uses = IdsOf(h[i].tool_calls)
  BY RequestShape DEF req
<1>5. Paired(p, req)
  BY <1>1, <1>2, <1>3, <1>4 DEF Paired
<1> QED
  BY <1>5 DEF req

\* The customer's message neither calls nor answers a call.
LEMMA UserMessageKeepsShape ==
  ASSUME NEW h \in Seq(Messages), CallsAnswered(h), ResultsCalled(h), NEW t \in BOOLEAN
  PROVE  LET g == Append(h, UserMessage(t))
         IN  g \in Seq(Messages) /\ CallsAnswered(g) /\ ResultsCalled(g)
<1> DEFINE g == Append(h, UserMessage(t))
<1>1. UserMessage(t) \in Messages /\ UserMessage(t).type = "UserMessage"
  BY DEF UserMessage, Messages
<1>2. /\ g \in Seq(Messages) /\ Len(g) = Len(h) + 1 /\ Len(h) \in Nat
      /\ DOMAIN g = 1 .. Len(h) + 1 /\ DOMAIN h = 1 .. Len(h)
      /\ \A i \in DOMAIN h : g[i] = h[i]
      /\ g[Len(h) + 1].type = "UserMessage"
  BY <1>1
<1> HIDE DEF g
<1>3. CallsAnswered(g)
  <2> SUFFICES ASSUME NEW i \in DOMAIN g, g[i].type = "AssistantMessage",
                      NEW j \in DOMAIN g[i].tool_calls
               PROVE  /\ i + j \in DOMAIN g /\ g[i + j].type = "ToolResultMessage"
                      /\ g[i + j].tool_call_id = g[i].tool_calls[j].id
    BY DEF CallsAnswered
  <2>1. i \in DOMAIN h /\ g[i] = h[i]
    BY <1>2
  <2>2. /\ i + j \in DOMAIN h /\ h[i + j].type = "ToolResultMessage"
        /\ h[i + j].tool_call_id = h[i].tool_calls[j].id
    BY <2>1 DEF CallsAnswered
  <2> QED
    BY <1>2, <2>1, <2>2
<1>4. ResultsCalled(g)
  <2> SUFFICES ASSUME NEW k \in DOMAIN g, g[k].type = "ToolResultMessage"
               PROVE  \E i \in DOMAIN g : /\ i < k /\ g[i].type = "AssistantMessage"
                                          /\ k - i \in DOMAIN g[i].tool_calls
    BY DEF ResultsCalled
  <2>1. k \in DOMAIN h /\ g[k] = h[k]
    BY <1>2
  <2>2. PICK i \in DOMAIN h : /\ i < k /\ h[i].type = "AssistantMessage"
                              /\ k - i \in DOMAIN h[i].tool_calls
    BY <2>1 DEF ResultsCalled
  <2> QED
    BY <1>2, <2>2
<1> QED
  BY <1>2, <1>3, <1>4 DEF g

\* g is h and, from n on, the answer r with its results.
AnswerAt(n, h, r, g) ==
  /\ g \in Seq(Messages)
  /\ DOMAIN g = 1 .. n + Len(r.calls) /\ DOMAIN h = 1 .. n - 1
  /\ n \in Nat /\ Len(r.calls) \in Nat
  /\ \A i \in DOMAIN h : g[i] = h[i]
  /\ g[n].type = "AssistantMessage" /\ g[n].tool_calls = r.calls
  /\ \A j \in DOMAIN r.calls : /\ g[n + j].type = "ToolResultMessage"
                               /\ g[n + j].tool_call_id = r.calls[j].id

\* FSMDriver.step: an answer and, right after it, a result for every call, be
\* it admitted by the state or not.
LEMMA StepShape ==
  ASSUME NEW s, NEW h \in Seq(Messages), NEW r \in Answers,
         NEW g, g = Step(s, h, r), NEW n, n = Len(h) + 1
  PROVE  AnswerAt(n, h, r, g)
<1> DEFINE a == AssistantMessage(r.text, r.calls)
           res == Results(s, r.calls)
           b == h \o <<a>>
<1>1. r.text \in BOOLEAN /\ r.calls \in Seq(Call)
  BY HistoryAssumption
<1>2. a \in Messages /\ a.type = "AssistantMessage" /\ a.tool_calls = r.calls
  BY <1>1 DEF AssistantMessage, Messages
<1>3. ASSUME NEW j \in DOMAIN r.calls
      PROVE  /\ res[j] \in Messages /\ res[j].type = "ToolResultMessage"
             /\ res[j].tool_call_id = r.calls[j].id
  <2>1. r.calls[j] \in Call
    BY <1>1
  <2>2. r.calls[j].id \in Ids
    BY <2>1 DEF Call
  <2>3. (r.calls[j].name \notin AllowedTools[s]) \in BOOLEAN
    OBVIOUS
  <2>4. res[j] = ToolResultMessage(r.calls[j].id, r.calls[j].name \notin AllowedTools[s])
    BY DEF Results
  <2> QED
    BY <2>2, <2>3, <2>4 DEF ToolResultMessage, Messages
<1>4. res \in Seq(Messages) /\ Len(res) = Len(r.calls) /\ DOMAIN r.calls = 1 .. Len(r.calls)
  <2>1. DOMAIN res = 1 .. Len(r.calls) /\ Len(r.calls) \in Nat /\ DOMAIN r.calls = 1 .. Len(r.calls)
    BY <1>1 DEF Results
  <2>2. res = [j \in 1 .. Len(r.calls) |-> res[j]]
    BY <2>1 DEF Results
  <2> HIDE DEF res
  <2>3. res \in [1 .. Len(r.calls) -> Messages]
    BY <1>3, <2>1, <2>2
  <2>4. res \in Seq(Messages)
    BY <2>1, <2>3
  <2> QED
    BY <2>1, <2>4
<1>5. Step(s, h, r) = b \o res
  <2>1. CASE r.calls = <<>>
    <3>1. res = <<>>
      BY <1>4, <2>1
    <3> QED
      BY <2>1, <3>1 DEF Step
  <2>2. CASE r.calls # <<>>
    BY <2>2 DEF Step
  <2> QED
    BY <2>1, <2>2
<1> HIDE DEF a, res
<1>6. /\ b \in Seq(Messages) /\ Len(b) = n /\ n \in Nat /\ DOMAIN h = 1 .. n - 1
      /\ \A i \in DOMAIN h : b[i] = h[i]
      /\ b[n] = a
  BY <1>2
<1> HIDE DEF b
<1>7. /\ g \in Seq(Messages) /\ DOMAIN g = 1 .. n + Len(r.calls)
      /\ \A i \in 1 .. n : g[i] = b[i]
      /\ \A j \in 1 .. Len(r.calls) : g[n + j] = res[j]
  <2>1. g = b \o res
    BY <1>5
  <2>2. /\ b \o res \in Seq(Messages)
        /\ DOMAIN (b \o res) = 1 .. Len(b) + Len(res)
        /\ \A i \in 1 .. Len(b) : (b \o res)[i] = b[i]
        /\ \A j \in 1 .. Len(res) : (b \o res)[Len(b) + j] = res[j]
    <3>1. b \in Seq(Messages) /\ res \in Seq(Messages)
      BY <1>4, <1>6
    <3> QED
      BY <3>1
  <2>3. Len(b) = n /\ Len(res) = Len(r.calls)
    BY <1>4, <1>6
  <2> QED
    BY <2>1, <2>2, <2>3
<1>8. \A i \in DOMAIN h : g[i] = h[i]
  <2>1. \A i \in DOMAIN h : i \in 1 .. n
    BY <1>6
  <2> QED
    BY <1>6, <1>7, <2>1
<1>9. g[n].type = "AssistantMessage" /\ g[n].tool_calls = r.calls
  <2>1. n \in 1 .. n
    BY <1>6
  <2>2. g[n] = a
    BY <1>6, <1>7, <2>1
  <2> QED
    BY <1>2, <2>2
<1>10. Len(r.calls) \in Nat
  BY <1>1
<1> QED
  BY <1>3, <1>4, <1>6, <1>7, <1>8, <1>9, <1>10 DEF AnswerAt

LEMMA StepKeepsShape ==
  ASSUME NEW s, NEW h \in Seq(Messages), CallsAnswered(h), ResultsCalled(h), NEW r \in Answers,
         NEW g, g = Step(s, h, r)
  PROVE  g \in Seq(Messages) /\ CallsAnswered(g) /\ ResultsCalled(g)
<1>1. PICK n : n = Len(h) + 1 /\ AnswerAt(n, h, r, g)
  BY StepShape
<1>2. /\ g \in Seq(Messages)
      /\ DOMAIN g = 1 .. n + Len(r.calls) /\ DOMAIN h = 1 .. n - 1
      /\ n \in Nat /\ Len(r.calls) \in Nat
      /\ \A i \in DOMAIN h : g[i] = h[i]
      /\ g[n].type = "AssistantMessage" /\ g[n].tool_calls = r.calls
      /\ \A j \in DOMAIN r.calls : /\ g[n + j].type = "ToolResultMessage"
                                   /\ g[n + j].tool_call_id = r.calls[j].id
  BY <1>1 DEF AnswerAt
<1>3. DOMAIN r.calls = 1 .. Len(r.calls)
  BY HistoryAssumption
<1>8. n \in Nat \ {0} /\ Len(r.calls) \in Nat /\ DOMAIN g = 1 .. n + Len(r.calls)
  <2>1. Len(h) \in Nat
    OBVIOUS
  <2> QED
    BY <1>1, <1>2, <2>1
<1>4. ASSUME NEW i \in DOMAIN g
      PROVE  i \in DOMAIN h \/ i = n \/ (i - n \in DOMAIN r.calls /\ n + (i - n) = i)
  <2>1. i \in 1 .. n + Len(r.calls) /\ DOMAIN h = 1 .. n - 1 /\ i \in Nat
    BY <1>2, <1>8
  <2> QED
    BY <1>3, <1>8, <2>1
<1>5. \A i \in DOMAIN h : i \in DOMAIN g /\ i \in Nat /\ i < n
  BY <1>2
<1>6. CallsAnswered(g)
  <2> SUFFICES ASSUME NEW i \in DOMAIN g, g[i].type = "AssistantMessage",
                      NEW j \in DOMAIN g[i].tool_calls
               PROVE  /\ i + j \in DOMAIN g /\ g[i + j].type = "ToolResultMessage"
                      /\ g[i + j].tool_call_id = g[i].tool_calls[j].id
    BY DEF CallsAnswered
  <2>1. CASE i \in DOMAIN h
    <3>1. g[i] = h[i]
      BY <1>2, <2>1
    <3>2. /\ i + j \in DOMAIN h /\ h[i + j].type = "ToolResultMessage"
          /\ h[i + j].tool_call_id = h[i].tool_calls[j].id
      BY <2>1, <3>1 DEF CallsAnswered
    <3>3. i + j \in DOMAIN g /\ g[i + j] = h[i + j]
      BY <1>2, <1>5, <3>2
    <3> QED
      BY <3>1, <3>2, <3>3
  <2>2. CASE i = n
    <3>1. j \in DOMAIN r.calls /\ g[i].tool_calls = r.calls
      BY <1>2, <2>2
    <3>2. n + j \in DOMAIN g
      BY <1>2, <1>3, <3>1
    <3> QED
      BY <1>2, <2>2, <3>1, <3>2
  <2>3. ~(i - n \in DOMAIN r.calls /\ n + (i - n) = i)
    BY <1>2
  <2> QED
    BY <1>4, <2>1, <2>2, <2>3
<1>7. ResultsCalled(g)
  <2> SUFFICES ASSUME NEW k \in DOMAIN g, g[k].type = "ToolResultMessage"
               PROVE  \E i \in DOMAIN g : /\ i < k /\ g[i].type = "AssistantMessage"
                                          /\ k - i \in DOMAIN g[i].tool_calls
    BY DEF ResultsCalled
  <2>1. CASE k \in DOMAIN h
    <3>1. g[k] = h[k]
      BY <1>2, <2>1
    <3>2. PICK i \in DOMAIN h : /\ i < k /\ h[i].type = "AssistantMessage"
                                /\ k - i \in DOMAIN h[i].tool_calls
      BY <2>1, <3>1 DEF ResultsCalled
    <3>3. i \in DOMAIN g /\ g[i] = h[i]
      BY <1>2, <1>5
    <3> QED
      BY <3>2, <3>3
  <2>2. CASE k - n \in DOMAIN r.calls
    <3>1. n \in DOMAIN g /\ n < k
      BY <1>3, <1>8, <2>2
    <3> QED
      BY <1>2, <2>2, <3>1
  <2>3. k # n
    BY <1>2
  <2> QED
    BY <1>4, <2>1, <2>2, <2>3
<1> QED
  BY <1>2, <1>6, <1>7

LEMMA SaidStep ==
  ASSUME SaidInv, [HistoryNext]_historyVars
  PROVE  SaidInv'
<1>1. DecodeHistory(row) = said
  BY DecodeEncodeHistory DEF SaidInv
<1>2. ASSUME NEW t \in BOOLEAN
      PROVE  /\ History(t) = Append(said, UserMessage(t))
             /\ History(t) \in Seq(Messages) /\ CallsAnswered(History(t)) /\ ResultsCalled(History(t))
  BY <1>1, UserMessageKeepsShape DEF History, SaidInv
<1>3. ASSUME NEW p \in Providers, NEW t \in BOOLEAN, NEW r \in Answers, Chat(p, t, r)
      PROVE  SaidInv'
  <2>1. /\ said' = Step(state, History(t), r) /\ row' = EncodeHistory(said')
        /\ refused' = refused
    BY <1>2, <1>3 DEF Chat
  <2>2. said' \in Seq(Messages) /\ CallsAnswered(said') /\ ResultsCalled(said')
    BY <1>2, <2>1, StepKeepsShape
  <2> QED
    BY <2>1, <2>2 DEF SaidInv, CallsAnswered, ResultsCalled, EncodeHistory
<1>4. ASSUME NEW p \in Providers, NEW t \in BOOLEAN, Refuse(p, t)
      PROVE  SaidInv'
  <2>1. p \in {"anthropic", "openai_compat"}
    BY HistoryAssumption
  <2>2. Paired(p, BuildParams(p, History(t)))
    BY <1>2, <2>1, WellFormedPairs
  <2>3. p = "openai_compat" => ~Empty(BuildParams(p, History(t)))
    BY <1>2, RequestShape DEF Empty, BuildParams
  <2>4. p # "openai_compat"
    BY <1>4, <2>2, <2>3 DEF Refuse, Accepts
  <2>5. UNCHANGED <<row, said>> /\ "openai_compat" \notin refused'
    BY <1>4, <2>4 DEF Refuse, SaidInv
  <2> QED
    BY <2>5 DEF SaidInv, CallsAnswered, ResultsCalled, EncodeHistory
<1>5. ASSUME UNCHANGED historyVars PROVE SaidInv'
  BY <1>5 DEF historyVars, SaidInv, CallsAnswered, ResultsCalled, EncodeHistory
<1> QED
  BY <1>3, <1>4, <1>5 DEF HistoryNext

LEMMA SaidHolds == HistorySpec => []SaidInv
<1>1. HistoryInit => SaidInv
  <2> SUFFICES ASSUME HistoryInit PROVE SaidInv
    OBVIOUS
  <2>1. row = <<>> /\ said = <<>> /\ refused = {} /\ DOMAIN said = {}
    BY DEF HistoryInit
  <2>2. EncodeHistory(said) = <<>>
    BY <2>1 DEF EncodeHistory
  <2> QED
    BY <2>1, <2>2 DEF SaidInv, CallsAnswered, ResultsCalled
<1>2. SaidInv /\ [HistoryNext]_historyVars => SaidInv'
  BY SaidStep
<1> QED
  BY <1>1, <1>2, PTL DEF HistorySpec

\* The next turn reads back what was said, errors and calls included, however
\* long the history (_encode_history, _decode_history).
THEOREM HistoryReadsBack == HistorySpec => []HistoryRoundTrips
<1>1. SaidInv => HistoryRoundTrips
  BY DecodeEncodeHistory DEF SaidInv, HistoryRoundTrips
<1> QED
  BY <1>1, SaidHolds, PTL

\* No provider finds a call without its result or a result without its call,
\* whoever gave the answers and whatever calls the states refused
\* (FSMDriver.step answers every call; both _build_params).
THEOREM PairingIsAccepted == HistorySpec => []PairingNeverRefused
<1>1. SaidInv => PairingNeverRefused
  <2> SUFFICES ASSUME SaidInv PROVE PairingNeverRefused
    OBVIOUS
  <2>1. ASSUME NEW p \in Providers, NEW t \in BOOLEAN
        PROVE  Paired(p, BuildParams(p, History(t)))
    <3>1. p \in {"anthropic", "openai_compat"}
      BY HistoryAssumption
    <3>2. History(t) = Append(said, UserMessage(t))
      BY DecodeEncodeHistory DEF History, SaidInv
    <3>3. History(t) \in Seq(Messages) /\ CallsAnswered(History(t)) /\ ResultsCalled(History(t))
      BY <3>2, UserMessageKeepsShape DEF SaidInv
    <3> QED
      BY <3>1, <3>3, WellFormedPairs
  <2> QED
    BY <2>1 DEF SaidInv, PairingNeverRefused
<1> QED
  BY <1>1, SaidHolds, PTL
=============================================================================
