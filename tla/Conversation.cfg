\* Every path of a conversation from its first message.
CONSTANTS
  Responses <- MCResponses
  StartStates <- MCFromGreeting
  MaxTurns = 9
SPECIFICATION Spec
INVARIANTS
  DecisionAfterRecap
  ClosedIffClosing
\* A closed conversation, or one out of turns, stops.
CHECK_DEADLOCK FALSE
