CONSTANTS
  Ids <- MCIds
  Answers <- MCAnswers
  Responses <- MCResponses
  Providers <- MCProviders
  StartStates <- MCStates
  MaxTurns = 3
SPECIFICATION HistorySpec
INVARIANTS
  HistoryRoundTrips
  PairingNeverRefused
\* The conversation is closed or has had its turns.
CHECK_DEADLOCK FALSE
