\* Two calls after the handshake, and three answers: one of them may be repeated.
\* Nobody need call, so every behaviour may stop.
SPECIFICATION LiveSpec
CONSTANTS
  MaxCalls = 2
  MaxAnswers = 3
INVARIANTS TypeOK AnswersMatch NoneLeftWaiting HandshakeFirst
PROPERTIES CallsEnd StopEndsServer
CHECK_DEADLOCK FALSE
