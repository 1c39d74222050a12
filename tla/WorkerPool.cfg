\* Two POSTs and a handshake, a queue of one, tasks that may block for ever, a
\* shutdown at any moment.
CONSTANTS
  p1 = p1  p2 = p2  h1 = h1  w1 = w1  w2 = w2
  Null = Null
  Posts = {p1, p2}
  Handshakes = {h1}
  Workers = {w1, w2}
  queueCap = 1
SPECIFICATION FairSpec
CHECK_DEADLOCK FALSE
INVARIANTS
  TaskInOnePlace
  NoPostStranded
PROPERTIES
  RequestsAnswered
  TasksRun
  StoppedIsClosed
