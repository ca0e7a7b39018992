\* A logger of New and a thread-safe one with two slots, which the metrics server
\* uses; two starts of it, four messages; two creators of a secret, two calls each.
SPECIFICATION ServiceSpec
CONSTANTS
  app = app
  metrics = metrics
  c1 = c1
  c2 = c2
  Loggers = {app, metrics}
  ThreadSafe = {metrics}
  MetricsLogger = metrics
  Size = 2
  MaxMessages <- maxMessages
  MaxStarts = 2
  Foreign = TRUE
  Callers = {c1, c2}
  MaxCalls = 2
INVARIANTS MessagesAccounted OnlyNewestServes OnePayloadForEver
PROPERTIES StopFreesPort StartComesUp
CHECK_DEADLOCK FALSE
