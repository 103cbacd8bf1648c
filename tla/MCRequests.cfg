\* Two requests of one peer, every configuration.
SPECIFICATION FairSpec
CONSTANTS
  Reqs = {r1, r2}
  Ips = {p}
  Burst = 1
  MaxHops = 2
  Confs <- AllConfs
INVARIANTS
  EveryReplySecured
  SpanTellsTheReply
  SpansArePaidFor
  OneRedirect
PROPERTIES
  Answered
CHECK_DEADLOCK FALSE
