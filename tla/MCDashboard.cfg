\* Five events, a prompt and a slow browser, queues of one item, one fault.
SPECIFICATION FairSpec
CONSTANTS
  prompt = prompt
  slow = slow
  Log <- Events
  Browsers = {prompt, slow}
  Prompt = {prompt}
  Queries <- Requests
  QueueMax = 1
  CounterCap = 1
  TrafficMinutes = 1
  RecentCap = 2
  HourMinutes = 5
  TimelineTarget = 3
  TrendBuckets = 2
  Now = 5
  MaxPoll = 1
  MaxFaults = 1
INVARIANTS TypeOK SummaryIsExact StreamIsExact SeenIsStored
PROPERTIES AnswersAddUp SlowBrowserBlocksNoOne
CHECK_DEADLOCK FALSE
