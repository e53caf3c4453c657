SPECIFICATION WatchSpec
CONSTANTS
  Replicas = {a, b}
  Clients = {c}
  Control = control
  Tags = {t}
  Latencies = {1}
  Delays = {1}
  Durations = {1, 2}
  TickMs = 1
  Schedules <- NoSchedules
  NoSchedule = NoSchedule
  a = a
  b = b
  gone = gone
  NoTimer = NoTimer
  Horizon = 4
  MaxFaults = 2
  MaxWork = 2
INVARIANT PauseLosesNothing
