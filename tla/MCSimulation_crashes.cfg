SPECIFICATION WatchSpec
CONSTANTS
  Replicas = {a, b}
  Clients = {c}
  Control = control
  Tags = {t}
  Latencies = {1}
  Delays = {1}
  Durations = {2, 3}
  TickMs = 1
  Schedules <- NoSchedules
  NoSchedule = NoSchedule
  a = a
  b = b
  gone = gone
  NoTimer = NoTimer
  Horizon = 5
  MaxFaults = 3
  MaxWork = 0
INVARIANT CrashesLast
