SPECIFICATION FairSpec
CONSTANTS
  outbox = outbox
  watchdog = watchdog
  privacy = privacy
  Workers = {outbox, watchdog, privacy}
  Critical = {outbox, watchdog}
  Always = {privacy}
  Watched = {watchdog}
  Stubborn = {privacy}
  Leaky = {privacy}
  MaxFailures <- TwoFailures
  MaxIgnored = 1
INVARIANTS OneRunPerWorker GoneWhenStopped ReadyIsSupervised
PROPERTIES CriticalFailureStops CriticalKeepsRunning
