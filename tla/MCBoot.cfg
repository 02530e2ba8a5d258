SPECIFICATION Spec
CONSTANTS
  Spins = 2
  PrintSize = 4
  MaxLost = 1
  ControllerSpins = 2
  Word = 64
  Million = 4
  Thousand = 2
  Default = 5
  Cpus <- MCCpus
  Starts <- MCStarts
  Epochs <- MCEpochs
  Sleeps <- MCSleeps
  MaxTicks = 60
CHECK_DEADLOCK FALSE
INVARIANTS WireFaithful LogHonest UptimeExact
PROPERTIES SleepHonest WaitsEnd
