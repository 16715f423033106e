CONSTANTS
  n1 = n1
  n2 = n2
  hub = hub
  chat = chat
  ticker = ticker
  main = main
  None = None
  Nodes = {n1}
  Callers = {hub}
  Kinds = {"poke", "progress"}
  TickThread = ticker
  MainThread = main
  Debounce = 1
  MinGap = 1
  PokeMin = 2
  Ceiling = 3
  Holds = {2}
  WatchEnds = {1}
SPECIFICATION Spec
INVARIANTS
  STypeOK
  HeartbeatGoesOn
  SignalIsPrompt
  WokenNodeIsDue
  HeldNodeHasWake
  StoppedIsStopped
