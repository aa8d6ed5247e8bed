CONSTANTS
  Tasks <- MCTasks
  Prio <- MCPrio
  Sets <- MCSets
  Toggles <- MCToggles
SPECIFICATION Spec
INVARIANTS TypeOK ChannelOwned
PROPERTY CallReturns
