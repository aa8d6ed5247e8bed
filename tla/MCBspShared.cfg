CONSTANTS
  Tasks <- MCTasks
  Prio <- MCPrio
  Sets <- MCSets
  Toggles <- MCToggles
SPECIFICATION Spec
INVARIANT StateMatchesLed
