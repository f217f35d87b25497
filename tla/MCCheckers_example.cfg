SPECIFICATION Spec
CONSTANTS
  Bases <- ExampleYaml
  Served <- Answered
INVARIANTS
  ServingPasses
