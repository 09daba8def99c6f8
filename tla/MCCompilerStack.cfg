CONSTANTS
  Families = {"imports", "hierarchies", "calls", "bodies", "mutability", "drivers"}
  Projects <- MCProjects
  MaxDepth = 6
  Nesting = 3
SPECIFICATION Spec
INVARIANTS ErrorsStop LinearizedRight ImportsRight CallsRight MutabilityKept DeadCodeIsDead
