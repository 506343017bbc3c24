SPECIFICATION Spec
CONSTANTS
  Files = {"a"}
  Programs <- MCPrograms
  Outcomes = {0, 2, 5, 10, 23, 35, 41, 42, 47, 48, 49}
  MaxDepth = 2
INVARIANTS FilesTold OneHandler OnlyAfterSuccess PendingJumpTaken
