SPECIFICATION Spec
CONSTANTS
  test_turns = test_turns
  test_gates = test_gates
  conftest = conftest
  fixture = fixture
  talk = talk
  list = list
  None = None
  Tests = {test_turns, test_gates}
  Helpers = {conftest}
  Data = {fixture}
  Harmless = {test_gates}
  Functions = {talk, list}
  Versions = {1, 2}
  EditWhileRunning = FALSE
  MaxEdits = 2
INVARIANT VerdictsAreCurrent
