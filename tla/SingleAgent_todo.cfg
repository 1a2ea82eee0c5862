SPECIFICATION AnswerSpec
CONSTANTS
  Callers = {alice}
  Inputs = {}
  MaxTurns = 2
  Modes = {"chat", "todo"}
  MaxIterations = 1
  MaxCalls = 1
  MaxTodos = 1
  HasTodoTool = TRUE
PROPERTY TurnsEnd
CHECK_DEADLOCK FALSE
