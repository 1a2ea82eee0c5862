SPECIFICATION FairSpec
CONSTANTS
  Callers = {alice}
  Inputs = {one}
  MaxTurns = 3
  Modes = {"chat"}
  MaxIterations = 1
  MaxCalls = 2
  MaxTodos = 1
  HasTodoTool = FALSE
INVARIANTS TornDownWhenIdle InputsStayInTurn InputsAreAnswered
PROPERTY NewChatSettles
CHECK_DEADLOCK FALSE
