SPECIFICATION FairPlanSpec
CONSTANTS
  root = root
  child = child
  tool = tool
  Root = root
  Threads <- AllThreads
  Free = Free
  Contexts = {root, child, tool}
  Parent <- FlatParent
  Plans = {root, child}
  Leaves = {tool}
  Batches <- PairBatches
  Streamed = {tool}
  Slow = {child}
INVARIANTS NoneEscapes AnswersAgree SuccessIsQuiet
PROPERTIES CancelEndsAll PlansEnd
CHECK_DEADLOCK FALSE
