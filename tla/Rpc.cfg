SPECIFICATION FairSpec
CONSTANTS
  a = a
  b = b
  NoMsg = NoMsg
  Inputs = {a, b}
  Chunk = 2
  Requests <- MCRequests
  Functions <- MCFunctions
  Answers <- MCAnswers
  NoAnswer <- Raised
  Plans <- MCPlans
INVARIANTS
  OneReplyEach
  RepliesMatch
PROPERTIES
  ImplementsMerge
  AnsweredUntilStopped
