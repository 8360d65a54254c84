SPECIFICATION TurnSpec
CONSTANTS
  r1 = r1
  r2 = r2
  r3 = r3
  a1 = a1
  a2 = a2
  Requests <- MCRequests
  TurnKeys = {k1}
  NoKey = NoKey
  Prompts = {p1, p2}
  NoPrompt = NoPrompt
  Tools = {c1, c2}
  NoTool = NoTool
  Answers <- MCAnswers
  Empty = Empty
SYMMETRY Symmetric
INVARIANTS TextFitsStatus ToolRunsOnce ToldWhatIsStored
