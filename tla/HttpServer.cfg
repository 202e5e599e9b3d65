SPECIFICATION HttpSpec
CONSTANTS
  Clients = {c1, c2}
  Asked <- MCAsked
  Nothing = Nothing
  Letters = {"a"}
  Nul = Nul
  MaxLen = 5
INVARIANTS ReplyFits ParsedExactly
 
CHECK_DEADLOCK FALSE
