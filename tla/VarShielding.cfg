CONSTANTS
  Name = {a, b}
  Param = {a}
  MaxTable = 2
  MaxLen = 4
  MaxWalk = 2
SPECIFICATION Spec
INVARIANTS
  TypeOK
  UseDenotesLexicalBinding
  WalkRestoresParserState
  FormalTypeIsDeclared
PROPERTY
  ImplementsLexicalBinding
