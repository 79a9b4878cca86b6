SPECIFICATION FairMain
CONSTANTS
  main = main
  f0 = f0
  f1 = f1
  g0 = g0
  g1 = g1
  g2 = g2
  Root = Root
  NoDecl = NoDecl
  NoClass = NoClass
  Skipped = {}
  Decl <- MCDecl
  NameOf <- MCName
  ClassOf <- MCClass
  Definition <- MCDefinition
  Program <- MCProgram
  keys <- MCKeys
  FilePatterns <- MCPatterns
  MaxDepth = 6
  Missing = Missing
  Old = Old
  Troubled <- MCTroubled
CHECK_DEADLOCK FALSE
INVARIANTS AnalysisTypeOK MarginSound MarginShown RootCallersRight NothingStale
PROPERTY Ends
