SPECIFICATION Spec
CONSTANTS
  main = main
  f0 = f0
  f1 = f1
  g0 = g0
  g1 = g1
  ch0 = ch0
  ch1 = ch1
  dh1 = dh1
  cg1 = cg1
  C = C
  D = D
  Root = Root
  NoDecl = NoDecl
  NoClass = NoClass
  Skipped = {}
  Decl <- MCDecl
  NameOf <- MCName
  ClassOf <- MCClass
  Definition <- MCDefinition
  Program <- InClassProgram
CHECK_DEADLOCK FALSE
INVARIANT BodiesWalked
