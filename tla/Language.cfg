SPECIFICATION Spec
CONSTANTS
  Modulus = 128
  Units <- MCUnits
  Atoms <- MCAtoms
  NameAtoms <- MCNameAtoms
  Lower <- MCLower
  Number <- MCNumber
  DefaultPolicy <- MCDefaultPolicy
  Statements <- MCStatements
  Requests <- MCRequests
  Garbled <- MCGarbled
  Names <- MCNames
INVARIANTS
  TypeOK
  Understood
  NothingElse
  MetricsNameable
  FilesBehindMetrics
  PoliciesUsable
  ShownPolicyRecreates
PROPERTY
  ErrorsChangeNothing
