CONSTANTS
  t1 = t1
  t2 = t2
  table = table
  schema = schema
  namespace = namespace
  NoPoset = NoPoset
  Threads <- MCThreads
  Posets <- MCPosets
  Namespace = namespace
  Primitives = NoPoset
  SchemaOf <- MCSchemaOf
  Tables <- MCTables
  MaxCalls <- MCMaxCalls
  Practices <- Disciplined
SPECIFICATION FairSpec
INVARIANTS
  TypeOK
  AccessAddsUp
  SchemaLocked
  EditorWrites
  NobodyUsesDeleted
PROPERTIES
  EveryCallReturns
CHECK_DEADLOCK FALSE
