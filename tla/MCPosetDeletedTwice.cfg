CONSTANTS
  t1 = t1
  t2 = t2
  table = table
  schema = schema
  namespace = namespace
  NoPoset = NoPoset
  Threads <- MCThreads
  Posets <- MCPosets
  Namespace = namespace
  Primitives = NoPoset
  SchemaOf <- MCSchemaOf
  Tables <- MCTables
  MaxCalls <- MCMaxCalls
  Practices <- DeletingTwice
SPECIFICATION Spec
INVARIANT DeleterFindsPoset
CHECK_DEADLOCK FALSE
