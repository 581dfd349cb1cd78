\* The three addons, installed, updated and killed in any order.
SPECIFICATION Spec
CONSTANTS
  Module <- Modules
  Depends <- ModuleDepends
  Table <- Tables
  DefinedBy <- TableModule
  Field <- Fields
  From <- FieldFrom
  To <- FieldTo
  OnDelete <- FieldDelete
  Row <- Tables
  In <- RowTable
  Null = "null"
INVARIANTS
  TypeOK
  CoveredHasKey
  CoveredIsWhole
