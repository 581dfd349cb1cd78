\* The three addons: does restrict protect what documents refer to?
SPECIFICATION Spec
CONSTANTS
  Module <- Modules
  Depends <- ModuleDepends
  Table <- Tables
  DefinedBy <- TableModule
  Field <- Fields
  From <- FieldFrom
  To <- FieldTo
  OnDelete <- FieldDelete
  Row <- Tables
  In <- RowTable
  Null = "null"
INVARIANTS
  RestrictProtects
