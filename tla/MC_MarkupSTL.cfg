\* Every call, by a client that never removes an element holding a saved position.
CONSTANTS
  Names <- MCNames
  Values <- MCValues
  PosNames <- MCPosNames
  Docs <- MCDocs
  Calls <- AllCalls
  MaxPos <- MCMaxPos
  MaxDoc <- MCMaxDoc
  AttribNames <- MCAttribNames
  SubDocs <- MCSubDocs
  RemovesSavedElems = FALSE
SPECIFICATION Spec
VIEW Observable
INVARIANT TypeOK
INVARIANT IndexMatchesDocument
INVARIANT AttribReadsBack
INVARIANT DataReadsBack
