\* Building a document of up to four elements.
CONSTANTS
  Names <- MCNames
  Values <- MCValues
  PosNames <- MCPosNames
  Docs <- MCDocs
  Calls <- BuildCalls
  MaxPos <- MCMaxPosSiblings
  MaxDoc <- MCMaxDocSiblings
  AttribNames <- MCAttribNames
  SubDocs <- MCSubDocs
  RemovesSavedElems = FALSE
SPECIFICATION Spec
INVARIANT IndexMatchesDocument
