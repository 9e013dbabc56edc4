\* Every call, with a subdocument <B>v</B>.
CONSTANTS
  Names <- MCNames
  Values <- MCValues
  PosNames <- MCPosNames
  Docs <- MCDocs
  Calls <- AllCalls
  MaxPos <- MCMaxPosSubDoc
  MaxDoc <- MCMaxDocSubDoc
  AttribNames <- MCAttribNames
  SubDocs <- MCSubDocsText
  RemovesSavedElems = FALSE
SPECIFICATION Spec
INVARIANT DataReadsBack
