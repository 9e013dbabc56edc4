---------------------------- MODULE MC_MarkupSTL ----------------------------
(***************************************************************************)
(* Instances of MarkupSTL for TLC: two one-letter tag names, a value that  *)
(* must be escaped, one attribute name, one saved-position name, one input *)
(* document with text content and nesting, a subdocument that parses and   *)
(* one that does not, four index slots (a root and two children), and a    *)
(* document length past which edits stop.  The violation runs use a        *)
(* subdocument with text content, and five slots with only the calls that  *)
(* build siblings.                                                         *)
(***************************************************************************)
EXTENDS MarkupSTL

MCNames == {<<"A">>, <<"B">>}
MCValues == {<<>>, <<"<">>}
MCPosNames == {"s"}
\* <A>v<B/></A>
MCDocs == {<<"<", "A", ">", "v", "<", "B", "/", ">", "<", "/", "A", ">">>}
MCMaxPos == 4
MCAttribNames == {<<"t">>}
\* <B/>, and <B> which does not parse
MCSubDocs == {<<"<", "B", "/", ">">>, <<"<", "B", ">">>}
MCMaxDoc == 16
\* <B>v</B>: a subdocument whose root has text and no child element
MCSubDocsText == {<<"<", "B", ">", "v", "<", "/", "B", ">">>}
\* A root and one child suffice for it: three slots, and a longer text
MCMaxPosSubDoc == 3
MCMaxDocSubDoc == 20
\* Room for a root and three children
MCMaxPosSiblings == 5
MCMaxDocSiblings == 40

AllCalls == {"AddElem", "SetData", "RemoveElem", "RemoveChildElem", "FindElem",
             "FindChildElem", "IntoElem", "OutOfElem", "ResetPos", "SavePos",
             "RestorePos", "SetDoc", "SetAttrib", "AddSubDoc"}
\* Building a document and moving in it
BuildCalls == {"AddElem", "FindElem", "FindChildElem", "IntoElem", "OutOfElem"}
=============================================================================
