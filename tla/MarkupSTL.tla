------------------------------ MODULE MarkupSTL ------------------------------
(***************************************************************************)
(* CMarkupSTL (src/src/markupstl.cpp/.h): an XML document kept as text     *)
(* (m_strDoc) together with an index of its elements (m_aPos, an array of  *)
(* ElemPos: offsets into the text plus parent/child/sibling links) and a   *)
(* cursor (m_iPosParent, m_iPos, m_iPosChild).  Every editing call changes *)
(* the text and then patches the index in place (x_Adjust, x_LinkElem,     *)
(* x_UnlinkElem) instead of parsing the text again.                        *)
(*                                                                         *)
(* The text is a sequence of one-character strings.  CR and LF stand for   *)
(* '\r' and '\n'; NUL is the terminator read at m_strDoc.size().  The     *)
(* documents built here hold only the characters of Alphabet: no tab,     *)
(* apostrophe, '!', '?', '#' or '[', so the parser's branches for          *)
(* comments, CDATA, processing instructions, DOCTYPE and numeric character *)
(* references are never reached and are left out (the double quote and    *)
(* '=' come from SetAttrib).  Offsets are 0-based as in the code:          *)
(* character n of the text is doc[n + 1].                                  *)
(***************************************************************************)
EXTENDS Integers, Sequences, SequencesExt
LOCAL INSTANCE ByteBuffer

CONSTANTS Names,      \* tag names passed to AddElem & co (sequences of letters)
          Values,     \* szValue / szData arguments (<<>> stands for NULL and "")
          PosNames,   \* szPosName arguments of SavePos / RestorePos
          Docs,       \* documents passed to SetDoc
          Calls,      \* the entry points the client program uses
          MaxPos,     \* bound: index slots handed out by x_GetFreePos
          RemovesSavedElems, \* whether the client may remove an element at or
                      \* above a position it saved (RestorePos can then meet it)
          MaxDoc,     \* bound: document length at which edits stop (text can
                      \* grow without end: see the note on DoAddElem)
          AttribNames, \* szAttrib arguments of SetAttrib (sequences of letters)
          SubDocs     \* szSubDoc arguments of AddSubDoc & co

CR == "cr"
LF == "lf"
NUL == "nul"
x_EOL == <<CR, LF>>                       \* #define x_EOL "\r\n"
SP == " "
QUOTE == "\""                             \* #define x_ATTRIBQUOTE "\""
WS == {SP, CR, LF}                        \* " \t\n\r" restricted to Alphabet
Letters == {"A", "B", "a", "g", "l", "m", "p", "t", "v"}
Alphabet == Letters \cup WS \cup {"<", ">", "/", "&", ";", "=", QUOTE}

MNT_ELEMENT == 1
MNT_TEXT == 2
MNT_WHITESPACE == 4

(***************************************************************************)
(* struct ElemPos.  nTagLengths packs StartTagLen and EndTagLen and nFlags *)
(* packs the MNF_ bits with the level; they are kept as separate fields,   *)
(* but an assignment to nFlags (SetFlags) resets the level as the code's   *)
(* does.  Clear() zeroes everything.                                       *)
(***************************************************************************)
ClearedPos == [nStart |-> 0, nLength |-> 0, stl |-> 0, etl |-> 0, bits |-> {},
               level |-> 0, parent |-> 0, child |-> 0, next |-> 0, prev |-> 0]
StartContent(e) == e.nStart + e.stl
ContentLen(e) == e.nLength - e.stl - e.etl
StartAfter(e) == e.nStart + e.nLength
EndL(e) == e.nStart + e.nLength - e.etl
SetFlags(e, bits) == [e EXCEPT !.bits = bits, !.level = 0]
Toggle(S, x) == IF x \in S THEN S \ {x} ELSE S \cup {x}

\* szDoc[n]: the terminator at and past the end.
Char(d, n) == IF n < Len(d) THEN d[n + 1] ELSE NUL

\* x_FindAny: the first offset at or after n that is not whitespace.
RECURSIVE x_FindAny(_, _)
x_FindAny(d, n) == IF Char(d, n) \in WS THEN x_FindAny(d, n + 1) ELSE n

\* The idiom "if ( ! x_FindAny(szDoc,nChar) || szDoc[nChar] == '<' ) n = nChar":
\* move n past whitespace when only whitespace separates it from a tag or the end.
UpToNextTag(d, n) == IF Char(d, x_FindAny(d, n)) \in {NUL, "<"} THEN x_FindAny(d, n) ELSE n

\* x_FindChar: the first offset at or after n holding c, or the end.
RECURSIVE x_FindChar(_, _, _)
x_FindChar(d, n, c) == IF Char(d, n) \in {c, NUL} THEN n ELSE x_FindChar(d, n + 1, c)

\* x_FindToken from token.nNext = n: nL, nR, nNext, bIsString, and whether
\* a token was found before the end.  A quoted token runs to the closing
\* quote; otherwise up to a special character, or one special character.
TokenStop == WS \cup {"<", ">", "=", "\\", "/", "?", "!"}
RECURSIVE RunEnd(_, _)
RunEnd(d, n) == IF Char(d, n) \notin TokenStop \cup {NUL} THEN RunEnd(d, n + 1) ELSE n
x_FindToken(d, n) ==
    Then(x_FindAny(d, n), LAMBDA l :
        CASE Char(d, l) = NUL -> [found |-> FALSE, l |-> l, r |-> l - 1, next |-> l, str |-> FALSE]
          [] Char(d, l) \in {QUOTE, "'"} ->
               Then(x_FindChar(d, l + 1, Char(d, l)), LAMBDA q :
                   [found |-> TRUE, l |-> l + 1, r |-> q - 1, str |-> TRUE,
                    next |-> IF Char(d, q) # NUL THEN q + 1 ELSE q])
          [] OTHER ->
               Then(IF RunEnd(d, l) = l THEN l + 1 ELSE RunEnd(d, l), LAMBDA e :
                   [found |-> TRUE, l |-> l, r |-> e - 1, next |-> e, str |-> FALSE]))

\* x_GetToken: the token's text.
x_GetToken(d, t) == IF t.l > t.r THEN <<>> ELSE SubSeq(d, t.l + 1, t.r + 1)

\* The tag name at offset n (a start tag's '<' plus one).  token.Match(name)
\* is equality for the names used here: they hold none of " =/[".
TagAt(d, n) == x_GetToken(d, x_FindToken(d, n))

\* x_GetTagName(iPos)
x_GetTagName(P, d, i) == IF i = 0 THEN <<>> ELSE TagAt(d, P[i].nStart + 1)

\* x_TextToDoc(szText, bAttrib): '<', '&' and '>' become entity references,
\* and for an attribute value the quotes too.
Escape(c, bAttrib) ==
    CASE c = "<" -> <<"&", "l", "t", ";">>
      [] c = "&" -> <<"&", "a", "m", "p", ";">>
      [] c = ">" -> <<"&", "g", "t", ";">>
      [] c = "'" /\ bAttrib -> <<"&", "a", "p", "o", "s", ";">>
      [] c = QUOTE /\ bAttrib -> <<"&", "q", "u", "o", "t", ";">>
      [] OTHER -> <<c>>
x_TextToDoc(s, bAttrib) == FoldLeft(LAMBDA acc, c : acc \o Escape(c, bAttrib), <<>>, s)

\* x_TextFromDoc(nLeft, nCopy): the named references (szaCode) become their
\* symbols when they end inside the range; any other '&' is kept.
EntityCodes == << <<"l", "t", ";">>, <<"a", "m", "p", ";">>, <<"g", "t", ";">>,
                  <<"a", "p", "o", "s", ";">>, <<"q", "u", "o", "t", ";">> >>
EntitySymbols == <<"<", "&", ">", "'", QUOTE>>
CodeAt(d, n, nEnd) ==
    {k \in 1..5 : /\ n < nEnd - Len(EntityCodes[k])
                  /\ \A j \in 1..Len(EntityCodes[k]) : Char(d, n + j) = EntityCodes[k][j]}
RECURSIVE TextFrom(_, _, _)
TextFrom(d, n, nEnd) ==
    IF n >= nEnd THEN <<>>
    ELSE IF Char(d, n) = "&" /\ CodeAt(d, n, nEnd) # {}
    THEN Then(Min(CodeAt(d, n, nEnd)), LAMBDA k :
              <<EntitySymbols[k]>> \o TextFrom(d, n + Len(EntityCodes[k]) + 1, nEnd))
    ELSE <<Char(d, n)>> \o TextFrom(d, n + 1, nEnd)
x_TextFromDoc(d, nLeft, nCopy) == TextFrom(d, nLeft, nLeft + nCopy)

\* x_DocChange: m_strDoc.replace(nLeft, nReplace, strInsert).
x_DocChange(d, nLeft, nReplace, ins) ==
    SubSeq(d, 1, nLeft) \o ins \o SubSeq(d, nLeft + nReplace + 1, Len(d))

\* std::string::replace throws std::out_of_range when nLeft > size().
DocChangeThrows(d, nLeft) == nLeft > Len(d)

(***************************************************************************)
(* x_ParseNode: one node from offset n.  The while(1) loop over the        *)
(* characters is ScanNode; s carries nNodeType, nParseFlags (OPENTAG,      *)
(* TEXTORWS), whether szFindEnd is set (it is ">" or "<", nEndLen 1, for   *)
(* every node reached here), nName, the name or end-tag token, MNF_EMPTY   *)
(* and nR.  Returns the type: element 1, end tag 0, text 2, whitespace 4,  *)
(* -1 error, -2 end of document.                                          *)
(***************************************************************************)
NameEnd == WS \cup {"/", ">"}

RECURSIVE ScanNode(_, _, _)
ScanNode(d, s, p) ==
  LET c == Char(d, p) IN
  IF c = NUL
  THEN [s EXCEPT !.r = p - 1,
                 !.type = IF @ \in {MNT_WHITESPACE, MNT_TEXT} THEN @ ELSE -1]
  ELSE IF s.nName # 0 /\ c \notin NameEnd THEN ScanNode(d, s, p + 1)
  ELSE Then(IF s.nName = 0 THEN s
            ELSE IF s.type = 0 THEN [s EXCEPT !.tok = SubSeq(d, s.nName + 1, p), !.nName = 0]
            ELSE [s EXCEPT !.name = SubSeq(d, s.nName + 1, p), !.nName = 0], LAMBDA t :
       IF t.findEnd
       THEN CASE c = ">" -> [t EXCEPT !.r = p, !.findEnd = FALSE,
                               !.empty = (t.type = MNT_ELEMENT /\ Char(d, p - 1) = "/")]
              [] c = "<" /\ t.type = MNT_TEXT -> [t EXCEPT !.r = p - 1]
              [] OTHER -> ScanNode(d, t, p + 1)
       ELSE IF "TEXTORWS" \in t.flags
       THEN CASE c = "<" -> [t EXCEPT !.r = p - 1, !.type = MNT_WHITESPACE]
              [] c \notin WS -> ScanNode(d, [t EXCEPT !.flags = @ \ {"TEXTORWS"},
                                            !.findEnd = TRUE, !.type = MNT_TEXT], p + 1)
              [] OTHER -> ScanNode(d, t, p + 1)
       ELSE IF "OPENTAG" \in t.flags
       THEN CASE c \in Letters -> ScanNode(d, [t EXCEPT !.flags = {}, !.findEnd = TRUE,
                                                 !.type = MNT_ELEMENT, !.nName = p], p + 1)
              [] c = "/" -> ScanNode(d, [t EXCEPT !.flags = {}, !.findEnd = TRUE,
                                           !.type = 0, !.nName = p + 1], p + 1)
              [] OTHER -> [t EXCEPT !.flags = {}, !.type = -1]
       ELSE IF c = "<" THEN ScanNode(d, [t EXCEPT !.flags = {"OPENTAG"}], p + 1)
       ELSE IF c \in WS
       THEN ScanNode(d, [t EXCEPT !.type = MNT_WHITESPACE, !.flags = {"TEXTORWS"}], p + 1)
       ELSE ScanNode(d, [t EXCEPT !.type = MNT_TEXT, !.findEnd = TRUE], p + 1))

x_ParseNode(d, n) ==
  IF Char(d, n) = NUL
  THEN [type |-> -2, start |-> n, length |-> 0, next |-> n, name |-> <<>>, tok |-> <<>>, empty |-> FALSE]
  ELSE Then(ScanNode(d, [type |-> -1, flags |-> {}, findEnd |-> FALSE, nName |-> 0, name |-> <<>>,
                         tok |-> <<>>, empty |-> FALSE, r |-> n], n), LAMBDA s :
         [type |-> s.type, start |-> n, length |-> s.r + 1 - n, next |-> s.r + 1,
          name |-> s.name, tok |-> s.tok, empty |-> s.empty])

(***************************************************************************)
(* x_ParseElem(iPosParent, token): the node loop.  st.cur is both iPos and *)
(* iPosParent of the code (they are equal at every loop test); st.open is  *)
(* the NodeStack above its base slot: the names of the open start tags.    *)
(* A start tag takes the next free slot and is linked as the last child of *)
(* cur; an end tag closes cur and must match the innermost open name       *)
(* (token.Match is equality here: names hold none of " =/[").  st.result  *)
(* is the return value: the root slot, 0 (no root) or -1 (error).         *)
(***************************************************************************)
\* Mutant: the level counted from -1.
ElemLevelOffByOne(rootDepth, depth) == rootDepth + depth - 1

\* pElem->SetLevel( nRootDepth + nDepth )
ElemLevel(rootDepth, depth) == rootDepth + depth

\* The fields x_ParseElem gives a new element (lines 557-583); the others
\* keep what the slot held.
LinkLastChild(P, par, i) ==
    LET first == P[par].child IN
    IF first # 0
    THEN [P EXCEPT ![P[first].prev].next = i, ![first].prev = i,
                   ![i] = SetFlags([@ EXCEPT !.parent = par, !.next = 0, !.prev = P[first].prev], {})]
    ELSE [P EXCEPT ![par].child = i,
                   ![i] = SetFlags([@ EXCEPT !.parent = par, !.next = 0, !.prev = i], {"FIRST"})]

StartElem(P, st, nd) ==
    LET i == st.free
        L == LinkLastChild(P, st.cur, i)
        e == [L[i] EXCEPT !.level = ElemLevel(st.rootDepth, st.depth), !.child = 0,
                          !.nStart = nd.start, !.stl = nd.length]
    IN [L EXCEPT ![i] = IF nd.empty
                        THEN [e EXCEPT !.bits = @ \cup {"EMPTY"}, !.etl = 2, !.nLength = nd.length]
                        ELSE e]

RECURSIVE ParseNodes(_, _)
ParseNodes(d, st) ==
  Then(x_ParseNode(d, st.next), LAMBDA nd :
  LET s == [st EXCEPT !.next = nd.next] IN
  CASE nd.type = MNT_ELEMENT ->
         IF s.root # 0 /\ s.depth = 0 THEN [s EXCEPT !.result = -1]   \* sibling to root
         ELSE Then(StartElem(s.pos, s, nd), LAMBDA P :
              LET i == s.free
                  s1 == [s EXCEPT !.pos = P, !.free = i + 1, !.root = IF @ = 0 THEN i ELSE @]
              IN ParseNodes(d, IF nd.empty THEN s1
                               ELSE [s1 EXCEPT !.cur = i, !.depth = @ + 1, !.open = Append(@, nd.name)]))
    [] nd.type = 0 ->
         IF s.open = <<>> THEN [s EXCEPT !.result = -1]               \* no start tag
         ELSE LET e == s.cur
                  P == [s.pos EXCEPT ![e].nLength = nd.start - s.pos[e].nStart + nd.length,
                                     ![e].etl = nd.length]
              IN IF nd.tok # Last(s.open)
                 THEN [s EXCEPT !.pos = P, !.open = Front(@), !.result = -1]   \* mismatch
                 ELSE ParseNodes(d, [s EXCEPT !.pos = P, !.open = Front(@), !.depth = @ - 1,
                                              !.cur = P[e].parent])
    [] nd.type >= 0 -> ParseNodes(d, s)                               \* text, whitespace
    [] OTHER -> [s EXCEPT !.result = CASE nd.type = -1 -> -1
                                       [] s.depth > 0 -> -1           \* not ended
                                       [] s.root = 0 -> 0             \* no root
                                       [] OTHER -> s.root])

x_ParseElem(P, free, par, d) ==
    ParseNodes(d, [pos |-> P, free |-> free, cur |-> par, root |-> 0, depth |-> 0, open |-> <<>>,
                   next |-> 0, rootDepth |-> P[par].level, result |-> 0])

(***************************************************************************)
(* x_ParseDoc: parse m_strDoc from scratch into slots 1, 2, ...  Returns   *)
(* the new array, m_iPosFree and whether the document is well formed; the  *)
(* caller also resets the cursor, the saved positions and m_iPosDeleted.   *)
(***************************************************************************)
x_ParseDoc(P, d) ==
  LET P0 == [P EXCEPT ![0] = ClearedPos]
      fail == [pos |-> P0, free |-> 1, ok |-> FALSE]
  IN IF d = <<>> THEN fail
     ELSE Then(x_ParseElem(P0, 1, 0, d), LAMBDA st :
            IF st.result > 0
            THEN [pos |-> [st.pos EXCEPT ![0].child = st.result, ![0].nLength = Len(d)],
                  free |-> st.free, ok |-> TRUE]
            ELSE [fail EXCEPT !.pos = [st.pos EXCEPT ![0] = ClearedPos]])

(***************************************************************************)
(* x_Adjust(iPos, nShift, bAfterPos): walk the index in document order     *)
(* from iPos (skipping its children when bAfterPos), shifting the nStart  *)
(* of every later element by nShift and the nLength of every ancestor.    *)
(* iPosTop is the ancestor whose length is due next.                      *)
(***************************************************************************)
\* The inner while: climb from j until an ancestor with a next sibling.
RECURSIVE UpToParentNext(_, _, _)
UpToParentNext(P, j, top) ==
    IF j = 0 \/ j = top THEN j
    ELSE IF P[j].next # 0 THEN P[j].next
    ELSE UpToParentNext(P, P[j].parent, top)

\* "Shift indexes at iPos"
ShiftAt(P, i, top, shift) ==
    IF i # top THEN [P EXCEPT ![i].nStart = @ + shift]
    ELSE [P EXCEPT ![i].nLength = @ + shift]

\* Mutant: the walk never steps to iPos's own next sibling, only climbs.
RECURSIVE AdjustFromClimbOnly(_, _, _, _, _)
AdjustFromClimbOnly(P, i, top, first, shift) ==
  IF i = 0 THEN P
  ELSE LET atTop == i = top
           newTop == IF atTop THEN P[i].parent ELSE top
       IN Then(IF ~atTop /\ ~first /\ P[i].child # 0 THEN P[i].child
               ELSE UpToParentNext(P, P[i].parent, newTop), LAMBDA nxt :
          AdjustFromClimbOnly(ShiftAt(P, nxt, newTop, shift), nxt, newTop, FALSE, shift))

RECURSIVE AdjustFrom(_, _, _, _, _)
AdjustFrom(P, i, top, first, shift) ==
  IF i = 0 THEN P
  ELSE LET atTop == i = top
           newTop == IF atTop THEN P[i].parent ELSE top
       IN Then(IF ~atTop /\ ~first /\ P[i].child # 0 THEN P[i].child
               ELSE IF P[i].next # 0 THEN P[i].next
               ELSE UpToParentNext(P, P[i].parent, newTop), LAMBDA nxt :
          AdjustFrom(ShiftAt(P, nxt, newTop, shift), nxt, newTop, FALSE, shift))

x_Adjust(P, i, shift, afterPos) == AdjustFrom(P, i, P[i].parent, afterPos, shift)

\* x_LinkElem(iPosParent, iPosBefore, iPos): after iPosBefore, or as first child.
x_LinkElem(P, par, before, i) ==
  LET P1 == [P EXCEPT ![i].parent = par]
      P2 == IF before # 0
            THEN LET nx == P1[before].next
                     Q == [P1 EXCEPT ![i] = [SetFlags(@, {}) EXCEPT !.next = nx]]
                     Q2 == IF nx = 0 THEN [Q EXCEPT ![Q[par].child].prev = i] ELSE Q
                 IN [Q2 EXCEPT ![before].next = i, ![i].prev = before]
            ELSE IF P1[par].child # 0
            THEN LET f == P1[par].child
                 IN [P1 EXCEPT ![i] = [SetFlags(@, {"FIRST"}) EXCEPT !.next = f, !.prev = P1[f].prev],
                               ![f].prev = i, ![f].bits = Toggle(@, "FIRST"), ![par].child = i]
            ELSE [P1 EXCEPT ![i] = [SetFlags(@, {"FIRST"}) EXCEPT !.next = 0, !.prev = i],
                            ![par].child = i]
  IN IF par # 0 THEN [P2 EXCEPT ![i].level = P2[par].level + 1] ELSE P2

\* The sibling links of x_UnlinkElem that bypass element i.
UnlinkLinks(P, i) ==
  LET e == P[i]
  IN IF "FIRST" \in e.bits
     THEN IF e.next # 0
          THEN [P EXCEPT ![e.parent].child = e.next, ![e.next].prev = e.prev,
                         ![e.next].bits = @ \cup {"FIRST"}]
          ELSE [P EXCEPT ![e.parent].child = 0]
     ELSE IF e.next # 0
     THEN [P EXCEPT ![e.prev].next = e.next, ![e.next].prev = e.prev]
     ELSE [P EXCEPT ![e.prev].next = e.next, ![P[e.parent].child].prev = e.prev]

\* Deleted-slot marking and push shared by x_UnlinkElem and its mutant.
MarkDeleted(P, deleted, i) ==
    [P EXCEPT ![i] = [SetFlags(@, {"DELETED"}) EXCEPT !.next = deleted]]

\* x_UnlinkElem(iPos): bypass the element, mark it deleted, push it on the
\* deleted list; returns the previous sibling or 0.
x_UnlinkElem(P, deleted, i) ==
  LET e == P[i]
  IN [pos |-> MarkDeleted(UnlinkLinks(P, i), deleted, i),
      deleted |-> i, prev |-> IF "FIRST" \in e.bits THEN 0 ELSE e.prev]

(***************************************************************************)
(* x_LocateNew(iPosParent, iPosRel, nOffset, nLength, nFlags): where a new *)
(* element goes and which sibling it follows.  m_nNodeLength, the nLength *)
(* passed by x_AddElem, is always 0: x_SetPos is its only writer.  Flag 2 *)
(* (honour whitespace) is never passed.                                   *)
(***************************************************************************)
x_LocateNew(P, d, par, rel, bInsert) ==
  LET at == CASE rel # 0 -> P[rel].nStart + (IF bInsert THEN 0 ELSE P[rel].nLength)
              [] par = 0 -> IF bInsert THEN 0 ELSE Len(d)
              [] "EMPTY" \in P[par].bits -> StartContent(P[par]) - 1
              [] bInsert -> StartContent(P[par])
              [] OTHER -> EndL(P[par])
      before == CASE rel # 0 /\ ~bInsert -> rel
                  [] rel # 0 -> IF "FIRST" \in P[rel].bits THEN 0 ELSE P[rel].prev
                  [] P[par].child # 0 -> IF bInsert THEN rel ELSE P[P[par].child].prev
                  [] OTHER -> 0
  IN [nOffset |-> IF "EMPTY" \in P[par].bits THEN at ELSE UpToNextTag(d, at),
      iPosRel |-> before]

(***************************************************************************)
(* The markup object as one record: N.doc = m_strDoc, N.pos = m_aPos,      *)
(* N.free = m_iPosFree, N.deleted = m_iPosDeleted, the cursor, the saved  *)
(* position map, and thrown when a call ended in an exception.            *)
(***************************************************************************)
x_SetPos(N, p, i, c) == [N EXCEPT !.parent = p, !.main = i, !.child = c]

\* IsWellFormed(): the document has a root element.
IsWellFormed(N) == N.pos[0].child # 0

\* The text x_AddElem inserts for <NAME/> or <NAME>value</NAME>.
ElemText(name, val) ==
    IF val = <<>> THEN <<"<">> \o name \o <<"/", ">">> \o x_EOL
    ELSE <<"<">> \o name \o <<">">> \o val \o <<"<", "/">> \o name \o <<">">> \o x_EOL

(***************************************************************************)
(* x_AddElem(szName, szValue, bInsert, bAddChild): AddElem, InsertElem,    *)
(* AddChildElem and InsertChildElem.  The slot comes from x_GetFreePos     *)
(* (m_iPosFree++).  An empty parent <P/> is split into <P>...</P>; a      *)
(* parent with no content gets an EOL first.                               *)
(***************************************************************************)
x_AddElem(N, name, value, bInsert, bAddChild) ==
  IF bAddChild /\ N.main = 0 THEN N
  ELSE IF ~bAddChild /\ N.parent = 0 /\ IsWellFormed(N) THEN N
  ELSE
  LET P0 == IF ~bAddChild /\ N.parent = 0 THEN [N.pos EXCEPT ![0].nLength = Len(N.doc)] ELSE N.pos
      par == IF bAddChild THEN N.main ELSE N.parent
      L == x_LocateNew(P0, N.doc, par, IF bAddChild THEN N.child ELSE N.main, bInsert)
      emptyParent == "EMPTY" \in P0[par].bits
      noContentParent == par # 0 /\ ContentLen(P0[par]) = 0
      i == N.free
      off == L.nOffset + (IF emptyParent \/ noContentParent THEN Len(x_EOL) ELSE 0)
      val == x_TextToDoc(value, FALSE)
      P2 == x_LinkElem([P0 EXCEPT ![i].nStart = off, ![i].child = 0], par, L.iPosRel, i)
      P3 == IF value = <<>>
            THEN [P2 EXCEPT ![i].stl = Len(name) + 3, ![i].etl = 2,
                            ![i].nLength = Len(name) + 3, ![i].bits = @ \cup {"EMPTY"}]
            ELSE [P2 EXCEPT ![i].stl = Len(name) + 2, ![i].etl = Len(name) + 3,
                            ![i].nLength = 2 * Len(name) + Len(val) + 5]
      ptag == x_GetTagName(P3, N.doc, par)
      ins == CASE emptyParent -> <<">">> \o x_EOL \o ElemText(name, val) \o <<"<", "/">> \o ptag
               [] noContentParent -> x_EOL \o ElemText(name, val)
               [] OTHER -> ElemText(name, val)
      at == CASE emptyParent -> StartContent(P3[par]) - 2
              [] noContentParent -> StartContent(P3[par])
              [] OTHER -> off
      rep == IF emptyParent THEN 1 ELSE 0
      P4 == IF emptyParent
            THEN [P3 EXCEPT ![par].stl = @ - 1, ![par].etl = @ + 1 + Len(ptag),
                            ![par].bits = Toggle(@, "EMPTY")]
            ELSE P3
      N1 == [N EXCEPT !.pos = P4, !.free = i + 1]
  IN IF DocChangeThrows(N.doc, at) THEN [N1 EXCEPT !.thrown = TRUE]
     ELSE LET N2 == [N1 EXCEPT !.doc = x_DocChange(N.doc, at, rep, ins),
                               !.pos = x_Adjust(P4, i, Len(ins) - rep, FALSE)]
          IN IF bAddChild THEN x_SetPos(N2, N.parent, par, i) ELSE x_SetPos(N2, par, i, 0)

(***************************************************************************)
(* x_SetData(iPos, szData, 0): replace the content of a childless element; *)
(* an empty element <E/> becomes <E>data</E>.  (SetData / SetChildData;    *)
(* the CDATA form, nCDATA = 1, is not called.)                            *)
(***************************************************************************)
x_SetData(N, i, value) ==
  IF i = 0 \/ N.pos[i].child # 0 THEN N
  ELSE
  LET P == N.pos
      empty == "EMPTY" \in P[i].bits
      tag == x_GetTagName(P, N.doc, i)
      ins == IF empty THEN <<">">> \o x_TextToDoc(value, FALSE) \o <<"<", "/">> \o tag
             ELSE x_TextToDoc(value, FALSE)
      at == IF empty THEN EndL(P[i]) ELSE StartContent(P[i])
      rep == IF empty THEN 1 ELSE ContentLen(P[i])
      P1 == IF empty
            THEN [P EXCEPT ![i].stl = @ - 1, ![i].etl = @ + 1 + Len(tag),
                           ![i].bits = Toggle(@, "EMPTY")]
            ELSE P
  IN IF DocChangeThrows(N.doc, at) THEN [N EXCEPT !.pos = P1, !.thrown = TRUE]
     ELSE [N EXCEPT !.doc = x_DocChange(N.doc, at, rep, ins),
                    !.pos = [x_Adjust(P1, i, Len(ins) - rep, FALSE) EXCEPT
                                ![i].nLength = @ + Len(ins) - rep]]

(***************************************************************************)
(* Attributes.  x_FindAttrib walks the tokens of a start tag from just     *)
(* after its '<': nCount numbers them (the tag name is 0, '=' counts too), *)
(* a '>', '/' or '?' ends the tag, and the value of the attribute named at *)
(* count nAttrib is the quoted token at nAttrib + 2.  With szAttrib NULL   *)
(* (<<>>) it stops at the first attribute name.  Returns the token.        *)
(***************************************************************************)
RECURSIVE FindAttribLoop(_, _, _, _, _)
FindAttribLoop(d, n, attrib, nCount, nAttrib) ==
  Then(x_FindToken(d, n), LAMBDA t :
    IF ~t.found THEN [found |-> FALSE, tok |-> t]
    ELSE IF ~t.str
    THEN CASE Char(d, t.l) \in {">", "/", "?"} -> [found |-> FALSE, tok |-> t]
           [] Char(d, t.l) = "=" -> FindAttribLoop(d, t.next, attrib, nCount + 1, nAttrib)
           [] nAttrib = 0 /\ nCount # 0 /\ attrib = <<>> -> [found |-> TRUE, tok |-> t]
           [] nAttrib = 0 /\ nCount # 0 /\ x_GetToken(d, t) = attrib ->
                FindAttribLoop(d, t.next, attrib, nCount + 1, nCount)
           [] OTHER -> FindAttribLoop(d, t.next, attrib, nCount + 1, nAttrib)
    ELSE IF nAttrib # 0 /\ nCount = nAttrib + 2 THEN [found |-> TRUE, tok |-> t]
    ELSE FindAttribLoop(d, t.next, attrib, nCount + 1, nAttrib))

x_FindAttrib(d, n, attrib) == FindAttribLoop(d, n, attrib, 0, 0)

\* x_GetAttrib(iPos, szAttrib): the decoded value, "" when absent.  The
\* processing-instruction branch needs m_nNodeLength # 0, which x_SetPos
\* never leaves.
AttribText(d, n, attrib) ==
    Then(x_FindAttrib(d, n, attrib), LAMBDA a :
        IF attrib # <<>> /\ a.found THEN x_TextFromDoc(d, a.tok.l, a.tok.r - a.tok.l + 1)
        ELSE <<>>)
x_GetAttrib(N, i, attrib) ==
    IF i = 0 \/ N.main = 0 THEN <<>> ELSE AttribText(N.doc, N.pos[i].nStart + 1, attrib)

\* Where x_SetAttrib inserts a new name="value": before the '>' of the start
\* tag, or before the "/>" of an empty element.
\* Mutant: the empty element's '/' is not stepped over.
AttribInsertAtIgnoringEmpty(e) == StartContent(e) - 1
AttribInsertAt(e) == StartContent(e) - (IF "EMPTY" \in e.bits THEN 2 ELSE 1)

\* AdjustStartTagLen(nAdjust) and nLength += nAdjust on the element.
\* Mutant: the start tag length is not adjusted.
GrowElemOnly(P, i, adj) == [P EXCEPT ![i].nLength = @ + adj]
GrowStartTag(P, i, adj) == [P EXCEPT ![i].stl = @ + adj, ![i].nLength = @ + adj]

\* x_SetAttrib(iPos, szAttrib, szValue): replace the value of an existing
\* attribute, or insert the pair; the start tag, the element and its
\* ancestors grow and everything after shifts.
x_SetAttrib(N, i, attrib, value) ==
  IF i = 0 \/ N.main = 0 THEN N
  ELSE
  LET P == N.pos
      a == x_FindAttrib(N.doc, P[i].nStart + 1, attrib)
      val == x_TextToDoc(value, TRUE)
      ins == IF a.found THEN val ELSE <<SP>> \o attrib \o <<"=", QUOTE>> \o val \o <<QUOTE>>
      at == IF a.found THEN a.tok.l ELSE AttribInsertAt(P[i])
      rep == IF a.found THEN a.tok.r - a.tok.l + 1 ELSE 0
      adj == Len(ins) - rep
  IN IF DocChangeThrows(N.doc, at) THEN [N EXCEPT !.thrown = TRUE]
     ELSE [N EXCEPT !.doc = x_DocChange(N.doc, at, rep, ins),
                    !.pos = x_Adjust(GrowStartTag(P, i, adj), i, adj, FALSE)]

\* x_GetData(iPos): the decoded content of a childless, non-empty element.
\* (The CDATA test looks for "<![CDATA[", which Alphabet cannot hold.)
x_GetData(N, i) ==
    IF N.pos[i].child = 0 /\ "EMPTY" \notin N.pos[i].bits
    THEN x_TextFromDoc(N.doc, StartContent(N.pos[i]), ContentLen(N.pos[i]))
    ELSE <<>>

(***************************************************************************)
(* x_AddSubDoc(szSubDoc, bInsert, bAddChild): AddSubDoc, InsertSubDoc,     *)
(* AddChildSubDoc and InsertChildSubDoc.  The subdocument is parsed by     *)
(* x_ParseElem under a temporary parent slot (from x_GetFreePos, one level *)
(* below the new parent), its root element cut out with an EOL, moved to  *)
(* the insertion offset (x_Adjust on the subtree), linked in, and the     *)
(* temporary slot pushed on the deleted list.  A subdocument that does    *)
(* not parse leaves the text alone, resets m_iPosFree past the temporary  *)
(* slot and returns false.                                                *)
(***************************************************************************)
\* "if ( ! m_aPos[iPos].iElemChild ) m_aPos[iPos].nFlags |= MNF_EMPTY;"
SubDocRootFlags(P, i) ==
    IF P[i].child = 0 THEN [P EXCEPT ![i].bits = @ \cup {"EMPTY"}] ELSE P

x_AddSubDoc(N, sd, bInsert, bAddChild) ==
  IF (bAddChild /\ N.main = 0) \/ (~bAddChild /\ N.parent = 0) THEN N
  ELSE
  LET par == IF bAddChild THEN N.main ELSE N.parent
      L == x_LocateNew(N.pos, N.doc, par, IF bAddChild THEN N.child ELSE N.main, bInsert)
      emptyParent == "EMPTY" \in N.pos[par].bits
      off == L.nOffset + (IF emptyParent THEN Len(x_EOL) ELSE 0)
      tmp == N.free
      st == x_ParseElem([N.pos EXCEPT ![tmp] = [ClearedPos EXCEPT !.level = N.pos[par].level + 1]],
                        tmp + 1, tmp, sd)
      P1 == [st.pos EXCEPT ![tmp] = SetFlags(@, {"DELETED"})]
      i == st.result
  IN IF i <= 0
     THEN [N EXCEPT !.pos = [P1 EXCEPT ![tmp].next = N.deleted], !.free = tmp + 1,
                    !.deleted = tmp]
     ELSE
     LET e == P1[i]
         adj == off - e.nStart
         P2 == x_LinkElem(x_Adjust([P1 EXCEPT ![i].nStart = off], i, adj, FALSE),
                          par, L.iPosRel, i)
         P3 == SubDocRootFlags([P2 EXCEPT ![tmp].next = N.deleted], i)
         ptag == x_GetTagName(P3, N.doc, par)
         body == SubSeq(sd, e.nStart + 1, e.nStart + e.nLength) \o x_EOL
         ins == IF emptyParent THEN <<">">> \o x_EOL \o body \o <<"<", "/">> \o ptag ELSE body
         at == IF emptyParent THEN StartContent(P3[par]) - 2 ELSE off
         rep == IF emptyParent THEN 1 ELSE 0
         P4 == IF emptyParent
               THEN [P3 EXCEPT ![par].stl = @ - 1, ![par].etl = @ + 1 + Len(ptag),
                               ![par].bits = Toggle(@, "EMPTY")]
               ELSE P3
         N1 == [N EXCEPT !.pos = P4, !.free = st.free, !.deleted = tmp]
     IN IF DocChangeThrows(N.doc, at) THEN [N1 EXCEPT !.thrown = TRUE]
        ELSE Then([N1 EXCEPT !.doc = x_DocChange(N.doc, at, rep, ins),
                             !.pos = x_Adjust(P4, i, Len(ins) - rep, TRUE)], LAMBDA N2 :
               IF bAddChild THEN x_SetPos(N2, N.parent, par, i) ELSE x_SetPos(N2, N.parent, i, 0))

\* x_RemoveElem(iPos): cut the element and the whitespace up to the next tag,
\* adjust, unlink.  Callers never pass 0.  Returns the object and the new position.
x_RemoveElem(N, i) ==
  LET e == N.pos[i]
      nLen == UpToNextTag(N.doc, StartAfter(e)) - e.nStart
  IN IF DocChangeThrows(N.doc, e.nStart) THEN [n |-> [N EXCEPT !.thrown = TRUE], prev |-> 0]
     ELSE Then(x_UnlinkElem(x_Adjust(N.pos, i, -nLen, TRUE), N.deleted, i), LAMBDA u :
            [n |-> [N EXCEPT !.doc = x_DocChange(N.doc, e.nStart, nLen, <<>>),
                             !.pos = u.pos, !.deleted = u.deleted],
             prev |-> u.prev])

\* x_FindElem(iPosParent, iPos, szPath): the next sibling (or first child),
\* or the next one whose tag name is szPath (<<>> for NULL or "").
RECURSIVE MatchSibling(_, _, _, _)
MatchSibling(P, d, i, path) ==
    IF i = 0 THEN 0
    ELSE IF TagAt(d, P[i].nStart + 1) = path THEN i
    ELSE MatchSibling(P, d, P[i].next, path)

x_FindElem(P, d, par, i, path) ==
    LET i1 == IF i # 0 THEN P[i].next ELSE P[par].child
    IN IF path = <<>> THEN i1 ELSE MatchSibling(P, d, i1, path)

(***************************************************************************)
(* The public calls.  m_nNodeType is MNT_ELEMENT exactly when m_iPos # 0   *)
(* (x_SetPos is its only writer), so "m_iPos && m_nNodeType ==            *)
(* MNT_ELEMENT" is N.main # 0.  m_aPos.GetSize() is never 0 after the      *)
(* constructor.                                                            *)
(***************************************************************************)
FindElem(N, name) ==
    LET i == x_FindElem(N.pos, N.doc, N.parent, N.main, name)
    IN IF i # 0 THEN x_SetPos(N, N.pos[i].parent, i, 0) ELSE N

FindChildElem(N, name) ==
    LET N1 == IF N.main = 0 THEN FindElem(N, <<>>) ELSE N
        c == x_FindElem(N1.pos, N1.doc, N1.main, N1.child, name)
    IN IF c # 0
       THEN LET i == N1.pos[c].parent IN x_SetPos(N1, N1.pos[i].parent, i, c)
       ELSE N1

IntoElem(N) == IF N.main # 0 THEN x_SetPos(N, N.main, N.child, 0) ELSE N

OutOfElem(N) ==
    IF N.parent # 0 THEN x_SetPos(N, N.pos[N.parent].parent, N.parent, N.main) ELSE N

RemoveElem(N) ==
    IF N.main # 0
    THEN Then(x_RemoveElem(N, N.main), LAMBDA r :
           IF r.n.thrown THEN r.n ELSE x_SetPos(r.n, N.parent, r.prev, 0))
    ELSE N

RemoveChildElem(N) ==
    IF N.child # 0
    THEN Then(x_RemoveElem(N, N.child), LAMBDA r :
           IF r.n.thrown THEN r.n ELSE x_SetPos(r.n, N.parent, N.main, r.prev))
    ELSE N

(***************************************************************************)
(* SavePos / RestorePos.  m_mapSavedPos is a hash table of SavedPos        *)
(* entries keyed by name; a name maps to the last position saved under it, *)
(* so it is kept as a function from names to [iPos, kind].  The kind is   *)
(* SPM_CHILD, SPM_MAIN, or neither (the parent position).                 *)
(***************************************************************************)
Unsaved == [iPos |-> 0, kind |-> "UNUSED"]

SavePos(N, nm) ==
    [N EXCEPT !.saved[nm] = CASE N.child # 0 -> [iPos |-> N.child, kind |-> "CHILD"]
                              [] N.main # 0 -> [iPos |-> N.main, kind |-> "MAIN"]
                              [] OTHER -> [iPos |-> N.parent, kind |-> "PARENT"]]

RestorePos(N, nm) ==
    LET sp == N.saved[nm]
        P == N.pos
        i == sp.iPos
    IN CASE sp.kind = "CHILD" -> x_SetPos(N, P[P[i].parent].parent, P[i].parent, i)
         [] sp.kind = "MAIN" -> x_SetPos(N, P[i].parent, i, 0)
         [] sp.kind = "PARENT" -> x_SetPos(N, i, 0, 0)
         [] OTHER -> N

\* SetDoc(szDoc): replace the text and x_ParseDoc it; the cursor is reset,
\* the saved positions dropped and the deleted list emptied.
SetDoc(N, d) ==
    Then(x_ParseDoc(N.pos, d), LAMBDA r :
        [N EXCEPT !.doc = d, !.pos = r.pos, !.free = r.free, !.deleted = 0,
                  !.parent = 0, !.main = 0, !.child = 0,
                  !.saved = [nm \in PosNames |-> Unsaved]])

(***************************************************************************)
(* The state.  The slots of m_aPos come from new char[] and are never read *)
(* before they are written, so they start cleared.                        *)
(***************************************************************************)
VARIABLES doc, aPos, iPosFree, iPosDeleted, iPosParent, iPos, iPosChild, saved, thrown
vars == <<doc, aPos, iPosFree, iPosDeleted, iPosParent, iPos, iPosChild, saved, thrown>>

Self == [doc |-> doc, pos |-> aPos, free |-> iPosFree, deleted |-> iPosDeleted,
         parent |-> iPosParent, main |-> iPos, child |-> iPosChild, saved |-> saved,
         thrown |-> thrown]

Become(N) ==
    /\ doc' = N.doc /\ aPos' = N.pos /\ iPosFree' = N.free /\ iPosDeleted' = N.deleted
    /\ iPosParent' = N.parent /\ iPos' = N.main /\ iPosChild' = N.child
    /\ saved' = N.saved /\ thrown' = N.thrown

Slots == 0..MaxPos

(***************************************************************************)
(* History variables, not program state: per slot, the value the client   *)
(* last gave each attribute (SetAttrib) and the content (SetData) since   *)
(* the last parse, or NoValue.  Content is forgotten once the element has *)
(* a child element: GetData is "" then, and removing the child leaves the *)
(* whitespace that came with it.                                          *)
(***************************************************************************)
VARIABLES setAttribs, setData
NoValue == "none"
NoAttribs == [k \in Slots |-> [a \in AttribNames |-> NoValue]]
NoData == [k \in Slots |-> NoValue]
History(attribs, data) ==
    /\ setAttribs' = attribs
    /\ setData' = [k \in Slots |-> IF aPos'[k].child # 0 THEN NoValue ELSE data[k]]
Unrecorded == History(setAttribs, setData)

\* CMarkupSTL(): SetDoc(NULL).
Init ==
    LET N == SetDoc([doc |-> <<>>, pos |-> [k \in Slots |-> ClearedPos], free |-> 1,
                   deleted |-> 0, parent |-> 0, main |-> 0, child |-> 0,
                   saved |-> [nm \in PosNames |-> Unsaved], thrown |-> FALSE], <<>>)
    IN /\ doc = N.doc /\ aPos = N.pos /\ iPosFree = N.free /\ iPosDeleted = N.deleted
       /\ iPosParent = N.parent /\ iPos = N.main /\ iPosChild = N.child
       /\ saved = N.saved /\ thrown = N.thrown
       /\ setAttribs = NoAttribs /\ setData = NoData

\* One action per entry point; the slot bound MaxPos limits x_GetFreePos.
\* AddElem stops one slot short of it, so that AddSubDoc still finds its
\* temporary parent slot and the subdocument's slots.
\* The document is not bounded by the code: InsertChildElem before text
\* content writes "<B/>" x_EOL, and RemoveChildElem takes the EOL away only
\* when a '<' follows it (x_RemoveElem), so insert/remove cycles grow the
\* text.  MaxDoc stops the calls that lengthen it.
\* The slots reachable from slot i through child and next links.
RECURSIVE Chain(_, _, _)
Chain(P, j, fuel) == IF j = 0 \/ fuel <= 0 THEN {} ELSE {j} \cup Chain(P, P[j].next, fuel - 1)
RECURSIVE Reach(_, _, _)
Reach(P, i, fuel) ==
    IF fuel <= 0 THEN {}
    ELSE {i} \cup UNION {Reach(P, k, fuel - 1) : k \in Chain(P, P[i].child, MaxPos)}
\* Some saved position names element i or one of its descendants.
SavedWithin(i) == \E nm \in PosNames : saved[nm].iPos \in Reach(aPos, i, MaxPos + 1)

\* A call the client makes, on an object that has not thrown.
Call(c) == ~thrown /\ c \in Calls

DoAddElem(name, value, bInsert, bAddChild) ==
    /\ Call("AddElem")
    /\ iPosFree < MaxPos
    /\ Len(doc) <= MaxDoc
    /\ Become(x_AddElem(Self, name, value, bInsert, bAddChild))
    /\ Unrecorded
DoSetData(child, value) ==
    /\ Call("SetData")
    /\ Len(doc) <= MaxDoc
    /\ LET i == IF child THEN iPosChild ELSE iPos
       IN /\ Become(x_SetData(Self, i, value))
          /\ History(setAttribs, IF i # 0 /\ aPos[i].child = 0
                                 THEN [setData EXCEPT ![i] = value] ELSE setData)
DoSetAttrib(child, attrib, value) ==
    /\ Call("SetAttrib")
    /\ Len(doc) <= MaxDoc
    /\ LET i == IF child THEN iPosChild ELSE iPos
       IN /\ Become(x_SetAttrib(Self, i, attrib, value))
          /\ History(IF i # 0 /\ iPos # 0 THEN [setAttribs EXCEPT ![i][attrib] = value]
                     ELSE setAttribs, setData)
\* The slots a subdocument's elements take, for the bound MaxPos.
StartTags(sd) == Cardinality({k \in 1..Len(sd) - 1 : sd[k] = "<" /\ sd[k + 1] \in Letters})
DoAddSubDoc(sd, bInsert, bAddChild) ==
    /\ Call("AddSubDoc")
    /\ iPosFree + StartTags(sd) <= MaxPos
    /\ Len(doc) <= MaxDoc
    /\ Become(x_AddSubDoc(Self, sd, bInsert, bAddChild))
    /\ Unrecorded
DoRemoveElem ==
    /\ Call("RemoveElem")
    /\ RemovesSavedElems \/ ~SavedWithin(iPos)
    /\ Become(RemoveElem(Self))
    /\ Unrecorded
DoRemoveChildElem ==
    /\ Call("RemoveChildElem")
    /\ RemovesSavedElems \/ ~SavedWithin(iPosChild)
    /\ Become(RemoveChildElem(Self))
    /\ Unrecorded
DoFindElem(name) == Call("FindElem") /\ Become(FindElem(Self, name)) /\ Unrecorded
DoFindChildElem(name) == Call("FindChildElem") /\ Become(FindChildElem(Self, name)) /\ Unrecorded
DoIntoElem == Call("IntoElem") /\ Become(IntoElem(Self)) /\ Unrecorded
DoOutOfElem == Call("OutOfElem") /\ Become(OutOfElem(Self)) /\ Unrecorded
DoResetPos == Call("ResetPos") /\ Become(x_SetPos(Self, 0, 0, 0)) /\ Unrecorded
DoResetMainPos == Call("ResetPos") /\ Become(x_SetPos(Self, iPosParent, 0, 0)) /\ Unrecorded
DoResetChildPos == Call("ResetPos") /\ Become(x_SetPos(Self, iPosParent, iPos, 0)) /\ Unrecorded
DoSavePos(nm) == Call("SavePos") /\ Become(SavePos(Self, nm)) /\ Unrecorded
DoRestorePos(nm) == Call("RestorePos") /\ Become(RestorePos(Self, nm)) /\ Unrecorded
DoSetDoc(d) == Call("SetDoc") /\ Become(SetDoc(Self, d)) /\ History(NoAttribs, NoData)
\* SetDoc(GetDoc()): parse the current text again.
DoReparse == Call("SetDoc") /\ Become(SetDoc(Self, doc)) /\ History(NoAttribs, NoData)

Next ==
    \/ \E nm \in Names, v \in Values, ins, ch \in BOOLEAN : DoAddElem(nm, v, ins, ch)
    \/ \E ch \in BOOLEAN, v \in Values : DoSetData(ch, v)
    \/ \E ch \in BOOLEAN, a \in AttribNames, v \in Values : DoSetAttrib(ch, a, v)
    \/ \E sd \in SubDocs, ins, ch \in BOOLEAN : DoAddSubDoc(sd, ins, ch)
    \/ DoRemoveElem
    \/ DoRemoveChildElem
    \/ \E nm \in Names \cup {<<>>} : DoFindElem(nm)
    \/ \E nm \in Names \cup {<<>>} : DoFindChildElem(nm)
    \/ DoIntoElem
    \/ DoOutOfElem
    \/ DoResetPos
    \/ DoResetMainPos
    \/ DoResetChildPos
    \/ \E nm \in PosNames : DoSavePos(nm)
    \/ \E nm \in PosNames : DoRestorePos(nm)
    \/ \E d \in Docs : DoSetDoc(d)
    \/ DoReparse

Spec == Init /\ [][Next]_<<vars, setAttribs, setData>>

-----------------------------------------------------------------------------
(***************************************************************************)
(* Properties.                                                             *)
(***************************************************************************)
ElemRec == [nStart : Nat, nLength : Nat, stl : Nat, etl : Nat,
            bits : SUBSET {"EMPTY", "DELETED", "FIRST"}, level : Nat,
            parent : Slots, child : Slots, next : Slots, prev : Slots]

\* Type invariant of the markup object.
TypeOK ==
    /\ \A k \in 1..Len(doc) : doc[k] \in Alphabet
    /\ aPos \in [Slots -> ElemRec]
    /\ iPosFree \in 1..MaxPos + 1
    /\ {iPosDeleted, iPosParent, iPos, iPosChild} \subseteq Slots
    /\ saved \in [PosNames -> [iPos : Slots, kind : {"UNUSED", "CHILD", "MAIN", "PARENT"}]]
    /\ thrown \in BOOLEAN
    /\ setAttribs \in [Slots -> [AttribNames -> Values \cup {NoValue}]]
    /\ setData \in [Slots -> Values \cup {NoValue}]

(***************************************************************************)
(* The element tree an index describes, independent of slot numbers: per   *)
(* element its offsets, tag lengths, flags and level, and its children in  *)
(* sibling order, each marked with whether its parent and prev links are  *)
(* those of a well-formed sibling ring (the first child's prev is the     *)
(* last child).  fuel bounds the walk should the links form a cycle.      *)
(***************************************************************************)
RECURSIVE Canon(_, _, _), Kids(_, _, _, _, _)
Canon(P, i, fuel) ==
    [start |-> P[i].nStart, length |-> P[i].nLength, stl |-> P[i].stl, etl |-> P[i].etl,
     bits |-> P[i].bits, level |-> P[i].level, kids |-> Kids(P, i, P[i].child, 0, fuel - 1)]
Kids(P, par, j, before, fuel) ==
    IF j = 0 \/ fuel <= 0 THEN <<>>
    ELSE << [node |-> Canon(P, j, fuel),
             linked |-> /\ P[j].parent = par
                        /\ before = 0 \/ P[j].prev = before
                        /\ P[j].next # 0 \/ P[P[par].child].prev = j] >>
         \o Kids(P, par, P[j].next, j, fuel - 1)

Tree(P) == Kids(P, 0, P[0].child, 0, MaxPos + 1)

(***************************************************************************)
(* The index that the editing calls maintain by patching (x_AddElem,       *)
(* x_SetData, x_RemoveElem through x_LocateNew, x_LinkElem, x_UnlinkElem   *)
(* and x_Adjust) is, after every call, exactly the index x_ParseDoc would  *)
(* build from the current text: same elements, offsets, tag lengths,      *)
(* flags, levels and sibling links.  The length of slot 0 is left out: no *)
(* call reads it.                                                          *)
(***************************************************************************)
IndexMatchesDocument == Tree(aPos) = Tree(x_ParseDoc(aPos, doc).pos)

LiveSlots == Reach(aPos, 0, MaxPos + 1)

(***************************************************************************)
(* The state as far as any later call can tell.  A slot outside the tree   *)
(* (not reachable from slot 0) is read again only after x_GetFreePos hands *)
(* it out and x_AddElem, x_ParseElem or x_AddSubDoc overwrite its fields,  *)
(* or by RestorePos of a removed element, which RemovesSavedElems = FALSE *)
(* rules out; m_iPosDeleted is only ever pushed on.  Two states that       *)
(* differ there behave alike, so a run may use this as its VIEW.          *)
(***************************************************************************)
Observable ==
    LET live == LiveSlots
    IN <<doc, [k \in Slots |-> IF k \in live THEN aPos[k] ELSE ClearedPos],
         iPosFree, iPosParent, iPos, iPosChild, saved, thrown,
         [k \in live |-> setAttribs[k]], [k \in live |-> setData[k]]>>

(***************************************************************************)
(* An attribute value the client set with SetAttrib (x_SetAttrib) is what *)
(* GetAttrib (x_GetAttrib) returns once the cursor is on that element,     *)
(* after any sequence of later calls that keep the element: edits before  *)
(* it shift its start tag (x_Adjust), and SetData, AddElem and AddSubDoc  *)
(* rewrite the "/>" of an empty element right after its attributes.      *)
(***************************************************************************)
AttribReadsBack ==
    \A i \in LiveSlots \ {0}, a \in AttribNames :
        setAttribs[i][a] # NoValue =>
            x_GetAttrib([Self EXCEPT !.main = i], i, a) = setAttribs[i][a]

(***************************************************************************)
(* The content the client set with SetData (x_SetData) is what GetData     *)
(* (x_GetData) returns for that element while it has no child element,   *)
(* whatever other elements are added, removed or edited meanwhile and     *)
(* whatever attributes it gains (x_SetAttrib moves its content).          *)
(***************************************************************************)
DataReadsBack ==
    \A i \in LiveSlots \ {0} :
        setData[i] # NoValue => x_GetData(Self, i) = setData[i]

=============================================================================
