----------------------------- MODULE YamlWrapper -----------------------------
(***************************************************************************)
(* The configuration document of src/common/cxx/config_cxx: YamlWrapper    *)
(* turns the event stream of libyaml into a tree of YamlNodes and answers  *)
(* path lookups on it.  libyaml is the external collaborator: its output,  *)
(* a sequence of events, is the input here.  Everything is an operator:    *)
(* parse is a fold of one state machine over the events, getValueImpl a    *)
(* walk down the tree, the constructor the choice between the file and the *)
(* built-in document.                                                      *)
(*                                                                         *)
(* The tree is the sequence of nodes in creation order; node 1 is root_    *)
(* (a YamlDoc, its own parent) and a node's children_ are the nodes whose  *)
(* parent it is, in creation order (emplace_back).                         *)
(***************************************************************************)
EXTENDS Integers, Sequences

NOT_FOUND == "Not Found"

\* The separator character of an access path, as a path token.
Sep == "/"

\* libyaml's event: its type and, for a scalar, its value.
Ev(type, value) == [type |-> type, value |-> value]

\* YamlDoc: type DOC, parent itself, value "YamlDocValue".
DocNode == [type |-> "DOC", key |-> "", value |-> "YamlDocValue", parent |-> 1]

\* The value_ YamlMapping and YamlSequence give their nodes.
ClassValue == [MAPPING |-> "YamlMappingValue", SEQUENCE |-> "YamlSequenceValue"]

\* std::to_string of a child count (documents here have fewer than 10).
ToDecimal(n) == <<"0", "1", "2", "3", "4", "5", "6", "7", "8", "9">>[n + 1]

Kids(nodes, i) ==
  SelectSeq([j \in 1..Len(nodes) |-> j], LAMBDA j : j # 1 /\ nodes[j].parent = i)

-----------------------------------------------------------------------------
(* YamlWrapper::parse.  The parser state is the tree, the current node,    *)
(* prevWasKey, keyName, and whether parsing has failed.                    *)

\* The name a new child of the current node gets: its index under a
\* sequence, the stored key after a key, else "".
NewKey(st) ==
  IF ~st.prevWasKey /\ st.nodes[st.current].type = "SEQUENCE"
  THEN ToDecimal(Len(Kids(st.nodes, st.current)))
  ELSE IF ~st.prevWasKey THEN "" ELSE st.keyName

AddChild(st, type, value) ==
  [st EXCEPT !.nodes = Append(@, [type |-> type, key |-> NewKey(st),
                                  value |-> value, parent |-> st.current]),
             !.prevWasKey = FALSE]

\* YAML_SEQUENCE_START_EVENT / YAML_MAPPING_START_EVENT: add the block and
\* descend into it.
BlockStart(st, type) ==
  LET s2 == AddChild(st, type, ClassValue[type])
  IN [s2 EXCEPT !.current = Len(s2.nodes)]

\* YAML_SEQUENCE_END_EVENT / YAML_MAPPING_END_EVENT: back to the parent.
BlockEnd(st) == [st EXCEPT !.current = st.nodes[st.current].parent]

\* Fault variant: the scalar case without its test for a sequence, so a
\* sequence item is taken for a key.
ScalarEventNoSeqCheck(st, v) ==
  IF ~st.prevWasKey
  THEN [st EXCEPT !.prevWasKey = TRUE, !.keyName = v]
  ELSE AddChild(st, "VALUE", v)

\* YAML_SCALAR_EVENT: a sequence item, a key, or the value of the key.
ScalarEvent(st, v) ==
  IF ~st.prevWasKey /\ st.nodes[st.current].type # "SEQUENCE"
  THEN [st EXCEPT !.prevWasKey = TRUE, !.keyName = v]
  ELSE AddChild(st, "VALUE", v)

\* Every other event (stream, document, alias) is ignored.
ParseStep(st, e) ==
  CASE e.type = "SEQUENCE_START" -> BlockStart(st, "SEQUENCE")
    [] e.type = "MAPPING_START"  -> BlockStart(st, "MAPPING")
    [] e.type \in {"SEQUENCE_END", "MAPPING_END"} -> BlockEnd(st)
    [] e.type = "SCALAR"         -> ScalarEvent(st, e.value)
    [] OTHER                     -> st

\* Fault variant: a parser error returns false without onErrorCallBack_.
RECURSIVE ParseFromNoRaise(_, _)
ParseFromNoRaise(st, evs) ==
  IF Head(evs).type = "ERROR"
  THEN [st EXCEPT !.ok = FALSE]
  ELSE IF Head(evs).type = "STREAM_END"
       THEN ParseStep(st, Head(evs))
       ELSE ParseFromNoRaise(ParseStep(st, Head(evs)), Tail(evs))

\* The do-while loop: stop after STREAM_END.  A parser error calls
\* onErrorCallBack_ with error 1 (raised) and returns false, leaving in the
\* tree what was built so far.
RECURSIVE ParseFrom(_, _)
ParseFrom(st, evs) ==
  IF Head(evs).type = "ERROR"
  THEN [st EXCEPT !.ok = FALSE, !.raised = TRUE]
  ELSE IF Head(evs).type = "STREAM_END"
       THEN ParseStep(st, Head(evs))
       ELSE ParseFrom(ParseStep(st, Head(evs)), Tail(evs))

\* parse() starts at root_ of the tree the wrapper already holds.
Parse(nodes, evs) ==
  ParseFrom([nodes |-> nodes, current |-> 1, prevWasKey |-> FALSE,
             keyName |-> "", ok |-> TRUE, raised |-> FALSE], evs)

-----------------------------------------------------------------------------
(* YamlWrapper::getValueImpl.  An access path is a sequence of tokens,     *)
(* each Sep or a name, with no two names adjacent.                         *)

\* std::getline with the separator: the pieces between separators, where
\* a separator at the end yields no empty last piece.
RECURSIVE Pieces(_)
Pieces(t) ==
  IF t = <<>> THEN <<"">>
  ELSE IF Head(t) = Sep THEN <<"">> \o Pieces(Tail(t))
  ELSE <<Head(t)>> \o Tail(Pieces(Tail(t)))

PathElements(t) ==
  LET s == Pieces(t)
  IN IF s[Len(s)] = "" THEN SubSeq(s, 1, Len(s) - 1) ELSE s

\* Follow the first child whose key matches, never backtracking.
RECURSIVE Find(_, _, _)
Find(nodes, cur, elems) ==
  LET hits == SelectSeq(Kids(nodes, cur), LAMBDA j : nodes[j].key = Head(elems))
  IN IF hits = <<>> THEN NOT_FOUND
     ELSE IF Len(elems) = 1 THEN nodes[hits[1]].value
     ELSE Find(nodes, hits[1], Tail(elems))

GetValueImpl(nodes, path) ==
  IF path = <<>> THEN NOT_FOUND ELSE Find(nodes, 1, PathElements(path))

\* getValue<std::string>: found unless the result is NOT_FOUND.
GetValueString(nodes, path) ==
  LET r == GetValueImpl(nodes, path) IN <<r # NOT_FOUND, r>>

-----------------------------------------------------------------------------
(* The integer getters: strtol (signed T) or strtoul (unsigned T) with     *)
(* base 0 reads the text as a C integer constant, the long is converted to *)
(* the w-bit T, and the value counts as found when the number ends the     *)
(* text (id points at the terminator).  Texts here have at most four       *)
(* characters, so strtol's ERANGE saturation at LONG_MAX never applies.    *)

DigitVal ==
  [c \in {"0","1","2","3","4","5","6","7","8","9","a","b","c","d","e","f","A","B","C","D","E","F"} |->
     CASE c \in {"a","A"} -> 10 [] c \in {"b","B"} -> 11 [] c \in {"c","C"} -> 12
       [] c \in {"d","D"} -> 13 [] c \in {"e","E"} -> 14 [] c \in {"f","F"} -> 15
       [] OTHER -> CHOOSE i \in 0..9 : ToDecimal(i) = c]

InBase(c, b) == c \in DOMAIN DigitVal /\ DigitVal[c] < b

\* isspace in the C locale (\v aside).
IsSpace(c) == c \in {" ", "\t", "\n", "\r", "\f"}

\* The number of leading white-space characters of t, and of leading
\* digits of base b.
RECURSIVE SpaceSpan(_)
SpaceSpan(t) == IF t # "" /\ IsSpace(Head(t)) THEN 1 + SpaceSpan(Tail(t)) ELSE 0
RECURSIVE DigitSpan(_, _)
DigitSpan(t, b) == IF t # "" /\ InBase(Head(t), b) THEN 1 + DigitSpan(Tail(t), b) ELSE 0

RECURSIVE Horner(_, _, _)
Horner(v, d, b) == IF d = "" THEN v ELSE Horner(v * b + DigitVal[Head(d)], Tail(d), b)

\* Fault variant: strtol(t, &id, 10), so no octal and no hex.
StrToNumBase10(t) ==
  LET ws   == SpaceSpan(t)
      rest == SubSeq(t, ws + 1, Len(t))
      sg   == IF rest # "" /\ Head(rest) \in {"+", "-"} THEN 1 ELSE 0
      body == SubSeq(rest, sg + 1, Len(rest))
      digs == SubSeq(body, 1, DigitSpan(body, 10))
  IN IF digs = "" THEN [end |-> 0, val |-> 0]
     ELSE [end |-> ws + sg + Len(digs),
           val |-> IF Head(rest) = "-" THEN -Horner(0, digs, 10) ELSE Horner(0, digs, 10)]

\* strtol/strtoul(t, &id, 0): end is the number of characters consumed (0
\* when there is no number, id = t), val the number read.  "0x" followed
\* by no hex digit reads the "0" alone; a leading 0 selects octal.
StrToNum(t) ==
  LET ws   == SpaceSpan(t)
      rest == SubSeq(t, ws + 1, Len(t))
      sg   == IF rest # "" /\ Head(rest) \in {"+", "-"} THEN 1 ELSE 0
      body == SubSeq(rest, sg + 1, Len(rest))
      hex  == Len(body) >= 3 /\ SubSeq(body, 1, 1) = "0" /\ SubSeq(body, 2, 2) \in {"x", "X"}
                /\ InBase(SubSeq(body, 3, 3), 16)
      base == IF hex THEN 16 ELSE IF body # "" /\ Head(body) = "0" THEN 8 ELSE 10
      skip == IF hex THEN 2 ELSE 0
      from == SubSeq(body, skip + 1, Len(body))
      digs == SubSeq(from, 1, DigitSpan(from, base))
      mag  == Horner(0, digs, base)
  IN IF digs = "" THEN [end |-> 0, val |-> 0]
     ELSE [end |-> ws + sg + skip + Len(digs),
           val |-> IF Head(rest) = "-" THEN -mag ELSE mag]

\* Conversion of the long to a w-bit T.  TLC's integers are 32-bit; for an
\* int (w = 32) the values read here (below 2^15) are unchanged.
ToSigned(n, w) ==
  IF w >= 32 THEN n
  ELSE LET m == n % 2^w IN IF m >= 2^(w - 1) THEN m - 2^w ELSE m
ToUnsigned(n, w) == n % 2^w

StrToSigned(t, w) == LET r == StrToNum(t) IN <<r.end = Len(t), ToSigned(r.val, w)>>
StrToUnsigned(t, w) == LET r == StrToNum(t) IN <<r.end = Len(t), ToUnsigned(r.val, w)>>

GetValueSigned(nodes, path, w) == StrToSigned(GetValueImpl(nodes, path), w)
GetValueUnsigned(nodes, path, w) == StrToUnsigned(GetValueImpl(nodes, path), w)

-----------------------------------------------------------------------------
(* The constructor.  fileName = "" means no file; file = NoFile means      *)
(* fopen fails; staticDoc = <<>> is the empty built-in document.           *)
(* onErrorCallBack_ never returns (Config's and the applications' exit), *)
(* so the first error 1 ends the construction: one raised by the file's   *)
(* parse, the unread file with no built-in document (line 24), or the     *)
(* built-in document failing (line 33).  Otherwise a file that was not    *)
(* read falls back to the built-in document, parsed into the same root_.  *)
NoFile == <<>>

Construct(fileName, file, staticDoc) ==
  LET f == IF fileName # "" /\ file # NoFile
           THEN Parse(<<DocNode>>, file)
           ELSE [nodes |-> <<DocNode>>, ok |-> FALSE, raised |-> FALSE]
      s == Parse(f.nodes, staticDoc)
  IN CASE f.raised         -> [nodes |-> f.nodes, err |-> 1]
       [] f.ok             -> [nodes |-> f.nodes, err |-> 0]
       [] staticDoc = <<>> -> [nodes |-> f.nodes, err |-> 1]
       [] OTHER            -> [nodes |-> s.nodes, err |-> IF s.ok THEN 0 ELSE 1]

-----------------------------------------------------------------------------
(* The configuration's one reader outside the core: Logger::Logger names   *)
(* its P7 client from "logging/name", defaulting to Config::LOGGER_NAME.   *)
\* configLoggingName: the pair getValue<std::string>("logging/name") returns.
LoggerNameLookup(nodes) == GetValueString(nodes, <<"logging", Sep, "name">>)

LoggerName(nodes) ==
  LET c == LoggerNameLookup(nodes)
  IN IF c[1] THEN c[2] ELSE "TEST_ENGINE"
==============================================================================
