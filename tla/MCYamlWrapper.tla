---------------------------- MODULE MCYamlWrapper ----------------------------
(***************************************************************************)
(* YamlWrapper checked against a reference.  A YAML document is a nested   *)
(* value (scalar, mapping, sequence); Stream gives the events libyaml      *)
(* emits for it, and RefLookup says what an access path addresses in it:   *)
(* the leading separator names the document, a key names a mapping entry  *)
(* (the first, for a repeated key), an index a sequence item, and a        *)
(* mapping or sequence answers with YamlWrapper's class value, as the test *)
(* yaml_wrapper_test.cpp expects.  Each state is one input: a document, an *)
(* access path, and for the configuration fallback the point where the     *)
(* file's parse fails.                                                     *)
(***************************************************************************)
EXTENDS YamlWrapper, SequencesExt

CONSTANTS
  DocSet,     \* the documents checked
  PathSet     \* the access paths checked

Sc(v) == [kind |-> "scalar", v |-> v]
Mp(es) == [kind |-> "map", es |-> es]   \* es: sequence of <<key, value>>
Sq(is) == [kind |-> "seq", es |-> is]

\* The events libyaml emits for a document.
RECURSIVE Emit(_)
Emit(d) ==
  CASE d.kind = "scalar" -> <<Ev("SCALAR", d.v)>>
    [] d.kind = "map" ->
         <<Ev("MAPPING_START", "")>>
           \o FlattenSeq([i \in DOMAIN d.es |-> <<Ev("SCALAR", d.es[i][1])>> \o Emit(d.es[i][2])])
           \o <<Ev("MAPPING_END", "")>>
    [] d.kind = "seq" ->
         <<Ev("SEQUENCE_START", "")>>
           \o FlattenSeq([i \in DOMAIN d.es |-> Emit(d.es[i])])
           \o <<Ev("SEQUENCE_END", "")>>

Stream(d) ==
  <<Ev("STREAM_START", ""), Ev("DOCUMENT_START", "")>> \o Emit(d)
    \o <<Ev("DOCUMENT_END", ""), Ev("STREAM_END", "")>>

RefValue(d) ==
  CASE d.kind = "scalar" -> d.v
    [] d.kind = "map" -> "YamlMappingValue"
    [] d.kind = "seq" -> "YamlSequenceValue"

RECURSIVE RefFind(_, _)
RefFind(d, elems) ==
  IF elems = <<>> THEN RefValue(d)
  ELSE CASE d.kind = "map" ->
              LET hits == SelectSeq(d.es, LAMBDA e : e[1] = Head(elems))
              IN IF hits = <<>> THEN NOT_FOUND ELSE RefFind(hits[1][2], Tail(elems))
         [] d.kind = "seq" /\ \E i \in DOMAIN d.es : ToDecimal(i - 1) = Head(elems) ->
              RefFind(d.es[CHOOSE i \in DOMAIN d.es : ToDecimal(i - 1) = Head(elems)], Tail(elems))
         [] OTHER -> NOT_FOUND

RefLookup(d, path) ==
  IF path = <<>> THEN NOT_FOUND
  ELSE LET el == PathElements(path)
       IN IF Head(el) = "" THEN RefFind(d, Tail(el)) ELSE NOT_FOUND

-----------------------------------------------------------------------------
(* Inputs.                                                                 *)

Keys == {"a", "0"}
Vals == {"x", "0"}
Inner ==
  {Sc(v) : v \in Vals} \cup {Mp(<<>>), Sq(<<>>)} \cup {Mp(<<<<k, Sc(v)>>>>) : k \in Keys, v \in Vals}
    \cup {Sq(<<Sc(v)>>) : v \in Vals}
\* Top-level mappings and sequences of up to two entries.
PlainDocs ==
  {Mp(es) : es \in BoundedSeq(Keys \X Inner, 2)} \cup {Sq(is) : is \in BoundedSeq(Inner, 2)}

\* Access paths of up to five tokens, names never adjacent.
PathsOver(names) ==
  {p \in BoundedSeq({Sep} \cup names, 5) :
     \A i \in 1..Len(p) - 1 : p[i] = Sep \/ p[i + 1] = Sep}
SmallPaths == PathsOver(Keys)

\* Config's built-in document (DEFAULT_CONFIG of config.hpp).
DefaultConfig ==
  Mp(<<<<"logging", Mp(<<<<"client", Mp(<<<<"Sink", Sc("Console")>>,
                                            <<"Format", Sc("fmt")>>,
                                            <<"Trc.Verb", Sc("2")>>,
                                            <<"Pool", Sc("32768")>>>>)>>>>)>>>>)
\* config.yml variants that set the sink.
ConfigFiles ==
  {Mp(<<<<"logging", Mp(<<<<"client", Mp(<<<<"Sink", Sc(v)>>>>)>>>>)>>>>) : v \in {"File", "Console"}}
ConfigPaths == PathsOver({"logging", "client", "Sink", "Format"})
\* Documents that name the logger, and the two ways to write its path.
NamedLoggerDocs == {Mp(<<<<"logging", Mp(<<<<"name", Sc(v)>>>>)>>>>) : v \in {"gw", "x"}}
NamePaths == {<<"logging", Sep, "name">>, <<Sep, "logging", Sep, "name">>}

\* Texts of up to four characters over the characters that tell the C
\* integer forms apart: octal and decimal digits, a hex digit, the hex
\* prefix, a sign and a space.
Alphabet == {"0", "1", "8", "a", "x", "-", " "}
RECURSIVE WordsUpTo(_)
WordsUpTo(k) ==
  IF k = 0 THEN {""} ELSE WordsUpTo(k - 1) \cup {w \o c : w \in WordsUpTo(k - 1), c \in Alphabet}
Texts == WordsUpTo(4)

\* Reference: the C integer constants among Texts and their values, built
\* from the value by repeated division (the opposite direction of
\* StrToNum): optional spaces and sign, then a decimal constant, "0"
\* followed by octal digits, or "0x" followed by hex digits, leading
\* zeros allowed where the form allows them.
DigitChar(n) == SubSeq("0123456789abcdef", n + 1, n + 1)
RECURSIVE DigitsOf(_, _)
DigitsOf(n, b) == IF n < b THEN DigitChar(n) ELSE DigitsOf(n \div b, b) \o DigitChar(n % b)
Zeros == {"", "0", "00", "000"}
Unsigned ==
  {<<DigitsOf(n, 10), n>> : n \in 1..9999}
    \cup {<<"0" \o z \o DigitsOf(n, 8), n>> : n \in 1..511, z \in Zeros}
    \cup {<<"0" \o z, 0>> : z \in Zeros}
    \cup {<<"0x" \o z \o DigitsOf(n, 16), n>> : n \in 0..255, z \in Zeros}
Literal ==
  {l \in {<<sp \o sg \o u[1], IF sg = "-" THEN -u[2] ELSE u[2]>> :
             u \in Unsigned, sg \in {"", "-"}, sp \in {"", " ", "  ", "   "}} : l[1] \in Texts}
LiteralValue == [t \in {l[1] : l \in Literal} |-> CHOOSE v \in {l[2] : l \in Literal} : <<t, v>> \in Literal]

\* A w-bit two's-complement or unsigned value congruent to n.
RefSigned(n, w) == CHOOSE m \in -(2^(w - 1))..(2^(w - 1) - 1) : (n - m) % 2^w = 0
RefUnsigned(n, w) == CHOOSE m \in 0..(2^w - 1) : (n - m) % 2^w = 0

\* The document that sets the logger's pool to a text.
PoolDoc(t) == Mp(<<<<"logging", Mp(<<<<"client", Mp(<<<<"Pool", Sc(t)>>>>)>>>>)>>>>)
PoolDocs == {PoolDoc(t) : t \in Texts}
PoolPath == <<Sep, "logging", Sep, "client", Sep, "Pool">>
\* The lookup run's inputs: the small documents and paths, and every pool
\* text with the path that reads it.
LookupDocs == PlainDocs \cup PoolDocs \cup ConfigFiles
LookupPaths == SmallPaths \cup {PoolPath}

VARIABLES doc, path, cut
vars == <<doc, path, cut>>

\* cut: the number of events libyaml delivers before an error when the
\* document is read as config.yml (Len + 1: no error).  A config.yml
\* variant fails at every point after STREAM_START.
Init ==
  /\ doc \in DocSet
  /\ path \in PathSet \cup (IF doc \in ConfigFiles THEN ConfigPaths ELSE {})
  /\ cut \in {Len(Stream(doc)) + 1} \cup (IF doc \in ConfigFiles THEN 1..Len(Stream(doc)) - 1 ELSE {})

Next == UNCHANGED vars
Spec == Init /\ [][Next]_vars

FileEvents ==
  IF cut > Len(Stream(doc)) THEN Stream(doc)
  ELSE SubSeq(Stream(doc), 1, cut) \o <<Ev("ERROR", "")>>

-----------------------------------------------------------------------------
(* Properties.                                                             *)

\* parse and getValueImpl together answer every access path as the
\* document says: parse's prevWasKey/keyName state
\* machine pairs every key with its value and names sequence items by
\* index, and the walk follows the path from the document node.
LookupMatchesDocument ==
  GetValueImpl(Parse(<<DocNode>>, Stream(doc)).nodes, path) = RefLookup(doc, path)

\* Config's document (config.yml, else DEFAULT_CONFIG) answers every
\* access path as config.yml says, or its construction ends in error 1: a
\* config.yml that libyaml rejects part-way never leaves its partial tree,
\* alone or with the built-in document parsed behind it, as the
\* configuration the logger and the core read.
ConfigNeverPartial ==
  LET w == Construct("config.yml", FileEvents, Stream(DefaultConfig))
  IN w.err = 0 => GetValueImpl(w.nodes, path) = RefLookup(doc, path)

\* A logger name set in the configuration document is the name
\* Logger::Logger gives its P7 client.
LoggerNameConfigurable ==
  LoggerName(Construct("config.yml", Stream(doc), Stream(DefaultConfig)).nodes)
    = RefLookup(doc, <<Sep, "logging", Sep, "name">>)

\* getValue<int>, <char> and <unsigned char> (strtol / strtoul with base 0,
\* the found flag from the end pointer, the conversion to T) at any path
\* accept exactly the texts that are C integer constants, with their value
\* reduced to T's width, and the empty text, where strtol consumes nothing
\* and the end pointer already points at the terminator; "Not Found" and
\* the class values of blocks are never numbers.  Octal after a leading 0,
\* "0x" without hex digits, a sign without digits and trailing characters
\* are where it can go wrong.
IntConversionMatchesC ==
  LET nodes == Parse(<<DocNode>>, Stream(doc)).nodes
      t     == RefLookup(doc, path)
      lit   == t \in DOMAIN LiteralValue
  IN /\ GetValueSigned(nodes, path, 32)[1] = (lit \/ t = "")
     /\ GetValueUnsigned(nodes, path, 8)[1] = (lit \/ t = "")
     /\ lit => /\ GetValueSigned(nodes, path, 32)[2] = LiteralValue[t]
               /\ GetValueSigned(nodes, path, 8)[2] = RefSigned(LiteralValue[t], 8)
               /\ GetValueUnsigned(nodes, path, 8)[2] = RefUnsigned(LiteralValue[t], 8)
==============================================================================
