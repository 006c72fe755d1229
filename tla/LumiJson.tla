------------------------------ MODULE LumiJson ------------------------------
(***************************************************************************)
(* The JSON reading of the language server.  tokenize_json turns a message *)
(* into a flat sequence of tokens, each with the index of the object or    *)
(* array it stands in; keys and values alike are tokens.  Characters are   *)
(* not modelled: a token carries the value its text stands for.            *)
(***************************************************************************)
EXTENDS Naturals, Sequences, FiniteSetsExt

CONSTANTS
  Empty,    \* the string ""
  Garbled   \* a string with an escape sequence that the server does not know

Token(parent, type, value) == [parent |-> parent, type |-> type, value |-> value]
Text(parent, value) == Token(parent, "string", value)
Number(parent, value) == Token(parent, "primitive", value)
Field(parent, key) == Text(parent, key)

NoString == "NULL"
NoIndex == 0   \* -1 in C, where the first token has index 0

\* json_object_get: the token behind the first string equal to the key in this object.
ObjectGet(tokens, object, key) ==
  LET get[o \in DOMAIN tokens] ==
        LET hits == {i \in o + 1 .. Len(tokens) - 1 : tokens[i] = Text(o, key)}
        IN  IF hits = {} THEN NoIndex ELSE Min(hits) + 1
  IN  get[object]

\* A lookup in what an earlier one found, as the handlers chain them.
Member(tokens, object, key) ==
  IF object = NoIndex THEN NoIndex ELSE ObjectGet(tokens, object, key)

\* json_array_first
ArrayFirst(tokens, array) ==
  LET first[a \in DOMAIN tokens] ==
        LET elements == {i \in a + 1 .. Len(tokens) : tokens[i].parent = a}
        IN  IF elements = {} THEN NoIndex ELSE Min(elements)
  IN  IF array = NoIndex THEN NoIndex ELSE first[array]

\* json_token_to_string: the buffer of an empty string is never allocated.
JsonString(token) ==
  IF token.type = "string" /\ token.value \notin {Empty, Garbled} THEN token.value ELSE NoString

StringAt(tokens, index) == IF index = NoIndex THEN NoString ELSE JsonString(tokens[index])

\* json_token_to_long
IsLong(token) == token.type = "primitive"
=============================================================================
