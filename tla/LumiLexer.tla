------------------------------ MODULE LumiLexer ------------------------------
(***************************************************************************)
(* The lexer.  A text is a sequence of pieces: a run of letters and        *)
(* underscores, a run of digits, or any other single character.            *)
(***************************************************************************)
EXTENDS LumiSyntax, SequencesExt

CONSTANTS
  Words,       \* the runs of letters and underscores that texts are made of
  Numerals,    \* the runs of digits
  NumberOf(_)  \* strtod, which reads as much of the text it is given as it can

Keywords ==
  {"if", "let", "var", "type", "else", "key", "in", "for", "init", "global", "render", "color", "update"}
Doubled == {"..", "==", "!=", "<=", ">=", "&&", "||"}
Signs == {"(", ")", "{", "}", "[", "]", ",", "+", "-", "*", "/", "%", "=", "!", "<", ">"}

ASSUME LexerAssumption == Keywords \subseteq Words /\ Words \cap Numerals = {}

EndOfText == "end of text"   \* stands for the NUL character
PieceAt(text, i) == IF i <= Len(text) THEN text[i] ELSE EndOfText

Width(pieces) == FoldLeft(LAMBDA n, piece : n + Len(piece), 0, pieces)
Spelling(pieces) == FoldLeft(LAMBDA s, piece : s \o piece, "", pieces)

\* How far the lexer has read: the next piece, and its line and column.
LexerInit == [cursor |-> 1, line |-> 1, column |-> 1]

-----------------------------------------------------------------------------
(* lumi_lexer_next *)

\* What continues a run that has reached piece i.
Continues(text, i, kind) ==
  CASE kind = "blank" -> PieceAt(text, i) \in {" ", "\t", "\r"}
    [] kind = "identifier" -> PieceAt(text, i) \in Words \cup Numerals
    [] kind = "number" -> \/ PieceAt(text, i) \in Numerals
                          \/ PieceAt(text, i) = "." /\ PieceAt(text, i + 1) # "."

RECURSIVE RunEnd(_, _, _)
RunEnd(text, i, kind) == IF Continues(text, i, kind) THEN RunEnd(text, i + 1, kind) ELSE i

BeginsNumber(text, i) ==
  \/ PieceAt(text, i) \in Numerals
  \/ PieceAt(text, i) = "." /\ PieceAt(text, i + 1) \in Numerals

BeginsDoubled(text, i) == i < Len(text) /\ text[i] \o text[i + 1] \in Doubled

\* The piece after the token that begins at i.  The NUL is no piece.
TokenEnd(text, i) ==
  CASE i > Len(text) -> i
    [] PieceAt(text, i) \in Words -> RunEnd(text, i, "identifier")
    [] BeginsNumber(text, i) -> RunEnd(text, i + 1, "number")
    [] BeginsDoubled(text, i) -> i + 2
    [] OTHER -> i + 1

\* keyword_type: a token of a fixed spelling has that spelling as its type.
TokenType(text, i, spelling) ==
  CASE PieceAt(text, i) = EndOfText -> "eof"
    [] PieceAt(text, i) = "\n" -> "newline"
    [] spelling \in Keywords \cup Doubled \cup Signs -> spelling
    [] PieceAt(text, i) \in Words -> "identifier"
    [] BeginsNumber(text, i) -> "number"
    [] OTHER -> "invalid"

\* The lexer after the pieces up to end, the last of them a token of this type.
After_KeepsColumn(text, lexer, end, type) ==  \* mutant: a newline does not reset the column
  [cursor |-> end, line |-> lexer.line + (IF type = "newline" THEN 1 ELSE 0),
   column |-> lexer.column + Width(SubSeq(text, lexer.cursor, end - 1)) + (IF type = "eof" THEN 1 ELSE 0)]

After(text, lexer, end, type) ==
  IF type = "newline" THEN [cursor |-> end, line |-> lexer.line + 1, column |-> 1]
  ELSE [lexer EXCEPT !.cursor = end,
          !.column = @ + Width(SubSeq(text, lexer.cursor, end - 1)) + (IF type = "eof" THEN 1 ELSE 0)]

\* lumi_lexer_next: the token, and the lexer after it.  make_token counts back from
\* where the lexer is, which for a newline is already the next line.
LexerNext(text, lexer) ==
  LET start == RunEnd(text, lexer.cursor, "blank")
      end == TokenEnd(text, start)
      spelling == Spelling(SubSeq(text, start, end - 1))
      type == TokenType(text, start, spelling)
      after == After(text, lexer, end, type)
      number == IF type = "number" THEN NumberOf(SubSeq(text, start, Len(text))) ELSE Zero
  IN  [token |-> [type |-> type, start |-> start, spelling |-> spelling, number |-> number,
                  line |-> after.line, column |-> after.column - Len(spelling)],
       lexer |-> after]

RECURSIVE TokensFrom(_, _)
TokensFrom(text, lexer) ==
  LET next == LexerNext(text, lexer)
  IN  IF next.token.type = "eof" THEN <<next.token>> ELSE <<next.token>> \o TokensFrom(text, next.lexer)

Tokens(text) == TokensFrom(text, LexerInit)
=============================================================================
