------------------------------ MODULE SqlScript ------------------------------
(***************************************************************************)
(* How a migration file becomes statements: split_sql cuts the text at its    *)
(* semicolons and has_sql_code drops what is only comments.  Both read the     *)
(* text with the same little lexer, which knows quotes, escapes in quotes, line *)
(* comments and block comments.                                             *)
(*                                                                         *)
(* A text is a sequence of symbols: the characters the lexer tells apart, and   *)
(* words, each of which stands for the rest of some code.                     *)
(***************************************************************************)
EXTENDS Integers, Sequences, FiniteSets, FiniteSetsExt, SequencesExt

Quotes == {"'", "\"", "backquote"}
Blanks == {" ", "\n"}
NoSymbol == ""      \* what follows the last symbol

\* Between two symbols: inside what the text is (an open quote stands for
\* itself), and whether the next symbol belongs to the last one.
Place(mode, pair) == [mode |-> mode, pair |-> pair]

\* Mutant of After: a quote after a backslash ends the literal.
AfterWithoutEscapes(mode, c, next) ==
  CASE mode = "line"  -> Place(IF c = "\n" THEN "code" ELSE "line", FALSE)
    [] mode = "block" -> IF c = "*" /\ next = "/" THEN Place("code", TRUE) ELSE Place("block", FALSE)
    [] mode \in Quotes -> Place(IF c = mode THEN "code" ELSE mode, FALSE)
    [] OTHER -> IF c \in Quotes THEN Place(c, FALSE)
                ELSE IF c = "-" /\ next = "-" THEN Place("line", TRUE)
                ELSE IF c = "/" /\ next = "*" THEN Place("block", TRUE)
                ELSE Place("code", FALSE)

\* The place after the symbol c, which `next` follows.
After(mode, c, next) ==
  CASE mode = "line"  -> Place(IF c = "\n" THEN "code" ELSE "line", FALSE)
    [] mode = "block" -> IF c = "*" /\ next = "/" THEN Place("code", TRUE) ELSE Place("block", FALSE)
    [] mode \in Quotes -> IF c = "\\" /\ next # NoSymbol THEN Place(mode, TRUE)
                          ELSE Place(IF c = mode THEN "code" ELSE mode, FALSE)
    [] OTHER -> IF c \in Quotes THEN Place(c, FALSE)
                ELSE IF c = "-" /\ next = "-" THEN Place("line", TRUE)
                ELSE IF c = "/" /\ next = "*" THEN Place("block", TRUE)
                ELSE Place("code", FALSE)

\* The places of a text: that before its i-th symbol is the i-th.
Places(text) ==
  LET next(i) == IF i = Len(text) THEN NoSymbol ELSE text[i + 1]
      after(place, i) == IF place.pair THEN Place(place.mode, FALSE)
                         ELSE After(place.mode, text[i], next(i))
  IN  FoldLeft(LAMBDA places, i : Append(places, after(Last(places), i)),
               <<Place("code", FALSE)>>, [i \in DOMAIN text |-> i])

Strip(text) ==
  LET solid == {i \in DOMAIN text : text[i] \notin Blanks}
  IN  IF solid = {} THEN <<>> ELSE SubSeq(text, Min(solid), Max(solid))

NonEmpty(text) == text # <<>>

\* The stripped pieces between the semicolons that are code.
SplitSql(text) ==
  LET place == Places(text)
      cuts == {i \in DOMAIN text : text[i] = ";" /\ place[i] = Place("code", FALSE)}
      ends == SetToSortSeq(cuts \cup {0, Len(text) + 1}, <)
      piece(k) == Strip(SubSeq(text, ends[k] + 1, ends[k + 1] - 1))
  IN  SelectSeq([k \in 1..(Len(ends) - 1) |-> piece(k)], NonEmpty)

\* Some symbol is neither blank nor part of a comment.
HasSqlCode(statement) ==
  LET place == Places(statement)
  IN  \E i \in DOMAIN statement :
        /\ place[i] = Place("code", FALSE)
        /\ statement[i] \notin Blanks
        /\ place[i + 1].mode \notin {"line", "block"}

\* The statements of a file that are carried out.
Statements(text) == SelectSeq(SplitSql(text), HasSqlCode)

-----------------------------------------------------------------------------
(* What a file means, by its tokens *)

\* A token is its symbols; its kind says what they are.
Token(kind, text) == [kind |-> kind, text |-> text]
Separator == Token("separator", <<";">>)

Symbols(tokens) == FlattenSeq([k \in DOMAIN tokens |-> tokens[k].text])

\* Two tokens that, side by side, would begin a comment.
Clash(first, second) ==
  /\ first.kind = "code"
  /\ Last(first.text) \in {"-", "/"}
  /\ Head(second.text) \in {"-", "*", "/"}

WellFormed(tokens) == \A k \in 1..(Len(tokens) - 1) : ~Clash(tokens[k], tokens[k + 1])

HasCode(tokens) == \E k \in DOMAIN tokens : tokens[k].kind \in {"code", "literal"}

\* The groups of tokens between separators that hold code, each as its symbols.
Meaning(tokens) ==
  LET cuts == {k \in DOMAIN tokens : tokens[k] = Separator}
      ends == SetToSortSeq(cuts \cup {0, Len(tokens) + 1}, <)
      groups == [k \in 1..(Len(ends) - 1) |-> SubSeq(tokens, ends[k] + 1, ends[k + 1] - 1)]
      kept == SelectSeq(groups, HasCode)
  IN  [k \in DOMAIN kept |-> Strip(Symbols(kept[k]))]
=============================================================================
