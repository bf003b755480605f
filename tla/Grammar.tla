------------------------------ MODULE Grammar ------------------------------
(***************************************************************************)
(* The grammar shared by both parsers of math_parser: character classes,   *)
(* the category strings the C code uses as grammar symbols, and the LL(1)  *)
(* production table of the table-driven parser (table_parser.c).           *)
(*                                                                         *)
(* Input text is a sequence of one-character strings; NUL stands for the   *)
(* '\0' terminator that follows the last character of a C string.         *)
(***************************************************************************)
EXTENDS Integers, Sequences

NUL == ""

Digits  == {"0", "1", "2", "3", "4", "5", "6", "7", "8", "9"}
Letters == {"a", "b", "c", "d", "e", "f", "g", "h", "i", "j", "k", "l", "m",
            "n", "o", "p", "q", "r", "s", "t", "u", "v", "w", "x", "y", "z"}
Punct   == {"+", "-", "*", "/", "(", ")", ","}
Chars   == Digits \cup Letters \cup Punct

\* parse_tree.c: the two character-class tests
is_Symbol_Digit(c) == c \in Digits
is_Symbol_Char(c)  == c \in Letters

(***************************************************************************)
(* Category strings.  A nonterminal is "<name>".  A terminal for the       *)
(* character c is the string "\\c" (backslash, c).  A terminal created    *)
(* from input text at parse time is a malloc'd "\\c$": the '$' in          *)
(* category[2] is the marker the code uses to decide what to free.  The    *)
(* table's empty production is "\\\\", its digit and letter classes "$d"   *)
(* and "$c".                                                               *)
(***************************************************************************)
TermCat(c) == "\\" \o c
HeapCat(c) == "\\" \o c \o "$"
Empty      == "\\\\"
DigitClass == "$d"
CharClass  == "$c"

\* category[1]: the character a terminal category stands for; for a
\* nonterminal it is a letter of its name, never an operator, so NUL here.
CatChar(cat) ==
    IF \E c \in Chars : cat \in {TermCat(c), HeapCat(c)}
    THEN CHOOSE c \in Chars : cat \in {TermCat(c), HeapCat(c)}
    ELSE NUL

\* category[2] == '$'
IsHeapCat(cat) == \E c \in Chars : cat = HeapCat(c)

\* The lookahead character at index i of input s (1-based); past the last
\* character it is the terminator.
LA(s, i) == IF i <= Len(s) THEN s[i] ELSE NUL

(***************************************************************************)
(* single_Line_Parse: the rule number for (category, lookahead), -1 when   *)
(* the table has no entry.  The cases are tried in the code's order; a     *)
(* category whose conditions all fail falls through to -1.                 *)
(***************************************************************************)
single_Line_Parse(category, lookahead) ==
    CASE category = "<char>"  /\ is_Symbol_Char(lookahead)  -> 100
      [] category = "<string>"                              -> 80
      [] category = "<stail>" /\ is_Symbol_Char(lookahead)  -> 90
      [] category = "<stail>" /\ lookahead # NUL            -> 91
      [] category = "<paramlist>" /\ lookahead = "("        -> 120
      [] category = "<ptail>" /\ lookahead = ","            -> 130
      [] category = "<ptail>"                               -> 131
      [] category = "<function>"                            -> 110
      [] category = "<digit>" /\ is_Symbol_Digit(lookahead) -> 70
      [] category = "<number>"                              -> 50
      [] category = "<ntail>" /\ is_Symbol_Digit(lookahead) -> 60
      [] category = "<ntail>"                               -> 61
      [] category = "<factor>" /\ is_Symbol_Digit(lookahead) -> 40
      [] category = "<factor>" /\ is_Symbol_Char(lookahead)  -> 43
      [] category = "<factor>" /\ lookahead = "("            -> 42
      [] category = "<factor>" /\ lookahead = "-"            -> 41
      [] category = "<group>"                                -> 20
      [] category = "<gtail>" /\ lookahead = "*"             -> 30
      [] category = "<gtail>" /\ lookahead = "/"             -> 32
      [] category = "<gtail>"                                -> 31
      [] category = "<expression>"                           -> 0
      [] category = "<etail>" /\ lookahead = "+"             -> 10
      [] category = "<etail>" /\ lookahead = "-"             -> 12
      [] category = "<etail>"                                -> 11
      [] OTHER                                               -> -1

\* rule_Num_To_List_Of_Strings: the right-hand side of each rule, in order.
rule_Num_To_List_Of_Strings == [r \in {0, 10, 11, 12, 20, 30, 31, 32, 40, 41,
                                       42, 43, 50, 60, 61, 70, 80, 90, 91,
                                       100, 110, 120, 130, 131} |->
    CASE r = 0   -> <<"<group>", "<etail>">>
      [] r = 10  -> <<TermCat("+"), "<expression>">>
      [] r = 12  -> <<TermCat("-"), "<expression>">>
      [] r = 20  -> <<"<factor>", "<gtail>">>
      [] r = 30  -> <<TermCat("*"), "<group>">>
      [] r = 32  -> <<TermCat("/"), "<group>">>
      [] r = 40  -> <<"<number>">>
      [] r = 41  -> <<TermCat("-"), "<factor>">>
      [] r = 42  -> <<TermCat("("), "<expression>", TermCat(")")>>
      [] r = 43  -> <<"<function>">>
      [] r = 50  -> <<"<digit>", "<ntail>">>
      [] r = 60  -> <<"<number>">>
      [] r = 70  -> <<DigitClass>>
      [] r = 80  -> <<"<char>", "<stail>">>
      [] r = 90  -> <<"<string>">>
      [] r = 100 -> <<CharClass>>
      [] r = 110 -> <<"<string>", "<paramlist>">>
      [] r = 120 -> <<TermCat("("), "<expression>", "<ptail>", TermCat(")")>>
      [] r = 130 -> <<TermCat(","), "<expression>", "<ptail>">>
      [] r \in {11, 31, 61, 91, 131} -> <<Empty>>]

=============================================================================
