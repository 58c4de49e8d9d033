---------------------------------- MODULE Json ----------------------------------
(***************************************************************************)
(* serialize and Parser of include/json.hpp, on texts whose characters are *)
(* the punctuation, the quote, the backslash, blanks and whole words: a    *)
(* number, a literal and a run of letters in a string are one character    *)
(* each.  A value is <<kind, content>>; the content of an object is a      *)
(* function of its keys, as std::map has it.                               *)
(***************************************************************************)
EXTENDS Integers, Sequences, SequencesExt

CONSTANT
    Numerals    \* the numbers that occur

Null    == <<"null", "null">>
Bool(b) == <<"bool", b>>
Num(n)  == <<"num", n>>
Str(s)  == <<"str", s>>
Arr(q)  == <<"arr", q>>
Obj(f)  == <<"obj", f>>

Blanks  == {" ", "nl", "comment"}
Quote   == "quote"
Slash   == "backslash"

-----------------------------------------------------------------------------
(* Values: as_int and the others, operator[].                              *)

\* A value of another kind, or none, gives the default.
As(kind, v, default) == IF v[1] = kind THEN v[2] ELSE default

Field(v, key) ==
    IF v[1] = "obj" /\ key \in DOMAIN As("obj", v, <<>>) THEN v[2][key] ELSE Null

-----------------------------------------------------------------------------
(* serialize.  An indent is one blank.                                     *)

\* Mutant: strings are written as they are.
EscapeNothing(c) == <<c>>

Escape(c) ==
    CASE c = Quote -> <<Slash, Quote>> [] c = Slash -> <<Slash, Slash>>
      [] c = "nl" -> <<Slash, "n">> [] OTHER -> <<c>>

Quoted(s) == <<Quote>> \o FlattenSeq([i \in DOMAIN s |-> Escape(s[i])]) \o <<Quote>>

\* What stands between two brackets, the parts separated by a comma.
Enclosed(open, parts, close) ==
    IF parts = <<>> THEN <<open, close>>
    ELSE <<open, "nl">>
         \o FlattenSeq([i \in DOMAIN parts |->
               <<" ">> \o parts[i] \o (IF i < Len(parts) THEN <<",", "nl">> ELSE <<"nl">>)])
         \o <<close>>

RECURSIVE Serialize(_)
Serialize(v) ==
    CASE v[1] = "null" -> <<"null">>
      [] v[1] = "bool" -> IF v[2] THEN <<"true">> ELSE <<"false">>
      [] v[1] = "num"  -> <<v[2]>>
      [] v[1] = "str"  -> Quoted(v[2])
      [] v[1] = "arr"  -> Enclosed("[", [i \in DOMAIN v[2] |-> Serialize(v[2][i])], "]")
      [] v[1] = "obj"  ->
            LET keys == SetToSeq(DOMAIN v[2]) IN
            Enclosed("{", [i \in DOMAIN keys |->
                <<Quote, keys[i], Quote, ":", " ">> \o Serialize(v[2][keys[i]])], "}")

-----------------------------------------------------------------------------
(* Parser: a text and a position give a value and the position after it,   *)
(* or the failure that its exceptions are.                                 *)

Failure == [ok |-> FALSE]
Parsed(v, p) == [ok |-> TRUE, value |-> v, next |-> p]

\* skip_whitespace; the character there, "eof" at the end.
RECURSIVE Skip(_, _)
Skip(s, p) == IF p <= Len(s) /\ s[p] \in Blanks THEN Skip(s, p + 1) ELSE p
Peek(s, p) == IF Skip(s, p) <= Len(s) THEN s[Skip(s, p)] ELSE "eof"

\* \u and its four digits, one character here, come out as a question mark.
Unescape(c) == CASE c = "n" -> "nl" [] c = "u" -> "?" [] OTHER -> c

\* What is left of a string from position p on, after the characters read.
RECURSIVE ParseChars(_, _, _)
ParseChars(s, p, read) ==
    IF p > Len(s) THEN Failure
    ELSE IF s[p] = Quote THEN Parsed(Str(read), p + 1)
    ELSE IF s[p] = Slash /\ p < Len(s)
    THEN ParseChars(s, p + 2, Append(read, Unescape(s[p + 1])))
    ELSE ParseChars(s, p + 1, Append(read, s[p]))

RECURSIVE ParseValue(_, _), ParseItems(_, _, _), ParseFields(_, _, _)

\* Mutant: the end of the text ends what is open.
AfterPartLenient(s, p, close) ==
    CASE Peek(s, p) \in {close, "eof"} -> "close" [] Peek(s, p) = "," -> "more"
      [] OTHER -> "error"

AfterPart(s, p, close) ==
    CASE Peek(s, p) = close -> "close" [] Peek(s, p) = "," -> "more"
      [] OTHER -> "error"

\* parse_array and parse_object, after the bracket; a comma wants another part.
ParseItems(s, p, items) ==
    LET item == ParseValue(s, p) IN
    IF ~item.ok THEN Failure
    ELSE LET all == Append(items, item.value) IN
         CASE AfterPart(s, item.next, "]") = "close" -> Parsed(Arr(all), Skip(s, item.next) + 1)
           [] AfterPart(s, item.next, "]") = "more" -> ParseItems(s, Skip(s, item.next) + 1, all)
           [] OTHER -> Failure

\* A key of one word; nobody asks for another.
Key(chars) == IF Len(chars) = 1 THEN chars[1] ELSE "another"

\* A key that comes again replaces the field.
ParseFields(s, p, fields) ==
    IF Peek(s, p) # Quote THEN Failure
    ELSE LET key == ParseChars(s, Skip(s, p) + 1, <<>>) IN
         IF ~key.ok THEN Failure
         ELSE IF Peek(s, key.next) # ":" THEN Failure
         ELSE LET field == ParseValue(s, Skip(s, key.next) + 1) IN
              IF ~field.ok THEN Failure
              ELSE LET name == Key(key.value[2])
                       all == [k \in DOMAIN fields \cup {name} |->
                                  IF k = name THEN field.value ELSE fields[k]] IN
                   CASE AfterPart(s, field.next, "}") = "close" ->
                           Parsed(Obj(all), Skip(s, field.next) + 1)
                     [] AfterPart(s, field.next, "}") = "more" ->
                           ParseFields(s, Skip(s, field.next) + 1, all)
                     [] OTHER -> Failure

ParseValue(s, p) ==
    LET c == Peek(s, p)
        q == Skip(s, p) + 1 IN
    CASE c = "{" -> IF Peek(s, q) = "}" THEN Parsed(Obj(<<>>), Skip(s, q) + 1)
                    ELSE ParseFields(s, q, <<>>)
      [] c = "[" -> IF Peek(s, q) = "]" THEN Parsed(Arr(<<>>), Skip(s, q) + 1)
                    ELSE ParseItems(s, q, <<>>)
      [] c = Quote -> ParseChars(s, q, <<>>)
      [] c \in {"true", "false"} -> Parsed(Bool(c = "true"), q)
      [] c = "null" -> Parsed(Null, q)
      [] c \in Numerals -> Parsed(Num(c), q)
      [] OTHER -> Failure

\* What comes after the value is not looked at.
Parse(s) == ParseValue(s, 1)
=============================================================================
