--------------------------------- MODULE Json ---------------------------------
(***************************************************************************)
(* json::parse and json::Value of common/json.h, over tokens.  The parser  *)
(* never fails: it stops where it does not know on, keeps what it has, and *)
(* looks neither at what follows nor at what is missing.                   *)
(*                                                                         *)
(* A text is a valid one or the beginning of one, which may end inside a   *)
(* token.  White space and escapes are no tokens of their own, and numbers *)
(* are whole.                                                              *)
(***************************************************************************)
EXTENDS Integers, Sequences, FiniteSets

Mark(c) == [is |-> c, text |-> "", num |-> 0]
Str(s) == [is |-> "string", text |-> s, num |-> 0]
Num(n) == [is |-> "number", text |-> "", num |-> n]
Word(w) == [is |-> "word", text |-> w, num |-> 0]
IsText(text) ==
  text \in Seq({text[i] : i \in DOMAIN text}) /\ \A i \in DOMAIN text : text[i].num \in Int

\* What is left of a positive number without its last digit, or without more
\* of them.
Shorter[n \in Nat] == IF n < 10 THEN {} ELSE {n \div 10} \union Shorter[n \div 10]

\* What is left of a token that the text ends in: a string without its last
\* quote, or without some of its letters too; a number without any of its last
\* digits, or without all of them; a word that is none.
Part == "(part)"
Broken(token) ==
  CASE token.is = "string" -> {token, Str(Part)}
    [] token.is = "number" ->
         IF token.num < 0 THEN {Mark("-")} \union {Num(-m) : m \in Shorter[-token.num] \intersect Nat}
                          ELSE {Num(m) : m \in Shorter[token.num] \intersect Nat}
    [] token.is = "word" -> {Word(Part)}
    [] OTHER -> {}

\* A text and all its beginnings.
Beginnings(text) ==
  {SubSeq(text, 1, k) : k \in 0 .. Len(text)}
  \union UNION {{Append(SubSeq(text, 1, k - 1), token) : token \in Broken(text[k])} : k \in DOMAIN text}

-----------------------------------------------------------------------------
(* Values                                                                  *)

Null == [type |-> "null", of |-> <<>>]
Object(f) == [type |-> "object", of |-> f]
Array(s) == [type |-> "array", of |-> s]

IsNull(v) == v.type = "null"
IsObject(v) == v.type = "object"
IsArray(v) == v.type = "array"

Has(v, key) == IsObject(v) /\ key \in DOMAIN v.of
Member(v, key) == IF Has(v, key) THEN v.of[key] ELSE Null
Size(v) == IF IsArray(v) THEN Len(v.of) ELSE IF IsObject(v) THEN Cardinality(DOMAIN v.of) ELSE 0
Element(v, i) == IF IsArray(v) /\ i \in DOMAIN v.of THEN v.of[i] ELSE Null

AsDouble(v) == IF v.type = "int" THEN v.of ELSE 0
AsInt64(v) == CASE v.type = "int"  -> v.of
                [] v.type = "bool" -> IF v.of THEN 1 ELSE 0
                [] OTHER           -> 0
AsBool(v) == CASE v.type = "int"  -> v.of # 0
               [] v.type = "bool" -> v.of
               [] OTHER           -> FALSE
AsString(v) == IF v.type = "string" THEN v.of ELSE ""

-----------------------------------------------------------------------------
(* The parser: what was read and the place where it goes on, which may be  *)
(* past the end                                                            *)

Read(v, next) == [value |-> v, next |-> next]
Starts(text, i, c) == i \in DOMAIN text /\ text[i].is = c

\* parse_string takes a quote for granted; at the end of the text it finds "".
Key(text, i) == IF Starts(text, i, "string") THEN text[i].text ELSE ""

ParseWord(text, i) ==
  CASE text[i].text = "true"  -> Read([type |-> "bool", of |-> TRUE], i + 1)
    [] text[i].text = "false" -> Read([type |-> "bool", of |-> FALSE], i + 1)
    [] text[i].text = "null"  -> Read(Null, i + 1)
    [] OTHER                  -> Read(Null, i)

\* Three functions call one another; each is given what the three read, by
\* the function and the place in the text it begins at.
ParseValue(read, text, i) ==
  CASE Starts(text, i, "{")      -> IF Starts(text, i + 1, "}") THEN Read(Object(<<>>), i + 2)
                                                              ELSE read[<<"members", i + 1>>]
    [] Starts(text, i, "[")      -> IF Starts(text, i + 1, "]") THEN Read(Array(<<>>), i + 2)
                                                              ELSE read[<<"elements", i + 1>>]
    [] Starts(text, i, "string") -> Read([type |-> "string", of |-> text[i].text], i + 1)
    [] Starts(text, i, "number") -> Read([type |-> "int", of |-> text[i].num], i + 1)
    [] Starts(text, i, "-")      -> Read(Null, i + 1)
    [] Starts(text, i, "word")   -> ParseWord(text, i)
    [] OTHER                     -> Read(Null, i)

\* A member before others, which replace it if they give its key again.
AddMember(key, v, others) ==
  LET given == others.of IN
    Object([k \in DOMAIN given \union {key} |-> IF k \in DOMAIN given THEN given[k] ELSE v])
AddElement(v, others) == Array(<<v>> \o others.of)

\* parse_object, from a member on.
Members(read, text, i) ==
  IF ~Starts(text, i + 1, ":") THEN Read(Object(<<>>), i + 2)
  ELSE LET member == read[<<"value", i + 2>>]
           others == IF Starts(text, member.next, ",") THEN read[<<"members", member.next + 1>>]
                                                     ELSE Read(Object(<<>>), member.next + 1)
       IN  Read(AddMember(Key(text, i), member.value, others.value), others.next)

\* parse_array, from an element on.
Elements(read, text, i) ==
  LET element == read[<<"value", i>>]
      others == IF Starts(text, element.next, ",") THEN read[<<"elements", element.next + 1>>]
                                                 ELSE Read(Array(<<>>), element.next + 1)
  IN  Read(AddElement(element.value, others.value), others.next)

Reads(text) ==
  LET read[job \in {"value", "members", "elements"} \X Nat] ==
        CASE job[1] = "value"    -> ParseValue(read, text, job[2])
          [] job[1] = "members"  -> Members(read, text, job[2])
          [] job[1] = "elements" -> Elements(read, text, job[2])
  IN  read
Parse(text) == Reads(text)[<<"value", 1>>].value

\* No object of the text gives a key twice: none of the members that follow
\* a comma has the key of the one before it.
KeysOnce(text) ==
  LET read == Reads(text) IN
    \A i \in DOMAIN text :
      LET next == read[<<"value", i + 2>>].next IN
        Starts(text, i + 1, ":") /\ Starts(text, next, ",") =>
          Key(text, i) \notin DOMAIN read[<<"members", next + 1>>].value.of
=============================================================================
