-------------------------------- MODULE Json --------------------------------
(* The content of an http answer: the JSON value http_psub_on_response()     *)
(* builds, the text parson.c makes of it, and the value parson.c, in the     *)
(* place of a client, reads from that text.                                  *)
(*                                                                           *)
(* A string is the text of its bytes, in which one character is a mark for   *)
(* each class of bytes that TLA+ cannot spell: Broken for one that no UTF-8  *)
(* sequence has, Control for one below 0x20 that JSON has no letter for (the *)
(* backspace, which has one, is left out, and so is null, which no answer    *)
(* holds).                                                                   *)
(* Numbers are whole and not negative, as those of the handler are.  Memory  *)
(* does not run out, and no object or array reaches its largest capacity.    *)
EXTENDS HttpUrl, FiniteSetsExt, TLC

Broken == "~"
Control == "^"

CONSTANT MAX_NESTING

None == [type |-> "none"]     \* NULL, what every function returns on failure
Number(n) == [type |-> "number", number |-> n]
Boolean(b) == [type |-> "boolean", boolean |-> b]
String(s) == [type |-> "string", string |-> s]
Array(items) == [type |-> "array", items |-> items]
Object(members) == [type |-> "object", members |-> members]   \* <<name, value>> in order

-----------------------------------------------------------------------------
(* Building a value.                                                         *)

is_valid_utf8(s) == Broken \notin CharsOf(s)

json_value_init_string(s) == IF is_valid_utf8(s) THEN String(s) ELSE None

Named(members, name) == {i \in 1..Len(members) : members[i][1] = name}

json_object_get_value(members, name) ==
  IF Named(members, name) = {} THEN None ELSE members[Min(Named(members, name))][2]

\* A value of the name is overwritten; a value that could not be made is not set,
\* and the caller does not look.
json_object_set_value(members, name, v) ==
  CASE v = None -> members
    [] v # None /\ Named(members, name) # {} ->
         [members EXCEPT ![Min(Named(members, name))] = <<name, v>>]
    [] OTHER -> Append(members, <<name, v>>)

\* The members set one after the other.
RECURSIVE SetAll(_, _)
SetAll(members, sets) ==
  IF sets = << >> THEN members
  ELSE SetAll(json_object_set_value(members, sets[1][1], sets[1][2]), Tail(sets))

Listed(list, as, nodes) ==
  Object(SetAll(<< >>, <<<<"size", Number(Len(list))>>, <<as, Array(nodes)>>>>))

topic_node(t) ==
  Object(SetAll(<< >>, <<<<"name", json_value_init_string(t.name)>>,
                         <<"members", Number(t.members)>>,
                         <<"last_active", Number(t.last_active)>>>>))

user_node(u) ==
  Object(SetAll(<< >>, <<<<"name", json_value_init_string(u.name)>>,
                         <<"online", Boolean(u.fds # 0)>>,
                         <<"last_active", Number(u.last_active)>>>>))

\* What a subscriber is told: the text in front of the first colon, and from the
\* second byte behind it.
rep_sub(content) ==
  LET colons == {i \in 1..Len(content) : At(content, i) = ":"}
      first == Min(colons)
  IN  IF colons = {} THEN Object(<< >>)
      ELSE Object(SetAll(<< >>,
             <<<<"user", json_value_init_string(SubSeq(content, 1, first - 1))>>,
               <<"msg", json_value_init_string(SubSeq(content, first + 2, Len(content)))>>>>))

\* The value that answers a.
http_psub_content(a) ==
  CASE a.action = "ACT_LIST_TOPIC" ->
         Listed(a.list, "topics", [i \in 1..Len(a.list) |-> topic_node(a.list[i])])
    [] a.action = "ACT_LIST_USER" ->
         Listed(a.list, "members", [i \in 1..Len(a.list) |-> user_node(a.list[i])])
    [] a.action = "ACT_REP_SUB" -> rep_sub(a.user \o ": " \o a.msg)
    [] OTHER -> Object(SetAll(<< >>, <<<<"msg", json_value_init_string(a.msg)>>,
                                       <<"zchat", IF a.action = "ACT_LOGIN" THEN String(a.cookie)
                                                  ELSE None>>>>))

-----------------------------------------------------------------------------
(* Its text.                                                                 *)

Letter(c) == CASE c = "\f" -> "f" [] c = "\n" -> "n" [] c = "\r" -> "r" [] c = "\t" -> "t"
               [] OTHER -> c
Escaped == {"\"", "\\", "\f", "\n", "\r", "\t"}

serialization_strlen(s) ==
  Len(s) + Cardinality({i \in 1..Len(s) : At(s, i) \in Escaped})

\* Mutant: a backslash is written as it is.
json_serialize_string_Bare(s) ==
  LET upto[i \in 0..Len(s)] ==
        IF i = 0 THEN "\""
        ELSE upto[i - 1] \o (IF At(s, i) \in Escaped \ {"\\"} THEN "\\" \o Letter(At(s, i))
                             ELSE At(s, i))
  IN  upto[Len(s)] \o "\""

json_serialize_string(s) ==
  LET upto[i \in 0..Len(s)] ==
        IF i = 0 THEN "\""
        ELSE upto[i - 1] \o (IF At(s, i) \in Escaped THEN "\\" \o Letter(At(s, i)) ELSE At(s, i))
  IN  upto[Len(s)] \o "\""

Total(sizes) ==
  LET upto[i \in 0..Len(sizes)] == IF i = 0 THEN 0 ELSE upto[i - 1] + sizes[i]
  IN  upto[Len(sizes)]

\* The size is computed in a pass of its own.
RECURSIVE json_serialization_size_r(_)
json_serialization_size_r(v) ==
  CASE v.type = "array" ->
         2 + Max({Len(v.items) - 1, 0})
           + Total([i \in 1..Len(v.items) |-> json_serialization_size_r(v.items[i])])
    [] v.type = "object" ->
         2 + Max({2 * Len(v.members) - 1, 0})
           + Total([i \in 1..Len(v.members) |->
               serialization_strlen(v.members[i][1]) + 2
                 + json_serialization_size_r(json_object_get_value(v.members, v.members[i][1]))])
    [] v.type = "string" -> serialization_strlen(v.string) + 2
    [] v.type = "boolean" -> IF v.boolean THEN 4 ELSE 5
    [] v.type = "number" -> Len(ToString(v.number))

RECURSIVE Commas(_)
Commas(texts) ==
  IF Len(texts) <= 1 THEN IF texts = << >> THEN "" ELSE texts[1]
  ELSE texts[1] \o "," \o Commas(Tail(texts))

RECURSIVE json_serialize_to_buffer_r(_)
json_serialize_to_buffer_r(v) ==
  CASE v.type = "array" ->
         "[" \o Commas([i \in 1..Len(v.items) |-> json_serialize_to_buffer_r(v.items[i])]) \o "]"
    [] v.type = "object" ->
         "{" \o Commas([i \in 1..Len(v.members) |->
                  json_serialize_string(v.members[i][1]) \o ":"
                    \o json_serialize_to_buffer_r(
                         json_object_get_value(v.members, v.members[i][1]))]) \o "}"
    [] v.type = "string" -> json_serialize_string(v.string)
    [] v.type = "boolean" -> IF v.boolean THEN "true" ELSE "false"
    [] v.type = "number" -> ToString(v.number)

\* The text, and the size of the buffer it was written to.
json_serialize_to_string(v) ==
  [text |-> json_serialize_to_buffer_r(v), size |-> json_serialization_size_r(v) + 1]

-----------------------------------------------------------------------------
(* Reading it.  The result is the value and the place behind it.             *)

Read(v, i) == [v |-> v, i |-> i]
Spaces == {" ", "\f", "\n", "\r", "\t"}

RECURSIVE SKIP_WHITESPACES(_, _)
SKIP_WHITESPACES(t, i) == IF At(t, i) \in Spaces THEN SKIP_WHITESPACES(t, i + 1) ELSE i

\* From the first quote, which is not looked at, to behind the second.
RECURSIVE InQuotes(_, _)
InQuotes(t, i) ==
  CASE At(t, i) = "" -> i
    [] At(t, i) = "\"" -> i + 1
    [] At(t, i) = "\\" -> IF At(t, i + 1) = "" THEN i + 1 ELSE InQuotes(t, i + 2)
    [] OTHER -> InQuotes(t, i + 1)
skip_quotes(t, i) == InQuotes(t, i + 1)

Meaning == [c \in {"\"", "\\", "/", "f", "n", "r", "t"} |->
              CASE c = "f" -> "\f" [] c = "n" -> "\n" [] c = "r" -> "\r" [] c = "t" -> "\t"
                [] OTHER -> c]

\* Escapes are replaced; bytes below 0x20 are refused.  (An escape \u, which no
\* answer has, is left out.)
process_string(s) ==
  LET failed == [ok |-> FALSE, s |-> "", esc |-> FALSE]
      upto[i \in 0..Len(s)] ==
        IF i = 0 THEN [ok |-> TRUE, s |-> "", esc |-> FALSE]
        ELSE LET p == upto[i - 1]
                 c == At(s, i)
             IN  CASE ~ p.ok -> failed
                   [] p.ok /\ p.esc -> IF c \notin DOMAIN Meaning THEN failed
                                       ELSE [p EXCEPT !.s = @ \o Meaning[c], !.esc = FALSE]
                   [] p.ok /\ ~ p.esc /\ c = "\\" -> [p EXCEPT !.esc = TRUE]
                   [] p.ok /\ ~ p.esc /\ c \in {Control, "\f", "\n", "\r", "\t"} -> failed
                   [] OTHER -> [p EXCEPT !.s = @ \o c]
  IN  IF upto[Len(s)].ok THEN String(upto[Len(s)].s) ELSE None

\* A string that ends the text is refused.
get_quoted_string(t, i) ==
  LET end == skip_quotes(t, i)
  IN  Read(IF At(t, end) = "" THEN None ELSE process_string(SubSeq(t, i + 1, end - 2)), end)

Starts(t, i, token) == i + Len(token) - 1 <= Len(t) /\ SubSeq(t, i, i + Len(token) - 1) = token

parse_boolean_value(t, i) ==
  CASE Starts(t, i, "true") -> Read(Boolean(TRUE), i + 4)
    [] Starts(t, i, "false") -> Read(Boolean(FALSE), i + 5)
    [] OTHER -> Read(None, i)

\* strtod(), as far as the digits go, and is_decimal().
RECURSIVE parse_digits(_, _, _)
parse_digits(t, i, n) ==
  IF At(t, i) \in Num THEN parse_digits(t, i + 1, 10 * n + HexVal[At(t, i)]) ELSE Read(Number(n), i)
parse_number_value(t, i) ==
  LET r == parse_digits(t, i, 0)
  IN  IF At(t, i) = "0" /\ r.i > i + 1 THEN Read(None, i) ELSE r

RECURSIVE parse_value(_, _, _), parse_members(_, _, _, _), parse_items(_, _, _, _)
parse_value(t, from, nesting) ==
  LET i == SKIP_WHITESPACES(t, from)
      first == SKIP_WHITESPACES(t, i + 1)
  IN  CASE nesting > MAX_NESTING -> Read(None, from)
        [] nesting <= MAX_NESTING /\ At(t, i) = "{" ->
             IF At(t, first) = "}" THEN Read(Object(<< >>), first + 1)
             ELSE parse_members(t, first, nesting + 1, << >>)
        [] nesting <= MAX_NESTING /\ At(t, i) = "[" ->
             IF At(t, first) = "]" THEN Read(Array(<< >>), first + 1)
             ELSE parse_items(t, first, nesting + 1, << >>)
        [] nesting <= MAX_NESTING /\ At(t, i) = "\"" -> get_quoted_string(t, i)
        [] nesting <= MAX_NESTING /\ At(t, i) \in {"f", "t"} -> parse_boolean_value(t, i)
        [] nesting <= MAX_NESTING /\ At(t, i) \in Num -> parse_number_value(t, i)
        [] OTHER -> Read(None, i)

\* A name that is there already makes the whole object invalid.
parse_members(t, i, nesting, members) ==
  LET key == get_quoted_string(t, i)
      colon == SKIP_WHITESPACES(t, key.i)
      new == parse_value(t, colon + 1, nesting)
      end == SKIP_WHITESPACES(t, new.i)
      more == Append(members, <<key.v.string, new.v>>)
  IN  IF At(t, i) = "" \/ key.v = None \/ At(t, colon) # ":" \/ new.v = None
           \/ Named(members, key.v.string) # {}
      THEN Read(None, i)
      ELSE CASE At(t, end) = "," -> parse_members(t, SKIP_WHITESPACES(t, end + 1), nesting, more)
             [] At(t, end) = "}" -> Read(Object(more), end + 1)
             [] OTHER -> Read(None, end)

parse_items(t, i, nesting, items) ==
  LET new == parse_value(t, i, nesting)
      end == SKIP_WHITESPACES(t, new.i)
      more == Append(items, new.v)
  IN  IF At(t, i) = "" \/ new.v = None THEN Read(None, i)
      ELSE CASE At(t, end) = "," -> parse_items(t, SKIP_WHITESPACES(t, end + 1), nesting, more)
             [] At(t, end) = "]" -> Read(Array(more), end + 1)
             [] OTHER -> Read(None, end)

json_parse_string(t) ==
  LET i == SKIP_WHITESPACES(t, 1)
  IN  IF At(t, i) \in {"{", "["} THEN parse_value(t, i, 0).v ELSE None
=============================================================================
