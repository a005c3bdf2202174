----------------------------- MODULE TaskSearch -----------------------------
(* What a search for `key=value` finds in the arguments of a task            *)
(* (src/lib/task-search.ts, indexed-search.ts): Celery, Python and JSON      *)
(* write keyword arguments as text, each in its way; the literal that is     *)
(* typed, in any of these ways, becomes a pattern over that text, and terms  *)
(* computed when the text is stored select the rows that are tried.          *)
(*                                                                           *)
(* A text is a sequence of characters; a word like None is one character,    *)
(* and "nl" stands for what Python and JSON escape.  A pattern is the set of *)
(* places where it may end.                                                  *)
EXTENDS Integers, Sequences, FiniteSets

LOCAL INSTANCE SequencesExt

CONSTANTS
    Searches,              \* searches: [key, value, typed], a pair and what is typed for it
    StoredRows,             \* rows: [pairs, source, raw], what was written, by what, and the text
    MaxNesting,         \* MAX_NESTING_DEPTH
    MaxPattern,         \* MAX_KWARGS_PATTERN_LENGTH: of the text of a value
    MaxRaw,             \* longer arguments have no terms
    MaxGrams            \* longer texts have no grams

Space == {" "}
Letters == {"a", "b", "n"}
Digits == {"1", "2"}
WordValue == [w \in {"True", "true", "False", "false", "None", "null"} |->
    CASE w \in {"True", "true"} -> <<"bool", TRUE>> [] w \in {"False", "false"} -> <<"bool", FALSE>>
      [] OTHER -> <<"null", "null">>]
Lowercased(t) == [k \in DOMAIN t |-> CASE t[k] = "True" -> "true" [] t[k] = "False" -> "false"
                                       [] t[k] = "None" -> "none" [] OTHER -> t[k]]

VARIABLES stored, asked
taskSearchVars == <<stored, asked>>

ASSUME TaskSearchAssumption ==
    /\ {MaxNesting, MaxPattern, MaxRaw, MaxGrams} \subseteq Nat
    /\ \A r \in StoredRows : DOMAIN r = {"pairs", "source", "raw"}
    /\ \A s \in Searches : DOMAIN s = {"key", "value", "typed"}

-----------------------------------------------------------------------------
CharAt(t, i) == IF i \in DOMAIN t THEN t[i] ELSE "end"
StandsAt(t, i, s) == i + Len(s) <= Len(t) + 1 /\ SubSeq(t, i, i + Len(s) - 1) = s
SkipSpace(t, i) == CHOOSE j \in i .. Len(t) + 1 :
    CharAt(t, j) \notin Space /\ \A k \in i .. j - 1 : CharAt(t, k) \in Space
TrimQuery(t) ==
    LET kept == {i \in DOMAIN t : t[i] \notin Space}
    IN  IF kept = {} THEN <<>>
        ELSE SubSeq(t, CHOOSE i \in kept : \A j \in kept : i <= j, CHOOSE i \in kept : \A j \in kept : j <= i)

(* How each of them writes a string: json.dumps, repr, and Celery's saferepr,*)
(* which escapes the single quote only.                                      *)
Quoted(body, quote, escaped) ==
    <<quote>> \o FlattenSeq([k \in DOMAIN body |->
        IF body[k] = "nl" /\ "nl" \in escaped THEN <<"\\", "n">>
        ELSE IF body[k] \in escaped THEN <<"\\", body[k]>> ELSE <<body[k]>>]) \o <<quote>>

StringOf(source, body) ==
    LET quote == IF "'" \in ToSet(body) /\ "\"" \notin ToSet(body) THEN "\"" ELSE "'"
    IN  CASE source = "json" -> Quoted(body, "\"", {"\"", "\\", "nl"})
          [] source = "repr" -> Quoted(body, quote, {quote, "\\", "nl"})
          [] source = "saferepr" -> Quoted(body, "'", {"'"})

Writers == {"json", "repr", "saferepr"}
StringPattern(body) == {StringOf(source, body) : source \in Writers}

-----------------------------------------------------------------------------
(* parseLiteral: a value and where it ends.                                  *)
NoLiteral == [found |-> FALSE, deep |-> FALSE]
TooDeep == [found |-> FALSE, deep |-> TRUE]
Literal(value, end) == [found |-> TRUE, value |-> value, end |-> end]

(* In a string that starts at i: what follows a backslash is escaped.        *)
Escaped(t, i) ==
    FoldLeft(LAMBDA escaped, p : IF t[p - 1] = "\\" /\ p - 1 \notin escaped THEN escaped \cup {p} ELSE escaped,
             {}, [k \in 1 .. Len(t) - i - 1 |-> i + 1 + k])

Unescaped(c) == IF c \in {"\\", "'", "\""} THEN <<c>> ELSE IF c = "n" THEN <<"nl">> ELSE <<"\\", c>>

ParseQuoted(t, i) ==
    LET escaped == Escaped(t, i)
        closing == {j \in i + 1 .. Len(t) : t[j] = t[i] /\ j \notin escaped}
        close == CHOOSE j \in closing : \A k \in closing : j <= k
        decoded == FlattenSeq([k \in 1 .. close - i - 1 |->
            LET p == i + k
            IN  IF p \in escaped THEN Unescaped(t[p]) ELSE IF t[p] = "\\" THEN <<>> ELSE <<t[p]>>])
    IN  IF closing = {} THEN NoLiteral ELSE Literal(<<"string", decoded>>, close + 1)

RECURSIVE ParseLiteral(_, _, _), ParseItems(_, _, _, _, _)
ParseLiteral(t, from, depth) ==
    LET i == SkipSpace(t, from)
        c == CharAt(t, i)
        digits == {j \in i .. Len(t) : \A k \in i .. j : t[k] \in Digits}
    IN  CASE c \in {"[", "{"} -> IF depth + 1 > MaxNesting THEN TooDeep
                                 ELSE ParseItems(t, SkipSpace(t, i + 1), depth + 1, c, <<>>)
          [] c \in {"'", "\""} -> ParseQuoted(t, i)
          [] c \in Digits -> Literal(<<"number", SubSeq(t, i, i + Cardinality(digits) - 1)>>,
                                     i + Cardinality(digits))
          [] c \in DOMAIN WordValue /\ CharAt(t, i + 1) \notin Letters \cup DOMAIN WordValue ->
                Literal(WordValue[c], i + 1)
          [] OTHER -> NoLiteral

ParseItems(t, i, depth, open, items) ==
    LET close == IF open = "{" THEN "}" ELSE "]"
        first == ParseLiteral(t, i, depth)
        colon == SkipSpace(t, first.end)
        second == ParseLiteral(t, colon + 1, depth)
        last == IF open = "{" THEN second ELSE first
        item == IF open = "{" THEN <<first.value, second.value>> ELSE first.value
        next == SkipSpace(t, last.end)
    IN  IF CharAt(t, i) = close
        THEN Literal(<<IF open = "{" THEN "object" ELSE "list", items>>, i + 1)
        ELSE IF ~first.found THEN first
        ELSE IF open = "{" /\ CharAt(t, colon) # ":" THEN NoLiteral
        ELSE IF ~last.found THEN last
        ELSE IF CharAt(t, next) = "," THEN ParseItems(t, SkipSpace(t, next + 1), depth, open, Append(items, item))
        ELSE IF CharAt(t, next) = close THEN ParseItems(t, next, depth, open, Append(items, item))
        ELSE NoLiteral

(* The value that all of a text is.                                          *)
WholeLiteral(t) ==
    LET literal == ParseLiteral(t, 1, 0)
    IN  IF literal.found /\ SkipSpace(t, literal.end) <= Len(t) THEN NoLiteral ELSE literal

-----------------------------------------------------------------------------
(* buildTaskSearch: the key and the value of `key = value`.                  *)
Keyword(t) ==
    LET ends == {i \in 1 .. Len(t) : \A k \in 1 .. i : t[k] \notin Space \cup {"="}}
        equals == SkipSpace(t, Cardinality(ends) + 1)
        value == SubSeq(t, SkipSpace(t, equals + 1), Len(t))
        literal == WholeLiteral(value)
    IN  IF ends = {} \/ CharAt(t, equals) # "=" \/ value = <<>> \/ Len(value) > MaxPattern \/ (~literal.found /\ literal.deep)
        THEN [keyed |-> FALSE]
        ELSE [keyed |-> TRUE, key |-> SubSeq(t, 1, Cardinality(ends)),
              value |-> IF literal.found THEN literal.value ELSE <<"string", value>>]

(* Where the pattern of a value may end in a text, from i on.                *)
RECURSIVE PatternEnds(_, _, _)
Through(t, places, s) == {p + Len(s) : p \in {q \in {SkipSpace(t, p) : p \in places} : StandsAt(t, q, s)}}
Values(t, places, v) == UNION {PatternEnds(v, t, SkipSpace(t, p)) : p \in places}
PatternEnds(v, t, i) ==
    LET Parsed(places, item) == IF v[1] = "list" THEN Values(t, places, item)
                                ELSE Values(t, Through(t, Values(t, places, item[1]), <<":">>), item[2])
        Next(places, k) == Parsed(IF k = 1 THEN places ELSE Through(t, places, <<",">>), v[2][k])
        brackets == IF v[1] = "list" THEN <<"[", "]">> ELSE <<"{", "}">>
    IN  CASE v[1] = "string" -> UNION {Through(t, {i}, s) : s \in {s \in StringPattern(v[2]) : StandsAt(t, i, s)}}
          [] v[1] = "number" -> IF StandsAt(t, i, v[2]) THEN {i + Len(v[2])} ELSE {}
          [] v[1] \in {"bool", "null"} ->
                IF CharAt(t, i) \in DOMAIN WordValue /\ WordValue[t[i]] = v THEN {i + 1} ELSE {}
          [] OTHER -> IF CharAt(t, i) # brackets[1] THEN {}
                      ELSE Through(t, FoldLeft(Next, {i + 1}, [k \in DOMAIN v[2] |-> k]), <<brackets[2]>>)

(* TOKEN and QUOTED.  A backslash in single quotes may be read either way.   *)
QuotedToken(t, i, j) ==
    LET escaped == Escaped(t, i)
    IN  /\ i < j - 1
        /\ \/ /\ t[i] = "'" /\ t[j - 1] = "'"
              /\ \A p \in i + 1 .. j - 2 : t[p] = "'" => t[p - 1] = "\\"
           \/ /\ t[i] = "\"" /\ t[j - 1] = "\"" /\ j - 1 \notin escaped
              /\ \A p \in i + 1 .. j - 2 : t[p] = "\"" => p \in escaped
Token(t, i, j) == (j = i + 1 /\ t[i] \notin {"'", "\"", "\\"}) \/ QuotedToken(t, i, j)

FromStart(t) ==
    FoldLeft(LAMBDA reached, j : IF \E i \in reached : Token(t, i, j) THEN reached \cup {j} ELSE reached,
             {1}, [k \in DOMAIN t |-> k + 1])
ToTheEnd(t) ==
    FoldRight(LAMBDA i, ends : IF \E j \in ends : j > i /\ Token(t, i, j) THEN ends \cup {i} ELSE ends,
              [k \in DOMAIN t |-> k], {Len(t) + 1})

(* Where the pair may end, if its key is at i or follows a delimiter at i.   *)
PairEnds(s, t, i) ==
    LET from == (IF i = 1 THEN {1} ELSE {}) \cup (IF CharAt(t, i) \in {",", "{"} THEN {i + 1} ELSE {})
    IN  {SkipSpace(t, e) : e \in Values(t, Through(t, Values(t, from, <<"string", s.key>>), <<":">>), s.value)}

Malformed(t) ==
    LET reached == FromStart(t)
        ends == ToTheEnd(t)
    IN  \E p \in DOMAIN t : p \in reached /\ t[p] \in {":", ",", "[", "(", "{"} /\
            LET i == SkipSpace(t, p + 1)
            IN  \/ CharAt(t, i) = "<" /\ i + 1 \in ends
                \/ CharAt(t, i) = "b" /\ \E j \in i + 2 .. Len(t) + 1 : QuotedToken(t, i + 1, j) /\ j \in ends

(* Mutant: without the exception for rows that do not tokenize. *)
StrictlyMatches(s, t) ==
    LET reached == FromStart(t)
        ends == ToTheEnd(t)
    IN  \E i \in DOMAIN t : i \in reached /\ \E e \in PairEnds(s, t, i) :
            e = Len(t) + 1 \/ (t[e] \in {",", "}"} /\ e + 1 \in ends)

KwargsMatch(s, t) ==
    LET reached == FromStart(t)
        ends == ToTheEnd(t)
        pairs == [i \in DOMAIN t |-> {e \in PairEnds(s, t, i) : CharAt(t, e) \in {",", "}", "end"}}]
    IN  /\ \E i \in DOMAIN t : pairs[i] # {}
        /\ \/ \E i \in DOMAIN t : i \in reached /\ \E e \in pairs[i] : e = Len(t) + 1 \/ e + 1 \in ends
           \/ Len(t) + 1 \notin reached \/ Malformed(t)

ContainsText(t, s) == \E i \in 1 .. Len(t) + 1 : StandsAt(t, i, s)

(* The rows that the predicates of a search accept.                          *)
Accepts(typed, row) ==
    LET query == TrimQuery(typed)
        s == Keyword(query)
    IN  (s.keyed /\ KwargsMatch(s, row.raw)) \/ ContainsText(Lowercased(row.raw), Lowercased(query))

-----------------------------------------------------------------------------
(* kwargsSearchTerms: every pair of a text that is surely read as written,   *)
(* or the fallback.                                                          *)
RECURSIVE TermsOf(_)
TermsOf(v) ==
    CASE v[1] = "object" -> UNION {(IF e[1][1] = "string" THEN {<<e[1][2], e[2]>>} ELSE {}) \cup TermsOf(e[2])
                                      : e \in ToSet(v[2])}
      [] v[1] = "list" -> UNION {TermsOf(e) : e \in ToSet(v[2])}
      [] OTHER -> {}

Projection(row) ==
    LET literal == WholeLiteral(row.raw)
    IN  IF row.raw = <<>> THEN [terms |-> {}, fallback |-> FALSE]
        ELSE IF row.source \notin Writers \/ Len(row.raw) > MaxRaw \/ "\\" \in ToSet(row.raw)
                \/ ~literal.found \/ literal.value[1] # "object"
        THEN [terms |-> {}, fallback |-> TRUE]
        ELSE [terms |-> TermsOf(literal.value), fallback |-> FALSE]

(* buildIndexedTaskSearch: the rows that are tried.                          *)
Tried(typed, row) ==
    LET query == TrimQuery(typed)
        gram == SubSeq(Lowercased(query), Len(query) - 2, Len(query))
        s == Keyword(query)
        projected == Projection(row)
    IN  \/ Len(query) < 3 \/ Len(row.raw) > MaxGrams
        \/ ContainsText(Lowercased(row.raw), gram)
        \/ s.keyed /\ (projected.fallback \/ <<s.key, s.value>> \in projected.terms)

-----------------------------------------------------------------------------
(* Any to begin with.                                                        *)
TaskSearchInit == stored = (CHOOSE r \in StoredRows : TRUE) /\ asked = (CHOOSE s \in Searches : TRUE)

StoreArguments(row) == row # stored /\ stored' = row /\ UNCHANGED asked
Search(s) == s # asked /\ asked' = s /\ UNCHANGED stored

TaskSearchNext == (\E row \in StoredRows : StoreArguments(row)) \/ (\E s \in Searches : Search(s))

(* The pairs that were written, in whatever depth.                           *)
WrittenPairs(row) == UNION {{<<p[1], p[2]>>} \cup TermsOf(p[2]) : p \in ToSet(row.pairs)}

Opaque(row) == \E p \in ToSet(row.pairs) : p[2][1] = "opaque"

(* A search by a pair finds every row it was written to, whichever way its   *)
(* value is typed and the arguments were written, raw backslashes included,  *)
(* or quotes that nobody escaped; with neither it finds no other row; and no *)
(* row is accepted that its terms and grams keep from being tried            *)
(* (task-search.ts:231-243, 290-297).  With both, a row may be missed.       *)
PairsAreFound ==
    LET s == Keyword(TrimQuery(asked.typed))
    IN  /\ <<asked.key, asked.value>> \in WrittenPairs(stored) /\ (Opaque(stored) => "\\" \notin ToSet(stored.raw))
              => Accepts(asked.typed, stored)
        /\ s.keyed /\ ~Projection(stored).fallback /\ KwargsMatch(s, stored.raw) =>
                <<asked.key, asked.value>> \in WrittenPairs(stored)
        /\ Accepts(asked.typed, stored) => Tried(asked.typed, stored)
=============================================================================
