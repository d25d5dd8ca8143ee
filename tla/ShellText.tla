----------------------------- MODULE ShellText -----------------------------
(***************************************************************************)
(* From a line of text to the commands c-shell runs: lex_line() of         *)
(* lexer.c, parse_validate() of parser.c and the loop of main() in shell.c *)
(* that cuts the tokens into segments and stages.  A character is a        *)
(* string of length one, a word a sequence of characters.  The line being  *)
(* typed is the state; the algorithms are operators on it.                 *)
(***************************************************************************)
EXTENDS Naturals, Sequences, FiniteSets, SequencesExt

CONSTANTS KeySets,          \* alphabets, one of which a line is typed with
          MaxLine,          \* characters of a line
          MAX_ARGS, MAX_STAGES

VARIABLES text, keys

textVars == <<text, keys>>

BACKSLASH == "\\"
DQUOTE == "\""
SQUOTE == "'"

is_special(c) == c \in {"|", "&", ">", "<", ";"}
is_space(c) == c = " "

Op(c) == [type |-> c, value |-> <<>>]
Word(w) == [type |-> "WORD", value |-> w]

---------------------------------------------------------------------------
(* lexer.c: mode is where in lex_line() or read_word() the character is read *)

Push(s, w) == [s EXCEPT !.word = @ \o w]
Emit(s, t) == [s EXCEPT !.toks = Append(@, t), !.word = <<>>, !.mode = "gap"]

\* read_word(), outside quotes; the character is not a space or special.
ReadPlain(s, c) ==
  CASE c = BACKSLASH -> [s EXCEPT !.mode = "escape"]
    [] c = DQUOTE -> [s EXCEPT !.mode = "double"]
    [] c = SQUOTE -> [s EXCEPT !.mode = "single"]
    [] OTHER -> [Push(s, <<c>>) EXCEPT !.mode = "word"]

\* lex_line(), between tokens; ">" waits for the next character.
LexGap(s, c) ==
  CASE is_space(c) -> s
    [] c = ">" -> [s EXCEPT !.mode = "gt"]
    [] is_special(c) /\ c # ">" -> Emit(s, Op(c))
    [] OTHER -> ReadPlain(s, c)

\* Only \" loses its backslash.
ReadDoubleEscapeQuote(s, c) ==
  [Push(s, IF c = DQUOTE THEN <<c>> ELSE <<BACKSLASH, c>>) EXCEPT !.mode = "double"]

\* After a backslash in double quotes: only \" and \\ lose it.
ReadDoubleEscape(s, c) ==
  [Push(s, IF c \in {DQUOTE, BACKSLASH} THEN <<c>> ELSE <<BACKSLASH, c>>)
     EXCEPT !.mode = "double"]

LexChar(s, c) ==
  CASE s.mode = "gap" -> LexGap(s, c)
    [] s.mode = "gt" -> IF c = ">" THEN Emit(s, Op(">>")) ELSE LexGap(Emit(s, Op(">")), c)
    [] s.mode = "word" -> IF is_space(c) \/ is_special(c)
                          THEN LexGap(Emit(s, Word(s.word)), c) ELSE ReadPlain(s, c)
    [] s.mode = "escape" -> [Push(s, <<c>>) EXCEPT !.mode = "word"]
    [] s.mode = "double" -> IF c = DQUOTE THEN [s EXCEPT !.mode = "word"]
                            ELSE IF c = BACKSLASH THEN [s EXCEPT !.mode = "descape"]
                            ELSE Push(s, <<c>>)
    [] s.mode = "descape" -> ReadDoubleEscape(s, c)
    [] s.mode = "single" -> IF c = SQUOTE THEN [s EXCEPT !.mode = "word"] ELSE Push(s, <<c>>)

\* At the end of the line: the pending token; an open quote or escape is left.
LexEnd(s) ==
  CASE s.mode = "gt" -> Emit(s, Op(">"))
    [] s.mode = "word" -> Emit(s, Word(s.word))
    [] OTHER -> s

\* The tokens, without TOK_EOF; ok is FALSE for "invalid syntax".
lex_line(line) ==
  LET s == LexEnd(FoldLeft(LexChar, [mode |-> "gap", word |-> <<>>, toks |-> <<>>], line)) IN
    [ok |-> s.mode = "gap", toks |-> IF s.mode = "gap" THEN s.toks ELSE <<>>]

---------------------------------------------------------------------------
(* parser.c *)

Redirections == {"<", ">", ">>"}

\* at: before the first token, after a word, where a word is needed, after &.
ParseToken(at, t) ==
  CASE at = "bad" -> "bad"
    [] t.type = "WORD" -> "after"
    [] at = "after" /\ t.type = "&" -> "amp"
    [] at = "after" /\ t.type # "&" -> "need"
    [] OTHER -> "bad"

parse_validate(toks) == FoldLeft(ParseToken, "start", toks) \in {"start", "after", "amp"}

---------------------------------------------------------------------------
(* shell.c: segments end at ; or &, stages at | *)

NoStage == [argv |-> <<>>, ins |-> <<>>, outs |-> <<>>]

\* A word more, while there is room for it.
Keep(s, x) == IF Len(s) < MAX_ARGS - 1 THEN Append(s, x) ELSE s

\* The segment is run, unless its last stage has no words.
EndSegment(s, bg) ==
  [s EXCEPT !.stages = <<NoStage>>,
            !.segs = IF Last(s.stages).argv = <<>> THEN @
                     ELSE Append(@, [stages |-> s.stages, bg |-> bg])]

InStage(s, st) == [s EXCEPT !.stages = Front(@) \o <<st>>]

\* Every output file is truncated.
SegFileTruncate(s, t) ==
  LET st == Last(s.stages) IN
    [InStage(s, IF s.want = "<" THEN [st EXCEPT !.ins = Keep(@, t.value)]
                ELSE [st EXCEPT !.outs = Keep(@, [file |-> t.value, append |-> FALSE])])
       EXCEPT !.want = "none", !.nofile = @ \/ t.type # "WORD"]

\* The file named after a redirection; nofile: the token is not a word.
SegFile(s, t) ==
  LET st == Last(s.stages) IN
    [InStage(s, IF s.want = "<" THEN [st EXCEPT !.ins = Keep(@, t.value)]
                ELSE [st EXCEPT !.outs = Keep(@, [file |-> t.value, append |-> s.want = ">>"])])
       EXCEPT !.want = "none", !.nofile = @ \/ t.type # "WORD"]

SegPipe(s) ==
  IF Last(s.stages).argv = <<>> \/ Len(s.stages) >= MAX_STAGES THEN [s EXCEPT !.err = TRUE]
  ELSE [s EXCEPT !.stages = Append(@, NoStage)]

SegToken(s, t) ==
  CASE s.err -> s
    [] ~s.err /\ s.want # "none" -> SegFile(s, t)
    [] ~s.err /\ s.want = "none" ->
       CASE t.type \in Redirections -> [s EXCEPT !.want = t.type]
         [] t.type = "|" -> SegPipe(s)
         [] t.type \in {";", "&"} -> EndSegment(s, t.type = "&")
         [] t.type = "WORD" -> InStage(s, [Last(s.stages) EXCEPT !.argv = Keep(@, t.value)])

\* What main() runs of a line of tokens, in order.
Segments(toks) ==
  LET s == FoldLeft(SegToken, [stages |-> <<NoStage>>, segs |-> <<>>, want |-> "none",
                               err |-> FALSE, nofile |-> FALSE], toks) IN
    IF s.err THEN s
    ELSE [EndSegment(s, FALSE) EXCEPT !.nofile = @ \/ s.want # "none"]

---------------------------------------------------------------------------
(* A line is typed *)

TextInit == text = <<>> /\ keys = {}

TypeChar == /\ Len(text) < MaxLine
            /\ IF text = <<>> THEN keys' \in KeySets ELSE keys' = keys
            /\ \E c \in keys' : text' = Append(text, c)

TextSpec == TextInit /\ [][TypeChar]_textVars

---------------------------------------------------------------------------
(* Properties *)

\* text in double quotes, with a backslash before each quote and backslash.
Quoted(w) ==
  <<DQUOTE>> \o FlattenSeq([i \in 1..Len(w) |->
                  IF w[i] \in {DQUOTE, BACKSLASH} THEN <<BACKSLASH, w[i]>> ELSE <<w[i]>>])
             \o <<DQUOTE>>

\* Whatever the characters, quoting makes one word of them and lex_line()
\* gives them back unchanged: \" and \\ in quotes are read as they are written.
QuoteRoundTrip == lex_line(Quoted(text)) = [ok |-> TRUE, toks |-> <<Word(text)>>]

Toks == lex_line(text).toks

\* A line: a word first, a word after each operator; only & and ; may come
\* last.  main() runs a line that ends in ; ("just stop quietly").
Grammar(toks) ==
  /\ toks # <<>> => toks[1].type = "WORD"
  /\ \A i \in 1..Len(toks) : toks[i].type # "WORD" =>
       IF i < Len(toks) THEN toks[i + 1].type = "WORD" ELSE toks[i].type \in {"&", ";"}

EndsInSemicolon(toks) == toks # <<>> /\ Last(toks).type = ";"

\* Where token i is: the number of its segment and of its stage, and its role.
Ends(toks, i) == {j \in 1..i - 1 : toks[j].type \in {";", "&"}}
SegOf(toks, i) == Cardinality(Ends(toks, i)) + 1
StageOf(toks, i) ==
  Cardinality({j \in 1..i - 1 : toks[j].type = "|" /\ SegOf(toks, j) = SegOf(toks, i)}) + 1
RoleOf(toks, i) == IF i > 1 /\ toks[i - 1].type \in Redirections THEN toks[i - 1].type ELSE "arg"

\* The words of a segment's stage that have one of the roles, in order, as
\* far as there is room.
IndexAt(toks, k, s, roles) ==
  LET idx == SelectSeq([i \in 1..Len(toks) |-> i],
               LAMBDA i : toks[i].type = "WORD" /\ SegOf(toks, i) = k /\ StageOf(toks, i) = s
                            /\ RoleOf(toks, i) \in roles) IN
    SubSeq(idx, 1, IF Len(idx) < MAX_ARGS THEN Len(idx) ELSE MAX_ARGS - 1)

StageAt(toks, k, s) ==
  LET Value(i) == toks[i].value
      File(i) == [file |-> Value(i), append |-> RoleOf(toks, i) = ">>"]
      Map(Of(_), idx) == [n \in 1..Len(idx) |-> Of(idx[n])] IN
    [argv |-> Map(Value, IndexAt(toks, k, s, {"arg"})),
     ins |-> Map(Value, IndexAt(toks, k, s, {"<"})),
     outs |-> Map(File, IndexAt(toks, k, s, {">", ">>"}))]

\* parse_validate() accepts only lines of the grammar, and all of them but those
\* that end in ;.  Nothing is said of these: it rejects them, main() expects them.
\* main() runs every line of the grammar as written: each segment's stages have
\* the words and files the line gives them, the first MAX_ARGS - 1 of each; no
\* redirection lacks its file ("parser guarantees this is TOK_WORD"); and the
\* "unreachable" syntax error comes only from more than MAX_STAGES stages.
SegmentsExact ==
  LET R == Segments(Toks) IN
    /\ parse_validate(Toks) => Grammar(Toks)
    /\ Grammar(Toks) /\ ~EndsInSemicolon(Toks) => parse_validate(Toks)
    /\ Grammar(Toks) =>
      /\ ~R.nofile
      /\ R.err <=> \E i \in 1..Len(Toks) : StageOf(Toks, i) > MAX_STAGES
      /\ \A k \in 1..Len(R.segs), s \in 1..MAX_STAGES :
           LET seg == R.segs[k] IN
             /\ seg.bg <=> \E i \in 1..Len(Toks) : Toks[i].type = "&" /\ SegOf(Toks, i) = k
             /\ StageAt(Toks, k, s) = IF s > Len(seg.stages) THEN NoStage ELSE seg.stages[s]
      /\ ~R.err => \A i \in 1..Len(Toks) : Toks[i].type = "WORD" => SegOf(Toks, i) <= Len(R.segs)
===========================================================================
