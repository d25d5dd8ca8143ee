------------------------------- MODULE Peek -------------------------------
(***************************************************************************)
(* The built-in peek of c-shell (peek.c): prints files or its input,       *)
(* forwards as they are read, or backwards line by line, with numbers on   *)
(* the lines that are not empty.  A file is a sequence of characters; "n"  *)
(* is the newline.  What is peeked is a sequence of numbered pieces.      *)
(***************************************************************************)
EXTENDS Naturals, Sequences, SequencesExt

CONSTANTS Arguments,        \* lists of sources: [kind, data] records
          CHUNK_SIZE

VARIABLES
  args, ops,      \* the sources named, and the options -n and -r
  cur,            \* the source being peeked
  pos,            \* bytes read so far; going backwards, where the file is cut
  partial,        \* the part of a line that is carried over to the next chunk
  lines,          \* lines stored to be peeked backwards
  running_no,     \* last number given
  peeked, peekpc

peekVars == <<args, ops, cur, pos, partial, lines, running_no, peeked, peekpc>>

NL == "n"

\* peek_line_is_nonempty()
NonEmpty(data) == data # <<>> /\ data # <<NL>>

\* Cuts after every newline; the last piece has none, and may be empty.
Cut(data) ==
  FoldLeft(LAMBDA ls, c : IF c = NL THEN Append(Front(ls) \o <<Append(Last(ls), c)>>, <<>>)
                          ELSE Front(ls) \o <<Append(Last(ls), c)>>, << <<>> >>, data)

\* Numbers a sequence of lines from no, in order.
Numbered(ls, no) ==
  LET before(i) == Len(SelectSeq(SubSeq(ls, 1, i), NonEmpty)) IN
    [i \in 1..Len(ls) |-> [num |-> IF NonEmpty(ls[i]) THEN no + before(i) ELSE 0, data |-> ls[i]]]

NumberedCount(ls) == Len(SelectSeq(ls, NonEmpty))

\* peek_print_line(): the number is shown only with -n.
Show(ls) == [i \in 1..Len(ls) |-> IF ops.n THEN ls[i] ELSE [ls[i] EXCEPT !.num = 0]]

Data == args[cur].data

PeekInit ==
  /\ args = <<>> /\ ops = [n |-> FALSE, r |-> FALSE]
  /\ cur = 1 /\ pos = 0 /\ partial = <<>> /\ lines = <<>>
  /\ running_no = 0 /\ peeked = <<>> /\ peekpc = "idle"

\* peek_command() and peek_parse_args(): the options, then the sources.
StartPeek ==
  /\ peekpc = "idle" /\ peekpc' = "open"
  /\ args' \in Arguments
  /\ ops' \in [n : BOOLEAN, r : BOOLEAN]
  /\ UNCHANGED <<cur, pos, partial, lines, running_no, peeked>>

NextSource ==
  /\ cur' = cur + 1
  /\ peekpc' = IF cur = Len(args) THEN "done" ELSE "open"
  /\ pos' = 0 /\ partial' = <<>> /\ lines' = <<>>

\* peek_process_source(): a file that is not there is an error, and skipped.
OpenSource ==
  /\ peekpc = "open"
  /\ UNCHANGED <<args, ops, running_no, peeked>>
  /\ IF args[cur].kind = "missing" THEN NextSource
     ELSE /\ peekpc' = IF ~ops.r THEN "forward"
                       ELSE IF args[cur].kind = "file" THEN "reverse" ELSE "buffer"
          /\ pos' = IF ops.r /\ args[cur].kind = "file" THEN Len(Data) ELSE 0
          /\ UNCHANGED <<cur, partial, lines>>

\* The rest of the line that the last chunk began is peeked on its own.
ForwardChunkSplit ==
  /\ peekpc = "forward" /\ pos < Len(Data)
  /\ \E n \in 1..CHUNK_SIZE :
       /\ pos + n <= Len(Data)
       /\ LET ls == Cut(SubSeq(Data, pos + 1, pos + n)) IN
            /\ peeked' = peeked \o Show(Numbered(Front(ls), running_no))
            /\ partial' = partial \o Last(ls)
            /\ running_no' = IF ops.n THEN running_no + NumberedCount(Front(ls)) ELSE running_no
       /\ pos' = pos + n
  /\ UNCHANGED <<args, ops, cur, lines, peekpc>>

\* peek_forward_fd(): one read, of any length, and the lines it completes.
ForwardChunk ==
  /\ peekpc = "forward" /\ pos < Len(Data)
  /\ \E n \in 1..CHUNK_SIZE :
       /\ pos + n <= Len(Data)
       /\ LET ls == Cut(partial \o SubSeq(Data, pos + 1, pos + n)) IN
            /\ peeked' = peeked \o Show(Numbered(Front(ls), running_no))
            /\ partial' = Last(ls)
            /\ running_no' = IF ops.n THEN running_no + NumberedCount(Front(ls)) ELSE running_no
       /\ pos' = pos + n
  /\ UNCHANGED <<args, ops, cur, lines, peekpc>>

\* At end of file: a last line without newline.
ForwardEnd ==
  /\ peekpc = "forward" /\ pos = Len(Data)
  /\ LET ls == IF partial = <<>> THEN <<>> ELSE <<partial>> IN
       /\ peeked' = peeked \o Show(Numbered(ls, running_no))
       /\ running_no' = IF ops.n THEN running_no + NumberedCount(ls) ELSE running_no
  /\ NextSource
  /\ UNCHANGED <<args, ops>>

\* The segments of a chunk, last first; the first one only at the file's start.
Stored(ls, atStart) ==
  SelectSeq(Reverse(IF atStart THEN ls ELSE Tail(ls)), LAMBDA l : l # <<>>)

\* peek_reverse_seek_fd(): the chunk before the last one read, joined to the
\* beginning of that one.
ReverseChunk ==
  /\ peekpc = "reverse" /\ pos > 0
  /\ LET n == IF pos >= CHUNK_SIZE THEN CHUNK_SIZE ELSE pos
         ls == Cut(SubSeq(Data, pos - n + 1, pos) \o partial) IN
       /\ pos' = pos - n
       /\ lines' = lines \o Stored(ls, pos = n)
       /\ partial' = IF pos = n THEN <<>> ELSE Head(ls)
  /\ UNCHANGED <<args, ops, cur, running_no, peeked, peekpc>>

\* peek_reverse_buffered_fd(): one line of an input that cannot be sought in.
BufferLine ==
  /\ peekpc = "buffer" /\ pos < Len(Data)
  /\ LET l == Head(Cut(SubSeq(Data, pos + 1, Len(Data)))) IN
       lines' = Append(lines, l) /\ pos' = pos + Len(l)
  /\ UNCHANGED <<args, ops, cur, partial, running_no, peeked, peekpc>>

\* peek_linelist_assign_numbers() in the order of the file, then printing.
ReverseEnd ==
  /\ \/ peekpc = "reverse" /\ pos = 0
     \/ peekpc = "buffer" /\ pos = Len(Data)
  /\ LET forward == IF peekpc = "buffer" THEN lines ELSE Reverse(lines) IN
       /\ peeked' = peeked \o Show(Reverse(Numbered(forward, running_no)))
       /\ running_no' = running_no + NumberedCount(forward)
  /\ NextSource
  /\ UNCHANGED <<args, ops>>

PeekNext == StartPeek \/ OpenSource \/ ForwardChunk \/ ForwardEnd \/ ReverseChunk \/ BufferLine \/ ReverseEnd

PeekSpec == PeekInit /\ [][PeekNext]_peekVars

---------------------------------------------------------------------------
(* Properties *)

\* A file's lines: the cuts of the whole file, none of them empty.
LinesOf(data) == SelectSeq(Cut(data), LAMBDA l : l # <<>>)

\* What the first k sources should have peeked, and the last number used.
RECURSIVE Expected(_)
Expected(k) ==
  IF k = 0 THEN [out |-> <<>>, no |-> 0]
  ELSE LET before == Expected(k - 1)
           ls == IF args[k].kind = "missing" THEN <<>> ELSE LinesOf(args[k].data)
           num == Numbered(ls, before.no) IN
         [out |-> before.out \o Show(IF ops.r THEN Reverse(num) ELSE num),
          no |-> before.no + NumberedCount(ls)]

\* Where chunks are cut and how short reads are makes no difference: between
\* two sources exactly the lines of the finished ones are peeked, whole, each
\* with the number of its place in the input, backwards or forwards.
PeekExact == peekpc \in {"open", "done"} => peeked = Expected(cur - 1).out

===========================================================================
