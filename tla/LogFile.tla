------------------------------- MODULE LogFile -------------------------------
(***************************************************************************)
(* One shard file, log/<install>.ndjson, as its lines (internal/store).    *)
(*                                                                         *)
(* The code looks at the file in three ways that agree only as long as     *)
(* every line is whole: ShardCounts counts newlines, readShard parses and  *)
(* skips what does not parse, and NextLamport looks at the last line only. *)
(* An event is its number and the number of its parent; 0 stands for the   *)
(* empty parent hash. Sizes count half lines.                              *)
(***************************************************************************)
EXTENDS Integers, SequencesExt

Event == [n : Nat \ {0}, parent : Nat]
Malformed == [n |-> 0, parent |-> 0]

File == [lines : Seq(Event \cup {Malformed}), ended : BOOLEAN, size : Nat]
Empty == [lines |-> <<>>, ended |-> TRUE, size |-> 0]

\* readShard: the lines that parse, in order.
AddParsed(events, l) == IF l = Malformed THEN events ELSE Append(events, l)
ReadShard(f) == FoldLeft(AddParsed, <<>>, f.lines)

\* The hash a next event must name as its parent, as Append and AppendForeign
\* find it: that of the last line that parses.
TailEvent(f) == IF ReadShard(f) = <<>> THEN 0 ELSE Last(ReadShard(f)).n

\* countLines: the lines that end in a newline.
CountLines(f) == IF f.ended THEN Len(f.lines) ELSE Len(f.lines) - 1

\* lastLine and the parse in NextLamport, which fails on a "corrupt shard tail".
TailParses(f) == IF f.lines = <<>> THEN TRUE ELSE Last(f.lines) # Malformed

\* What is on disk before the bytes of the next write: a file that does not end
\* in a newline gets them in its last line, which then holds two events at best.
Kept(f) == IF f.ended THEN f.lines ELSE Front(f.lines)
Line(f, e) == IF f.ended THEN e ELSE Malformed

\* f.Write(append(line, '\n')) in full.
Written(f, e) ==
  [lines |-> Append(Kept(f), Line(f, e)), ended |-> TRUE, size |-> f.size + 2]

\* The same write seen, or cut off, before its end: within the JSON ("json"), or
\* with only the newline missing ("newline").
CutOff(f, e, where) ==
  [lines |-> Append(Kept(f), IF where = "newline" THEN Line(f, e) ELSE Malformed),
   ended |-> FALSE, size |-> f.size + 1]
==============================================================================
