------------------------------ MODULE TextFile ------------------------------
(***************************************************************************)
(* Files of lines: getline(), addline() and changeline() of user/ufile.c,  *)
(* byte by byte, as a program uses them on /etc/passwd or /etc/group: it   *)
(* scans the lines from the start and changes some of them on its way, or  *)
(* adds one.  A read() or write() of up to BUFSIZE bytes is a step.        *)
(*                                                                         *)
(* getline() tests buf[i] before it has read anything; the model takes     *)
(* that byte of an earlier frame not to be a newline.  Lines are not       *)
(* empty: they have colons.                                                *)
(***************************************************************************)
EXTENDS Integers, SequencesExt, FiniteSetsExt

CONSTANTS
  BUFSIZE,    \* 128
  MaxLen,     \* bound: the length of a line
  MaxLines    \* bound: lines of the file

NL == "\n"
Line == UNION {[1 .. n -> {"c", "d"}] : n \in 1 .. MaxLen}

VARIABLES
  file,     \* the bytes of the file
  temp,     \* the bytes of the file changeline() makes
  op,       \* at, the place of the program; off, *offset; n, lines read; old, the
            \* length of the last; line, the new one; pos and tpos, the offsets of the
            \* two descriptors; buf; size, newsize
  lines     \* history: what the lines should be

vars == <<file, temp, op, lines>>

Idle == [at |-> "idle", off |-> 0, n |-> 0, old |-> 0, line |-> <<>>, pos |-> 0, tpos |-> 0,
         buf |-> <<>>, size |-> 0]

Init ==
  /\ lines \in [1 .. 1 -> Line]
  /\ file = lines[1]
  /\ temp = <<>>
  /\ op = Idle

\* read() and write() of a file f at an offset; beyond the end a read gets nothing.
Chunk(f, off)    == SubSeq(f, off + 1, Min({off + BUFSIZE, Len(f)}))
Written(f, off, s) == SubSeq(f, 1, off) \o s \o SubSeq(f, off + Len(s) + 1, Len(f))

-----------------------------------------------------------------------------
\* Where the line that starts at off ends.
EndOfLine(off) == Min({n \in off .. Len(file) : n = Len(file) \/ file[n + 1] = NL})

\* getline(): the next line, the offset after its newline; none at the end.
getline ==
  LET end == EndOfLine(op.off) IN
  /\ op.at \in {"idle", "scan"} /\ op.off < Len(file)
  /\ op' = [op EXCEPT !.at = "scan", !.off = end + 1, !.n = @ + 1, !.old = end - op.off]
  /\ UNCHANGED <<file, temp, lines>>

\* The program has done its search and closes the file.
finish ==
  /\ op.at = "scan" /\ op' = Idle
  /\ UNCHANGED <<file, temp, lines>>

\* addline(): the newline, then the line.
addline(l) ==
  /\ op.at \in {"idle", "scan"} /\ Len(lines) < MaxLines
  /\ file' = Append(file, NL)
  /\ op' = [Idle EXCEPT !.at = "add", !.line = l]
  /\ UNCHANGED <<temp, lines>>

addlineRest ==
  /\ op.at = "add"
  /\ file' = file \o op.line
  /\ lines' = Append(lines, op.line)
  /\ op' = Idle
  /\ UNCHANGED temp

-----------------------------------------------------------------------------
(***************************************************************************)
(* changeline() of the line just read.                                     *)
(***************************************************************************)
\* The first read() behind the line, the new line to the new file, and a newline if
\* there is more.
changeline(l) ==
  LET buf == Chunk(file, op.off) IN
  /\ op.at = "scan"
  /\ temp' = IF buf = <<>> THEN l ELSE Append(l, NL)
  /\ op' = [op EXCEPT !.at = "copy", !.line = l, !.buf = buf, !.pos = op.off + Len(buf)]
  /\ UNCHANGED <<file, lines>>

\* Fault: the start of the line is taken to be one byte further.
StartOfLineLate == op.off - op.old

\* newsize
StartOfLine == op.off - op.old - 1

\* A turn of the loop that copies the rest of the file, or its end.
copyRest ==
  /\ op.at = "copy"
  /\ temp' = temp \o op.buf
  /\ op' = IF op.buf # <<>>
           THEN [op EXCEPT !.buf = Chunk(file, op.pos), !.pos = @ + Len(Chunk(file, op.pos))]
           ELSE [op EXCEPT !.at = "back", !.tpos = 0, !.size = StartOfLine,
                           !.off = StartOfLine + Len(op.line) + 1]
  /\ UNCHANGED <<file, lines>>

\* A turn of the loop that copies the new file back.
copyBack ==
  LET buf == Chunk(temp, op.tpos) IN
  /\ op.at = "back" /\ buf # <<>>
  /\ file' = Written(file, op.size, buf)
  /\ op' = [op EXCEPT !.size = @ + Len(buf), !.tpos = @ + Len(buf)]
  /\ UNCHANGED <<temp, lines>>

\* trim(); close() and unlink() of the new file.
trim ==
  /\ op.at = "back" /\ op.tpos = Len(temp)
  /\ file' = SubSeq(file, 1, op.size)
  /\ temp' = <<>>
  /\ lines' = [lines EXCEPT ![op.n] = op.line]
  /\ op' = [Idle EXCEPT !.at = "scan", !.off = op.off, !.n = op.n, !.old = Len(op.line)]

Next ==
  \/ getline \/ finish \/ addlineRest \/ copyRest \/ copyBack \/ trim
  \/ \E l \in Line : addline(l) \/ changeline(l)

Spec == Init /\ [][Next]_vars

-----------------------------------------------------------------------------
Join(ls) == FlattenSeq([i \in 1 .. Len(ls) |-> IF i = 1 THEN ls[i] ELSE <<NL>> \o ls[i]])

(***************************************************************************)
(* Types; the offsets stay within the files, but for the one behind the    *)
(* newline that the last line does not have.                               *)
(***************************************************************************)
TypeOK ==
  /\ Range(file) \cup Range(temp) \subseteq {"c", "d", NL}
  /\ op.at \in {"idle", "scan", "add", "copy", "back"}
  /\ op.pos \in 0 .. Len(file) + 1 /\ op.tpos \in 0 .. Len(temp)
  /\ op.at = "back" => op.size \in 0 .. Len(file)
  /\ op.at \in {"scan", "copy", "back"} => op.old \in 1 .. MaxLen
  /\ lines \in Seq(Line)

(***************************************************************************)
(* Whenever no change is under way the file is its lines, one newline      *)
(* between two of them: changeline() with a longer or a shorter line, the  *)
(* last line or another, and rests that are no multiple of the buffer,     *)
(* replaces that line and no other byte.                                   *)
(***************************************************************************)
FileIsLines == op.at \in {"idle", "scan"} => file = Join(lines)

(***************************************************************************)
(* A scan that goes on after changeline(), as updateusername() does, finds *)
(* itself behind the line it changed: the offset is the end of the first n *)
(* lines, so no line is skipped, read twice or taken apart.                *)
(***************************************************************************)
ScanInStep ==
  op.at = "scan" => /\ op.n <= Len(lines) /\ op.off = Len(Join(SubSeq(lines, 1, op.n))) + 1
                    /\ op.old = Len(lines[op.n])
=============================================================================
