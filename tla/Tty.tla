--------------------------------- MODULE Tty ---------------------------------
(***************************************************************************)
(* What the console promises its reader: lines, as edited while they were  *)
(* typed, each character once and in order.                                *)
(***************************************************************************)
EXTENDS Naturals, Sequences

CONSTANTS Chars, NL, EOF, Size

VARIABLES
  avail,  \* the characters of finished lines that nobody has read
  line,   \* the line being typed
  got     \* what the reader has of its current or last call

\* A character is typed.  It ends the line if it is NL or EOF or fills the buffer.
Type == \E c \in Chars \cup {NL, EOF} :
  /\ Len(avail) + Len(line) < Size
  /\ IF c \in {NL, EOF} \/ Len(avail) + Len(line) + 1 = Size
     THEN avail' = avail \o Append(line, c) /\ line' = <<>>
     ELSE line' = Append(line, c) /\ UNCHANGED avail
  /\ UNCHANGED got

\* A part of the line being typed is taken back.
Edit == \E k \in 0 .. Len(line) - 1 : line' = SubSeq(line, 1, k) /\ UNCHANGED <<avail, got>>

Call == got' = <<>> /\ UNCHANGED <<avail, line>>

\* Characters go to the reader, none past the end of a line; EOF is not delivered.
Read == \E k \in 1 .. Len(avail) :
  /\ \A j \in 1 .. k - 1 : avail[j] \notin {NL, EOF}
  /\ got' = got \o (IF avail[k] = EOF THEN SubSeq(avail, 1, k - 1) ELSE SubSeq(avail, 1, k))
  /\ avail' = SubSeq(avail, k + 1, Len(avail))
  /\ UNCHANGED line

TInit == avail = <<>> /\ line = <<>> /\ got = <<>>
TSpec == TInit /\ [][Type \/ Edit \/ Call \/ Read]_<<avail, line, got>>
=============================================================================
