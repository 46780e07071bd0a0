------------------------------- MODULE Console -------------------------------
(***************************************************************************)
(* Console input (kernel/console.c): console_read in a process, and        *)
(* console_intr, which the UART's interrupt (driver/uart.c) calls for each *)
(* key.  Each runs under cons.lock with interrupts masked, so a step is    *)
(* what happens between two acquisitions of that lock.  console_read calls *)
(* _wait_sem without the lock of the semaphore: its decrement is a load    *)
(* and a store, and a post may come between them.                          *)
(*                                                                         *)
(* Keys are pressed at any time.  A unit of cons.sem left by a line nobody *)
(* waited for lets a later read run past write_idx, and a key that finds   *)
(* the buffer full is retried for ever with cons.lock held.                *)
(*                                                                         *)
(* The indices are usize in the code; here they count modulo Word.  Echo   *)
(* and console_write only send to the UART and are left out.               *)
(***************************************************************************)
EXTENDS Integers, Sequences, SequencesExt

CONSTANTS
  Chars,      \* the ordinary characters
  NL, EOF,    \* newline (and return), C('D')
  INPUT_BUF,  \* the size of the ring (128)
  Word,       \* what an index counts modulo (2^64)
  Sizes,      \* bound: how many bytes a read asks for
  MaxVal,     \* bound: the value of cons.sem
  MaxUnits    \* bound: the units of ip->lock

VARIABLES
  buf, read_idx, write_idx, edit_idx,  \* struct console
  sem,      \* cons.sem: its value and its waiters
  pc,       \* where the reader is
  n,        \* what its call still wants
  tmp,      \* what it loaded of cons.sem's value
  got,      \* the characters its current or last call has stored
  killed,   \* its Proc.killed
  ilock,    \* the units of ip->lock when no call holds it
  hung      \* console_intr does not return

ring == <<buf, read_idx, write_idx, edit_idx>>
vars == <<ring, sem, pc, n, tmp, got, killed, ilock, hung>>

Next1(k) == (k + 1) % INPUT_BUF
Prev1(k) == ((k - 1) % Word) % INPUT_BUF

Init ==
  /\ \E c \in Chars : buf = [k \in 0 .. INPUT_BUF - 1 |-> c]
  /\ read_idx = 0 /\ write_idx = 0 /\ edit_idx = 0
  /\ sem = [val |-> 0, waiting |-> FALSE]
  /\ pc = "idle" /\ n = 0 /\ tmp = 0 /\ got = <<>> /\ killed = FALSE
  /\ ilock = 1 /\ hung = FALSE

-----------------------------------------------------------------------------
(* console_read.                                                           *)

\* The call, up to acquire_spinlock(&cons.lock).
read_enter(k) ==
  /\ ~hung /\ pc = "idle"
  /\ n' = k /\ got' = <<>> /\ pc' = "copy"
  /\ UNCHANGED <<ring, sem, tmp, killed, ilock, hung>>

Return == pc' = "idle" /\ n' = 0 /\ killed' = FALSE

\* The index after an end of file behind other characters, left for the next read.
PutBack(k) == (k - 1) % Word

\* One character, without another look at whether there is one.
Take ==
  LET k == Next1(read_idx)
      c == buf[k]
  IN IF c = EOF
     THEN /\ read_idx' = IF got = <<>> THEN k ELSE PutBack(k)
          /\ Return /\ UNCHANGED got
     ELSE /\ read_idx' = k /\ got' = Append(got, c)
          /\ IF c = NL \/ n = 1 THEN Return
             ELSE n' = n - 1 /\ pc' = "copy" /\ UNCHANGED killed

\* A turn of the loop.
read_char ==
  /\ ~hung /\ pc = "copy" /\ read_idx # write_idx
  /\ Take
  /\ UNCHANGED <<buf, write_idx, edit_idx, sem, tmp, ilock, hung>>

read_empty ==
  /\ ~hung /\ pc = "copy" /\ read_idx = write_idx
  /\ pc' = "wait"
  /\ UNCHANGED <<ring, sem, n, tmp, got, killed, ilock, hung>>

\* _wait_sem(&cons.sem, true): load, then store and perhaps sleep.
wait_load ==
  /\ pc = "wait"
  /\ tmp' = sem.val /\ pc' = "store"
  /\ UNCHANGED <<ring, sem, n, got, killed, ilock, hung>>

wait_store ==
  /\ pc = "store" /\ tmp' = 0
  /\ IF tmp > 0 THEN sem' = [sem EXCEPT !.val = tmp - 1] /\ pc' = "woken"
     ELSE /\ sem' = [val |-> tmp - 1, waiting |-> TRUE]
          /\ pc' = IF killed THEN "alerted" ELSE "sleep"
  /\ UNCHANGED <<ring, n, got, killed, ilock, hung>>

\* A killed reader is back from sched.  If nobody has posted, it withdraws, and the call
\* returns -1 without ip->lock, which its caller releases nevertheless.
withdraw ==
  /\ pc = "alerted"
  /\ IF sem.waiting
     THEN /\ ilock < MaxUnits
          /\ sem' = [val |-> sem.val + 1, waiting |-> FALSE]
          /\ ilock' = ilock + 1 /\ Return
     ELSE pc' = "woken" /\ UNCHANGED <<sem, n, killed, ilock>>
  /\ UNCHANGED <<ring, tmp, got, hung>>

\* Woken, the reader takes a character.
read_woken ==
  /\ ~hung /\ pc = "woken"
  /\ Take
  /\ UNCHANGED <<buf, write_idx, edit_idx, sem, tmp, ilock, hung>>

-----------------------------------------------------------------------------
(* console_intr, an action per kind of key.  It waits while the reader is  *)
(* in its loop, with cons.lock.                                            *)

Unlocked == ~hung /\ pc # "copy"

Full == Next1(edit_idx) = read_idx

\* Does c, stored at edit_idx, hand the line over?
Ends(c) == c = NL \/ Next1(Next1(edit_idx)) = read_idx

Post ==
  IF sem.waiting
  THEN /\ sem' = [val |-> sem.val + 1, waiting |-> FALSE]
       /\ pc' = IF pc = "sleep" THEN "woken" ELSE pc
  ELSE sem.val < MaxVal /\ sem' = [sem EXCEPT !.val = @ + 1] /\ UNCHANGED pc

Spin == hung' = TRUE /\ UNCHANGED <<ring, sem, pc, n, tmp, got, killed, ilock>>

key_char(c) ==
  /\ Unlocked
  /\ IF Full THEN Spin
     ELSE /\ edit_idx' = Next1(edit_idx)
          /\ buf' = [buf EXCEPT ![Next1(edit_idx)] = c]
          /\ IF Ends(c) THEN write_idx' = Next1(edit_idx) /\ Post
             ELSE UNCHANGED <<write_idx, sem, pc>>
          /\ UNCHANGED <<read_idx, n, tmp, got, killed, ilock, hung>>

key_eof ==
  /\ Unlocked
  /\ IF Full THEN Spin
     ELSE /\ edit_idx' = Next1(edit_idx) /\ write_idx' = Next1(edit_idx)
          /\ buf' = [buf EXCEPT ![Next1(edit_idx)] = EOF]
          /\ Post
          /\ UNCHANGED <<read_idx, n, tmp, got, killed, ilock, hung>>

Editable(k) == k # write_idx

key_backspace ==
  /\ Unlocked /\ Editable(edit_idx)
  /\ edit_idx' = Prev1(edit_idx)
  /\ UNCHANGED <<buf, read_idx, write_idx, sem, pc, n, tmp, got, killed, ilock, hung>>

\* How far C('U') goes back from k: to the line's start, or to a character whose
\* predecessor is a newline.
KillTo[k \in 0 .. INPUT_BUF - 1] ==
  LET stop(j) == ~Editable(j) \/ buf[Prev1(j)] = NL
      back == {d \in 0 .. INPUT_BUF - 1 : stop((k - d) % INPUT_BUF)
                 /\ \A e \in 0 .. d - 1 : ~stop((k - e) % INPUT_BUF)}
  IN (k - (CHOOSE d \in back : TRUE)) % INPUT_BUF

key_kill ==
  /\ Unlocked /\ edit_idx # KillTo[edit_idx]
  /\ edit_idx' = KillTo[edit_idx]
  /\ UNCHANGED <<buf, read_idx, write_idx, sem, pc, n, tmp, got, killed, ilock, hung>>

\* kill() from another process, or C('C') when the reader is the process the
\* interrupt finds running.
kill ==
  /\ ~hung /\ pc # "idle" /\ ~killed
  /\ killed' = TRUE
  /\ pc' = IF pc = "sleep" THEN "alerted" ELSE pc
  /\ UNCHANGED <<ring, sem, n, tmp, got, ilock, hung>>

-----------------------------------------------------------------------------

Next ==
  \/ \E k \in Sizes : read_enter(k)
  \/ read_char
  \/ read_empty
  \/ wait_load
  \/ wait_store
  \/ withdraw
  \/ read_woken
  \/ \E c \in Chars \cup {NL} : key_char(c)
  \/ key_eof
  \/ key_backspace
  \/ key_kill
  \/ kill

Spec == Init /\ [][Next]_vars

-----------------------------------------------------------------------------

\* Type invariant.
TypeOK ==
  /\ buf \in [0 .. INPUT_BUF - 1 -> Chars \cup {NL, EOF}]
  /\ read_idx \in 0 .. Word - 1 /\ write_idx \in 0 .. INPUT_BUF - 1
  /\ edit_idx \in 0 .. INPUT_BUF - 1
  /\ sem.val \in -1 .. MaxVal /\ (sem.waiting => pc \in {"sleep", "alerted"})
  /\ pc \in {"idle", "copy", "wait", "store", "woken", "sleep", "alerted"}
  /\ n \in Nat /\ (pc = "idle" <=> n = 0) /\ killed \in BOOLEAN
  /\ ilock \in 1 .. MaxUnits

\* The characters after index a up to index b.
Slice(a, b) == [k \in 1 .. (b - a) % INPUT_BUF |-> buf[(a + k) % INPUT_BUF]]

Abs == INSTANCE Tty WITH
         avail <- Slice(read_idx, write_idx), line <- Slice(write_idx, edit_idx),
         Size <- INPUT_BUF - 1

\* A reader gets the characters of finished lines, each once and in order, and keys
\* edit only the line being typed: console_read reads "from the buffer" what is there
\* (console.c:92-97, 98-171).
LinesInOrder == Abs!TSpec

-----------------------------------------------------------------------------
(* What else one would expect, and the code does not do.                   *)

\* The interrupt handler returns: it does not find the buffer full (console.c:143, 158).
InterruptReturns == ~hung

\* A reader does not sleep on when a line is finished (console.c:105-109, 147-148, 163-164).
ReaderWoken == ~(pc = "sleep" /\ read_idx # write_idx)

\* ip->lock excludes (console.c:107).
LockedOnReturn == ilock = 1
=============================================================================
