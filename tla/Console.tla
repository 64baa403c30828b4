------------------------------ MODULE Console ------------------------------
(***************************************************************************)
(* The two ways in which the program talks: console_printf(), which keeps  *)
(* the last lines of the television and of the pad (src/src/console.c),    *)
(* and stdout, which logging.c broadcasts in datagrams                     *)
(* (src/src/logging.c).                                                    *)
(*                                                                         *)
(* Both are records with operators on them.  A call of console_printf() is *)
(* one step, a datagram is one step.  Lines are numbered, in a circle that *)
(* is longer than the screen; their wording and the cut at 79 characters   *)
(* are left out.                                                           *)
(***************************************************************************)
EXTENDS Integers, Sequences, FiniteSets

CONSTANTS
  TvLines,    (* MAX_CONSOLE_LINES_TV, 27                                  *)
  PadLines,   (* MAX_CONSOLE_LINES_PAD, 18                                 *)
  Strings,    (* the heap blocks a line may be in                          *)
  Null,
  Datagram,   (* DGRAM_SIZE, 576                                           *)
  MaxText     (* bound: bytes of stdout waiting to be written              *)

ASSUME ConsoleAssumption ==
  /\ PadLines \in Nat \ {0} /\ TvLines \in Nat /\ PadLines <= TvLines
  /\ Null \notin Strings
  /\ Datagram \in Nat \ {0} /\ MaxText \in Nat \ {0}

Lines == 1..(TvLines + 1)
NoLine == 0

-----------------------------------------------------------------------------
(***************************************************************************)
(* tv, pad   tvConsole and padConsole                                      *)
(* text      the line each allocated block holds; NoLine for a free one    *)
(* said      the last TvLines lines that were formatted (history)          *)
(* bad       a block was freed twice                                       *)
(***************************************************************************)
Terminal ==
  [tv : [1..TvLines -> Strings \union {Null}],
   pad : [1..PadLines -> Strings \union {Null}],
   text : [Strings -> Lines \union {NoLine}],
   said : [1..TvLines -> Lines \union {NoLine}], bad : BOOLEAN]

(* console_init(); the arrays are zero before it, too.                     *)
ClearTerminal ==
  [tv |-> [i \in 1..TvLines |-> Null], pad |-> [i \in 1..PadLines |-> Null],
   text |-> [s \in Strings |-> NoLine], said |-> [i \in 1..TvLines |-> NoLine], bad |-> FALSE]

FreeStrings(c) == {s \in Strings : c.text[s] = NoLine}

(* Which free block malloc() finds makes no difference.                    *)
AnyFree(c) == CHOOSE s \in FreeStrings(c) : TRUE

(* free()                                                                  *)
FreeString(c, s) ==
  IF s = Null THEN c
  ELSE [c EXCEPT !.bad = @ \/ c.text[s] = NoLine, !.text[s] = NoLine]

(* shift_rows() of both: the last row keeps what it had.                   *)
Shifted(c) ==
  LET up(rows) == [i \in DOMAIN rows |-> rows[IF i + 1 \in DOMAIN rows THEN i + 1 ELSE i]]
  IN  [FreeString(FreeString(c, c.tv[1]), c.pad[1]) EXCEPT !.tv = up(@), !.pad = up(@)]

(* vasprintf() leaves the line in a block.                                 *)
Formatted(c, t) == [c EXCEPT !.text[AnyFree(c)] = t]

(* Bug: the television gets the line itself.                               *)
ShowsSame(c, t, line) ==
  {[c EXCEPT !.pad[PadLines] = line, !.tv[TvLines] = line, !.said = Append(Tail(@), t)]}

(* The last rows: a copy, if there is memory for one, and the line itself. *)
Shows(c, t, line) ==
  LET onPad == [c EXCEPT !.pad[PadLines] = line, !.said = Append(Tail(@), t)]
  IN  {[onPad EXCEPT !.tv[TvLines] = Null]} \union
      {[onPad EXCEPT !.tv[TvLines] = s, !.text[s] = t] : s \in {AnyFree(c)} \intersect FreeStrings(c)}

(* console_printf(): nothing for want of memory, or a line more.           *)
Printed(c) ==
  LET t == 1 + (c.said[TvLines] % (TvLines + 1))
  IN  {c} \union (IF FreeStrings(c) = {} THEN {}
                  ELSE Shows(Shifted(Formatted(c, t)), t, AnyFree(c)))

(* Two lines, one after the other.                                         *)
PrintedTwice(c) == UNION {Printed(d) : d \in Printed(c)}

(* The rows that point at a block.                                         *)
TvRows(c, s) == {i \in 1..TvLines : c.tv[i] = s}
PadRows(c, s) == {i \in 1..PadLines : c.pad[i] = s}
Uses(c, s) == Cardinality(TvRows(c, s)) + Cardinality(PadRows(c, s))

(* console_deinit(): the rows still point at what is freed.                *)
FreeRows(c) ==
  [c EXCEPT !.bad = @ \/ (\E s \in FreeStrings(c) : Uses(c, s) > 0)
                      \/ (\E s \in Strings : Uses(c, s) > 1),
            !.text = [s \in Strings |-> IF Uses(c, s) > 0 THEN NoLine ELSE c.text[s]]]

(* While the console is in use every line in memory is in one row, and     *)
(* every row has a line that is in memory.                                 *)
RowsOwnLines(c) ==
  ~c.bad /\ \A s \in Strings : Uses(c, s) = (IF c.text[s] = NoLine THEN 0 ELSE 1)

(* The rows show the last lines in their order; the television lacks those *)
(* for whose copy there was no memory.                                     *)
ShowsLastLines(c) ==
  /\ \A i \in 1..PadLines :
       (IF c.pad[i] = Null THEN NoLine ELSE c.text[c.pad[i]]) = c.said[TvLines - PadLines + i]
  /\ \A i \in 1..TvLines : c.tv[i] # Null => c.text[c.tv[i]] = c.said[i]

-----------------------------------------------------------------------------
(***************************************************************************)
(* udp       udp_fd is a socket                                            *)
(* lock      log_lock                                                      *)
(* buffered  bytes in the buffer of stdout                                 *)
(* len, ptr, remaining   logging_write() at work; len = 0 when it is not   *)
(* sent      the bytes of this text that went out, by their place in it    *)
(* dropped   a text was given up for want of a socket (history)            *)
(* cut       the loop was done with a text of which bytes were not sent,   *)
(*           though no sendto() had failed (history)                       *)
(***************************************************************************)
Logger ==
  [udp : {"none", "open", "closed"}, lock : BOOLEAN, buffered : 0..MaxText, len : 0..MaxText,
   ptr : 0..MaxText, remaining : -MaxText..MaxText, sent : Seq(1..MaxText),
   dropped : BOOLEAN, cut : BOOLEAN]

NoLogger == [udp |-> "none", lock |-> FALSE, buffered |-> 0, len |-> 0, ptr |-> 0,
             remaining |-> 0, sent |-> <<>>, dropped |-> FALSE, cut |-> FALSE]

Writing(l) == l.len > 0

(* logging_write() is called with what stdout has, if it has anything.     *)
WriteOut(l) ==
  IF l.buffered = 0 THEN l
  ELSE IF l.udp = "open"
    THEN [l EXCEPT !.lock = TRUE, !.len = l.buffered, !.remaining = l.buffered, !.ptr = 0,
                   !.sent = <<>>, !.buffered = 0]
    ELSE [l EXCEPT !.buffered = 0, !.dropped = TRUE]

DatagramOf(l) == IF l.remaining < Datagram THEN l.remaining ELSE Datagram

(* Bug: the text moves on by a whole datagram, whatever was taken of it.   *)
SentByDatagram(l, n) ==
  [l EXCEPT !.sent = @ \o [i \in 1..n |-> l.ptr + i], !.remaining = @ - n,
            !.ptr = @ + Datagram]

(* sendto() has taken n bytes.                                             *)
SentOn(l, n) ==
  [l EXCEPT !.sent = @ \o [i \in 1..n |-> l.ptr + i], !.remaining = @ - n, !.ptr = @ + n]

(* The end of logging_write(), which returns len whatever was sent of it.  *)
Written(l) ==
  [l EXCEPT !.lock = FALSE, !.len = 0, !.remaining = 0, !.ptr = 0, !.sent = <<>>,
            !.cut = @ \/ Len(l.sent) < l.len]

(* sendto() fails: the rest of the text is given up.                       *)
Refused(l) == [Written(l) EXCEPT !.cut = l.cut]

(* The datagrams carry the text from its start, with no gap and no byte    *)
(* twice, and what is not sent of it yet is what remains.                  *)
SentInOrder(l) ==
  /\ l.sent = [i \in 1..Len(l.sent) |-> i]
  /\ Len(l.sent) + l.remaining = l.len
=============================================================================
