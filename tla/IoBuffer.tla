------------------------------ MODULE IoBuffer ------------------------------
(***************************************************************************)
(* The two I/O buffers of a control connection (src/src/iobuffer.c)        *)
(* between recv() and the command handlers, and between the handlers and   *)
(* send(): network_read_buffer() and network_writeln() of network.c,       *)
(* handle_control_events() and handle_output() of ftp.c.                   *)
(*                                                                         *)
(* A buffer is the sequence of its first `head' bytes.  The bytes a        *)
(* program could tell apart are CR, LF and those of the set Text.  A byte  *)
(* of a reply is the number of the reply, its place in it and whether it   *)
(* is the LF that ends it.                                                 *)
(***************************************************************************)
EXTENDS Integers, Sequences, SequencesExt

CONSTANTS
  Size,          (* buffer->size, the same for both buffers                *)
  CR, LF, Text,  (* the bytes                                              *)
  LongestReply,  (* the bytes of the longest reply                         *)
  MaxBytes       (* bound: the bytes a peer sends                          *)

Byte == Text \union {CR, LF}

ASSUME BufferAssumption ==
  /\ Size \in Nat /\ LongestReply \in Nat /\ MaxBytes \in Nat
  /\ 2 <= LongestReply /\ LongestReply < Size
  /\ CR # LF /\ CR \notin Text /\ LF \notin Text

VARIABLES
  input,     (* input_buffer                                               *)
  output,    (* output_buffer                                              *)
  before,    (* the byte of the heap in front of input_buffer->buffer      *)
  pc,        (* what the server does next for this client                  *)
  received,  (* history: the bytes recv() has returned                     *)
  lines,     (* history: the lines the command handlers have been given    *)
  replies,   (* history: the number of replies made                        *)
  sent       (* history: the bytes send() has taken                        *)

vars == <<input, output, before, pc, received, lines, replies, sent>>

ReplyByte == [reply : Nat \ {0}, at : Nat \ {0}, eol : BOOLEAN]

-----------------------------------------------------------------------------
(* Bug: the byte for the terminator is given away.                         *)
RemainingAll(b) == Size - Len(b)

(* iobuffer_remaining()                                                    *)
Remaining(b) == Size - 1 - Len(b)

(* Bug: i < limit - 1.                                                     *)
EolButLast(b) == IF b = <<>> THEN 0 ELSE SelectInSeq(Front(b), LAMBDA x : x = LF)

(* find_eol(), counted from 1: 0 if there is none.                         *)
Eol(b)      == SelectInSeq(b, LAMBDA x : x = LF)
ReplyEol(b) == SelectInSeq(b, LAMBDA x : x.eol)

(* The byte in front of the LF, which may be in front of the buffer.       *)
HasCr(b) == IF Eol(b) = 1 THEN before = CR ELSE b[Eol(b) - 1] = CR

(* calculate_bytes_to_copy() without the end of line                       *)
BytesToCopy(b) == IF HasCr(b) THEN Eol(b) - 2 ELSE Eol(b) - 1

(* Bug: newBufferStart = eol.                                              *)
RestWithEol(b, eol) == SubSeq(b, eol, Len(b))

(* What __iobuffer_next_line() leaves in the buffer.                       *)
Rest(b, eol) == SubSeq(b, eol + 1, Len(b))

(* "%d %s\r\n" with n bytes in all, as the reply number k                  *)
ReplyBytes(k, n) == [i \in 1..n |-> [reply |-> k, at |-> i, eol |-> i = n]]

(* Bug: what fits is appended.                                             *)
AppendWhatFits(b, bytes) ==
  IF Len(b) + Len(bytes) <= Size THEN b \o bytes ELSE b \o SubSeq(bytes, 1, Size - Len(b))

(* iobuffer_append(): all of it or nothing.                                *)
AppendAll(b, bytes) == IF Len(b) + Len(bytes) <= Size THEN b \o bytes ELSE b

-----------------------------------------------------------------------------
Init ==
  /\ input = <<>> /\ output = <<>>
  /\ before \in Byte
  /\ pc = "recv"
  /\ received = <<>> /\ lines = <<>> /\ replies = 0 /\ sent = <<>>

(* network_read_buffer()                                                   *)
Recv ==
  /\ pc = "recv"
  /\ \E n \in 1..Remaining(input) :
       /\ Len(received) + n <= MaxBytes
       /\ \E chunk \in [1..n -> Byte] :
            /\ input' = input \o chunk
            /\ received' = received \o chunk
  /\ pc' = "lines"
  /\ UNCHANGED <<output, before, lines, replies, sent>>

(* EAGAIN: handle_control_events() returns without looking at the buffer.  *)
RecvNothing ==
  /\ pc = "recv" /\ Remaining(input) > 0
  /\ pc' = "output"
  /\ UNCHANGED <<input, output, before, received, lines, replies, sent>>

(* End of file or an error of recv().                                      *)
RecvFails ==
  /\ pc = "recv" /\ Remaining(input) > 0
  /\ pc' = "closed"
  /\ UNCHANGED <<input, output, before, received, lines, replies, sent>>

(* -ENOBUFS: the client is dropped.                                        *)
RecvFull ==
  /\ pc = "recv" /\ Remaining(input) = 0
  /\ pc' = "full"
  /\ UNCHANGED <<input, output, before, received, lines, replies, sent>>

(* iobuffer_next_line() and the handler of the line, which makes at most   *)
(* one reply.                                                              *)
Take ==
  /\ pc = "lines" /\ Eol(input) > 0 /\ BytesToCopy(input) >= 0
  /\ lines' = Append(lines, SubSeq(input, 1, BytesToCopy(input)))
  /\ input' = Rest(input, Eol(input))
  /\ \/ UNCHANGED <<output, replies>>
     \/ \E n \in 2..LongestReply :
          /\ replies' = replies + 1
          /\ output' = AppendAll(output, ReplyBytes(replies + 1, n))
  /\ UNCHANGED <<before, received, sent>>

(* Bug: if, not while.                                                     *)
TakeOne == Take /\ pc' = "output"

NextLine == Take /\ UNCHANGED pc

(* memcpy() of -1 bytes: the LF is the first byte of the buffer, and the   *)
(* byte in front of the buffer is a CR.                                    *)
Overrun ==
  /\ pc = "lines" /\ Eol(input) > 0 /\ BytesToCopy(input) < 0
  /\ pc' = "overrun"
  /\ UNCHANGED <<input, output, before, received, lines, replies, sent>>

LinesDone ==
  /\ pc = "lines" /\ Eol(input) = 0
  /\ pc' = "output"
  /\ UNCHANGED <<input, output, before, received, lines, replies, sent>>

(* One line of handle_output(): whatever send() does not take is lost.     *)
Flush ==
  /\ pc = "output" /\ ReplyEol(output) > 0
  /\ \E n \in 0..ReplyEol(output) : sent' = sent \o SubSeq(output, 1, n)
  /\ output' = Rest(output, ReplyEol(output))
  /\ UNCHANGED <<input, before, pc, received, lines, replies>>

FlushDone ==
  /\ pc = "output" /\ ReplyEol(output) = 0
  /\ pc' = "recv"
  /\ UNCHANGED <<input, output, before, received, lines, replies, sent>>

Server == \/ Recv \/ RecvNothing \/ RecvFails \/ RecvFull
          \/ NextLine \/ Overrun \/ LinesDone \/ Flush \/ FlushDone

Gone == pc \in {"closed", "full", "overrun"}

Next == Server \/ (Gone /\ UNCHANGED vars)

(* The server's thread never waits; the peer may stop sending at any time. *)
Spec == Init /\ [][Next]_vars /\ WF_vars(Server)

-----------------------------------------------------------------------------
(* The reference: the lines of a stream, whatever the chunks it came in.   *)
LfCount(s) == Cardinality({i \in DOMAIN s : s[i] = LF})

(* The k-th LF of the stream, 0 for the start of it.                       *)
End(s, k) ==
  IF k = 0 THEN 0 ELSE CHOOSE i \in DOMAIN s : s[i] = LF /\ LfCount(SubSeq(s, 1, i)) = k

Bare(line) == IF line # <<>> /\ Last(line) = CR THEN Front(line) ELSE line

LinesOf(s) == [k \in 1..LfCount(s) |-> Bare(SubSeq(s, End(s, k - 1) + 1, End(s, k) - 1))]

-----------------------------------------------------------------------------
(***************************************************************************)
(* The types, and that the buffers hold: recv() leaves the byte that       *)
(* iobuffer_next_line() needs for its terminator, an append never writes   *)
(* past the end, and a reply that is taken out with its end of line leaves *)
(* room for the terminator too (line[bytesToCopy] is inside `line').       *)
(***************************************************************************)
TypeOK ==
  /\ input \in Seq(Byte) /\ output \in Seq(ReplyByte)
  /\ before \in Byte
  /\ pc \in {"recv", "lines", "output", "closed", "full", "overrun"}
  /\ received \in Seq(Byte) /\ lines \in Seq(Seq(Byte))
  /\ replies \in Nat /\ sent \in Seq(ReplyByte)
  /\ Len(input) < Size
  /\ Len(output) <= Size
  /\ ReplyEol(output) < Size

(***************************************************************************)
(* The commands are the lines of the stream, in order and without their    *)
(* ends, whatever the chunks recv() returns; and when the server is done   *)
(* with a chunk no complete line is left in the buffer.                    *)
(***************************************************************************)
LinesInOrder ==
  /\ IsPrefix(lines, LinesOf(received))
  /\ IsSuffix(input, received)
  /\ pc \in {"recv", "output"} => Len(lines) = LfCount(received)

(***************************************************************************)
(* A client is dropped for want of room only if its last Size - 1 bytes    *)
(* hold no end of line: a line that fits always gets through.              *)
(***************************************************************************)
DroppedOnlyWhenFull ==
  pc = "full" =>
    /\ Len(received) >= Size - 1
    /\ LfCount(SubSeq(received, Len(received) - Size + 2, Len(received))) = 0

(* y is the byte after x in the same reply, or the first of a later one.   *)
SameReply(x, y)  == y.reply = x.reply /\ y.at = x.at + 1 /\ ~x.eol
LaterReply(x, y) == y.reply > x.reply /\ y.at = 1

(* Replies one after the other, each from its first byte; of some the end  *)
(* may be missing.                                                         *)
HeadsOfReplies(s) ==
  /\ s # <<>> => s[1].at = 1
  /\ \A i \in 2..Len(s) : SameReply(s[i-1], s[i]) \/ LaterReply(s[i-1], s[i])

(* Replies one after the other, each from its first byte to its LF.        *)
WholeReplies(s) ==
  /\ s # <<>> => s[1].at = 1 /\ Last(s).eol
  /\ \A i \in 2..Len(s) :
       SameReply(s[i-1], s[i]) \/ (s[i-1].eol /\ LaterReply(s[i-1], s[i]))

(***************************************************************************)
(* Replies leave in the order they were made, none twice, each from its    *)
(* first byte on without a gap, though send() may cut its end off; those   *)
(* that wait are whole, and later than every reply of which anything has   *)
(* been sent.                                                              *)
(***************************************************************************)
RepliesInOrder ==
  /\ HeadsOfReplies(sent)
  /\ WholeReplies(output)
  /\ \A i \in DOMAIN sent, j \in DOMAIN output : sent[i].reply < output[j].reply

(***************************************************************************)
(* A line that has arrived is handled without the peer having to send      *)
(* anything more.                                                          *)
(***************************************************************************)
LineArrived(k) == LfCount(received) >= k
LineTaken(k)   == Len(lines) >= k

ArrivedIsTaken == \A k \in 1..MaxBytes : LineArrived(k) ~> (LineTaken(k) \/ Gone)

=============================================================================
