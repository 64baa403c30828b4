---------------------------- MODULE TransferText ----------------------------
(***************************************************************************)
(* The texts a data transfer depends on: the address a PORT line names     *)
(* (src/src/commands/port.c), the one a PASV reply announces               *)
(* (src/src/commands/pasv.c, src/src/network.c) and the directory listing  *)
(* LIST sends (src/src/vfs/vfs.c).                                         *)
(*                                                                         *)
(* A text is a sequence of characters, a character a small number: the     *)
(* digits are themselves.  Words of a fixed length and the time stamp are  *)
(* left out of a listing but for the room they take.                       *)
(***************************************************************************)
EXTENDS Integers, Sequences

CONSTANTS
  Fields,      (* bound: the texts between the commas of a PORT line       *)
  FieldCounts, (* bound: how many of them it has                           *)
  IntValues,   (* how many values the int of parse_port_args() has: 2^32   *)
  Hosts,       (* the addresses the console may have, four bytes each      *)
  Ports,       (* bound: the values of the port counter PASV is tried at   *)
  Sizes,       (* bound: the sizes files may have                          *)
  MaxEntries   (* bound: entries of a directory                            *)

Digit == 0..9
Comma == 10
Blank == 11
Letter == 12

(* The largest size strnumlen() is given.                                  *)
MaxInt == 32767 * 65536 + 65535

ASSUME FieldsAssumption ==
  /\ Fields \subseteq Seq(0..Letter)
  /\ \A f \in Fields : \A i \in 1..Len(f) : f[i] # Comma
ASSUME CountsAssumption == FieldCounts \subseteq Nat \ {0}
ASSUME IntAssumption == IntValues \in Nat /\ 512 <= IntValues
ASSUME HostsAssumption == Hosts \subseteq [1..4 -> 0..255]
ASSUME PortsAssumption ==
  1024 \in Ports /\ \A p \in Ports : p \in Nat /\ 1024 <= p /\ p <= 65535
ASSUME SizesAssumption == Sizes \subseteq 0..MaxInt
ASSUME EntriesAssumption == MaxEntries \in Nat \ {0}

VARIABLES
  said,     (* the address command being handled, and what came of it      *)
  next,     (* next_ephermal_port                                          *)
  dir,      (* the entries of the directory being listed                   *)
  ls,       (* vfs_list_directory() at work                                *)
  fault     (* "none", or why the program halted                           *)

vars == <<said, next, dir, ls, fault>>

Unparsed == [ip |-> <<0, 0, 0, 0>>, port |-> 0]

NoCommand == [by |-> "none", fields |-> <<>>, line |-> <<>>, addr |-> Unparsed]

Idle == ls.pc = "idle" /\ said = NoCommand

-----------------------------------------------------------------------------
(* A comma between any two of the texts.                                   *)
Join(texts) ==
  LET Text[k \in 1..Len(texts)] ==
        IF k = 1 THEN texts[1] ELSE Text[k - 1] \o <<Comma>> \o texts[k]
  IN  Text[Len(texts)]

(* %d for a byte.                                                          *)
Decimal(n) ==
  IF n > 99 THEN <<n \div 100, (n \div 10) % 10, n % 10>>
  ELSE IF n > 9 THEN <<n \div 10, n % 10>> ELSE <<n>>

(* What an int is left with: the builds let it wrap around.                *)
IntOf(n) ==
  LET r == n % IntValues IN IF 2 * r < IntValues THEN r ELSE r - IntValues

(* The loop of parse_port_args() on one character; back: it has returned.  *)
Scanned(s, c) ==
  IF s.digit = 6 \/ s.back \/ c = Blank THEN s
  ELSE IF c = Letter \/ (c = Comma /\ s.segment > 255) THEN [s EXCEPT !.back = TRUE]
  ELSE IF c = Comma THEN [s EXCEPT !.bytes[s.digit + 1] = s.segment, !.digit = @ + 1,
                                   !.segment = 0]
  ELSE [s EXCEPT !.segment = IntOf(10 * @ + c)]

Unscanned == [bytes |-> [i \in 1..6 |-> 0], segment |-> 0, digit |-> 0, back |-> FALSE]

ScanAll(line) ==
  LET State[k \in 0..Len(line)] ==
        IF k = 0 THEN Unscanned ELSE Scanned(State[k - 1], line[k])
  IN  State[Len(line)]

(* Bug: behind the loop only the sixth number is tested.                   *)
ParsePortTestsLast(line) ==
  LET s == ScanAll(line)
      b == [s.bytes EXCEPT ![6] = s.segment]
  IN  IF s.back \/ s.digit # 5 \/ b[6] < 0 \/ b[6] > 255 THEN Unparsed
      ELSE [ip |-> SubSeq(b, 1, 4), port |-> 256 * b[5] + b[6]]

(* parse_port_args(): a field that has wrapped below 0 passes the loop.    *)
ParsePort(line) ==
  LET s == ScanAll(line)
      b == [s.bytes EXCEPT ![6] = s.segment]
  IN  IF s.back \/ s.digit # 5 \/ \E i \in 1..6 : b[i] < 0 \/ b[i] > 255 THEN Unparsed
      ELSE [ip |-> SubSeq(b, 1, 4), port |-> 256 * b[5] + b[6]]

(* do_port() opens a channel to an address whose two parts are not 0.      *)
Usable(a) == a.ip # Unparsed.ip /\ a.port # 0

(* After six commas a 0 is stored behind the array, which may end anywhere. *)
Port(fields) ==
  /\ \/ /\ said' = [by |-> "PORT", fields |-> fields, line |-> Join(fields),
                    addr |-> IF Usable(ParsePort(Join(fields))) THEN ParsePort(Join(fields))
                                                                ELSE Unparsed]
        /\ UNCHANGED fault
     \/ /\ ~ScanAll(Join(fields)).back /\ ScanAll(Join(fields)).digit = 6
        /\ fault' = "overwritten" /\ UNCHANGED said
  /\ UNCHANGED <<next, dir, ls>>

(* Bug: the low byte of the port first.                                    *)
AnnouncedSwapped(ip, port) ==
  Join(<<Decimal(ip[1]), Decimal(ip[2]), Decimal(ip[3]), Decimal(ip[4]),
         Decimal(port % 256), Decimal(port \div 256)>>)

(* The six numbers of the 227 reply.                                       *)
Announced(ip, port) ==
  Join(<<Decimal(ip[1]), Decimal(ip[2]), Decimal(ip[3]), Decimal(ip[4]),
         Decimal(port \div 256), Decimal(port % 256)>>)

NextPort(p) == IF p + 1 > 65535 THEN 1024 ELSE p + 1

(* do_passive(), when the socket can be bound to the port.                 *)
Pasv(ip) ==
  /\ Idle /\ next \in Ports
  /\ said' = [by |-> "PASV", fields |-> <<>>, line |-> Announced(ip, next % 65536),
              addr |-> [ip |-> ip, port |-> next % 65536]]
  /\ next' = NextPort(next)
  /\ UNCHANGED <<dir, ls, fault>>

(* The command has been handled.                                           *)
Answered ==
  /\ said # NoCommand /\ said' = NoCommand
  /\ UNCHANGED <<next, dir, ls, fault>>

-----------------------------------------------------------------------------
(* The loop of strnumlen(): it stops at 10, not below.                     *)
Length[n \in 0..MaxInt] == IF n > 10 THEN 1 + Length[n \div 10] ELSE 1

(* strnumlen() of a size.                                                  *)
Width(n) ==
  LET digits == Length[n]
      len    == IF digits > 3 THEN digits + digits \div 3 ELSE digits
  IN  IF n > 0 THEN len ELSE len + 1

(* Bug: a comma after every fourth digit.                                  *)
ColumnShiftedComma(c) ==
  IF c.count = 4 THEN [c EXCEPT !.text = <<Comma>> \o @, !.count = 0]
  ELSE [text |-> <<c.rest % 10>> \o c.text, rest |-> c.rest \div 10, count |-> c.count + 1]

(* format_filesize() on one column, from the right.                        *)
Column(c) ==
  IF c.count = 3 THEN [c EXCEPT !.text = <<Comma>> \o @, !.count = 0]
  ELSE [text |-> <<c.rest % 10>> \o c.text, rest |-> c.rest \div 10, count |-> c.count + 1]

(* The 14 columns of format_filesize().                                    *)
FileSize(n) ==
  LET shown == IF Width(n) > 14 THEN 14 ELSE Width(n)
      Cols[p \in 0..shown] ==
        IF p = 0 THEN [text |-> <<>>, rest |-> n, count |-> 0] ELSE Column(Cols[p - 1])
  IN  [i \in 1..(14 - shown) |-> Blank] \o Cols[shown].text

-----------------------------------------------------------------------------
(* What a line depends on.  Whether the entry is a directory makes no      *)
(* difference: `st_mode & S_IFMT == S_IFDIR' masks the mode with 0.        *)
Entry == [size : Sizes, name : 1..2]

(* Bug: the name is counted without the line around it.                    *)
BufferSizeBare(entries) ==
  LET Room[k \in 0..Len(entries)] == IF k = 0 THEN 0 ELSE Room[k - 1] + entries[k].name + 40
  IN  Room[Len(entries)]

(* get_buffer_size()                                                       *)
BufferSize(entries) ==
  LET Room[k \in 0..Len(entries)] == IF k = 0 THEN 0 ELSE Room[k - 1] + entries[k].name + 42
  IN  Room[Len(entries)]

(* What a line takes: mark 6, size 14 + 1, time 18, name, end 2.           *)
LineSize(e) == 41 + e.name

Line(i) == [entry |-> i, size |-> FileSize(dir[i].size)]

Closed == [pc |-> "idle", cap |-> 0, used |-> 0, at |-> 1, lines |-> <<>>,
           skipped |-> {}, grown |-> FALSE]

(* opendir() fails, or the first pass counts the room ...                  *)
Opendir ==
  /\ Idle
  /\ \/ UNCHANGED <<dir, ls>>
     \/ \E n \in 0..MaxEntries :
          /\ dir' \in [1..n -> Entry]
          /\ ls' = [Closed EXCEPT !.pc = "count", !.cap = BufferSize(dir')]
  /\ UNCHANGED <<said, next, fault>>

(* ... somebody adds an entry meanwhile ...                                *)
Grow ==
  /\ ls.pc = "count" /\ Len(dir) < MaxEntries
  /\ \E e \in Entry : dir' = Append(dir, e)
  /\ ls' = [ls EXCEPT !.grown = TRUE]
  /\ UNCHANGED <<said, next, fault>>

(* ... malloc() fails, or hands out zeros, or memory with garbage in it:   *)
(* strcat() and strlen() are given it as a string.                         *)
Malloc ==
  /\ ls.pc = "count"
  /\ \/ ls' = Closed /\ dir' = <<>> /\ UNCHANGED fault
     \/ ls' = [ls EXCEPT !.pc = "fill"] /\ UNCHANGED <<dir, fault>>
     \/ fault' = "uninitialised" /\ UNCHANGED <<dir, ls>>
  /\ UNCHANGED <<said, next>>

(* The second pass, one entry at a time: no memory for its path or no      *)
(* answer from stat(), or a line.  Nothing looks at the room there is.     *)
Fill ==
  /\ ls.pc = "fill" /\ ls.at <= Len(dir)
  /\ \/ /\ ls' = [ls EXCEPT !.at = @ + 1, !.skipped = @ \union {ls.at}]
        /\ UNCHANGED fault
     \/ LET used == ls.used + LineSize(dir[ls.at])
        IN  IF used + 1 > ls.cap
              THEN fault' = "overrun" /\ UNCHANGED ls
              ELSE /\ ls' = [ls EXCEPT !.at = @ + 1, !.used = used,
                                       !.lines = Append(@, Line(ls.at))]
                   /\ UNCHANGED fault
  /\ UNCHANGED <<said, next, dir>>

(* The listing goes to the data channel.                                   *)
Listed ==
  /\ ls.pc = "fill" /\ ls.at > Len(dir)
  /\ ls' = Closed /\ dir' = <<>>
  /\ UNCHANGED <<said, next, fault>>

-----------------------------------------------------------------------------
Init ==
  /\ said = NoCommand
  /\ next \in Ports
  /\ dir = <<>> /\ ls = Closed /\ fault = "none"

Halted == fault # "none"

Next ==
  \/ /\ ~Halted
     /\ \/ Idle /\ \E n \in FieldCounts : \E fields \in [1..n -> Fields] : Port(fields)
        \/ \E ip \in Hosts : Pasv(ip)
        \/ Answered \/ Opendir \/ Grow \/ Malloc \/ Fill \/ Listed
  \/ Halted /\ UNCHANGED vars

Spec == Init /\ [][Next]_vars

-----------------------------------------------------------------------------
(***************************************************************************)
(* A PORT line is understood exactly when it has six fields of digits and  *)
(* blanks that an int reads as 0..255, and then as the numbers it reads:   *)
(* those of the text unless they reach half of IntValues, when 2^32 + 1 is *)
(* read as 1.                                                              *)
(***************************************************************************)
FieldValue(f) ==
  LET Value[k \in 0..Len(f)] ==
        IF k = 0 THEN 0 ELSE IF f[k] = Blank THEN Value[k - 1] ELSE 10 * Value[k - 1] + f[k]
  IN  Value[Len(f)]

(* What is read for a field.                                               *)
FieldRead(f) == IntOf(FieldValue(f))

GoodField(f) == (\A i \in 1..Len(f) : f[i] # Letter) /\ FieldRead(f) \in 0..255

PortUnderstood ==
  said.by = "PORT" =>
    LET f == said.fields
        v == [i \in 1..Len(f) |-> FieldRead(f[i])]
        good == Len(f) = 6 /\ \A i \in 1..Len(f) : GoodField(f[i])
        addr == [ip |-> <<v[1], v[2], v[3], v[4]>>, port |-> 256 * v[5] + v[6]]
    IN  said.addr = IF good /\ Usable(addr) THEN addr ELSE Unparsed

(***************************************************************************)
(* What a PASV reply announces is the address the channel listens at, and  *)
(* a port outside the reserved ones.                                       *)
(***************************************************************************)
PasvAnnounced ==
  said.by = "PASV" => ParsePort(said.line) = said.addr /\ said.addr.port >= 1024

(***************************************************************************)
(* The buffer sized by the first pass takes every line of the second with  *)
(* its terminator, unless the directory has grown in between.              *)
(***************************************************************************)
ListingFits == fault = "overrun" => ls.grown

(***************************************************************************)
(* The size as it should be shown: the digits from the right, a comma      *)
(* after every third of them that is followed by another.                  *)
(***************************************************************************)
Power[k \in 0..9] == IF k = 0 THEN 1 ELSE 10 * Power[k - 1]

DigitAt(n, k) == IF k > 9 \/ (k > 0 /\ n < Power[k]) THEN Blank ELSE (n \div Power[k]) % 10

ColumnOf(n, p) ==
  LET k == p - p \div 4
  IN  IF p % 4 = 3 THEN IF DigitAt(n, k) = Blank THEN Blank ELSE Comma ELSE DigitAt(n, k)

Shown(n) == [i \in 1..14 |-> ColumnOf(n, 14 - i)]

(***************************************************************************)
(* strnumlen() is wrong for 0, for numbers that begin with 10 and for      *)
(* those of 6 or 9 digits.  Every other size is shown as it should be ...  *)
(***************************************************************************)
BeginsWith10(n) == \E k \in 0..8 : n \div Power[k] = 10

HasDigits(n, k) == Power[k - 1] <= n /\ n < Power[k]

SizesShown ==
  \A i \in 1..Len(ls.lines) :
    LET n == dir[ls.lines[i].entry].size
    IN  n = 0 \/ BeginsWith10(n) \/ HasDigits(n, 6) \/ HasDigits(n, 9)
        \/ ls.lines[i].size = Shown(n)

(***************************************************************************)
(* ... and of the others no digit is lost or moved but the 1 of one that   *)
(* begins with 10, which is left out, no 0 is made up but the one in front *)
(* of 0, and no comma but one in front of 6 or of 9 digits.                *)
(***************************************************************************)
Kept(n, k) ==
  IF n = 0 /\ k = 1 THEN 0
  ELSE IF BeginsWith10(n) /\ k <= 9 /\ n \div Power[k] = 1 THEN Blank
  ELSE DigitAt(n, k)

KeptColumn(n, p) ==
  LET k == p - p \div 4
  IN  IF p % 4 # 3 THEN Kept(n, k)
      ELSE IF Kept(n, k) # Blank \/ (k > 3 /\ Kept(n, k - 1) # Blank) THEN Comma ELSE Blank

DigitsInPlace ==
  \A i \in 1..Len(ls.lines) : \A c \in 1..14 :
    ls.lines[i].size[c] = KeptColumn(dir[ls.lines[i].entry].size, 14 - c)

(***************************************************************************)
(* A client reads the sizes of a listing as they are, as far as strnumlen() *)
(* is right, and with its errors and no other where it is not.             *)
(***************************************************************************)
SizesRight == SizesShown /\ DigitsInPlace

=============================================================================
