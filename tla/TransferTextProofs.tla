------------------------- MODULE TransferTextProofs -------------------------
(***************************************************************************)
(* What is proved of module TransferText, for any fields of a PORT line,   *)
(* any addresses, ports and sizes and directories of any length.           *)
(***************************************************************************)
EXTENDS TransferText, Loops

-----------------------------------------------------------------------------
(***************************************************************************)
(* get_buffer_size(), entry by entry.                                      *)
(***************************************************************************)
Rooms(f, entries) ==
  /\ f \in [0..Len(entries) -> Nat] /\ f[0] = 0
  /\ \A k \in 1..Len(entries) : f[k] = f[k-1] + entries[k].name + 42

Counted(entries) ==
  [k \in 1..Len(entries) |-> [r \in Nat |-> r + entries[k].name + 42]]

LEMMA NameIs ==
  ASSUME NEW entries \in Seq(Entry), NEW k \in 1..Len(entries)
  PROVE  entries[k].name \in 1..2 /\ entries[k].size \in Sizes
<1>1. entries[k] \in Entry
  BY ElementOfSeq
<1>. QED  BY <1>1 DEF Entry

LEMMA BufferSizeIs ==
  ASSUME NEW entries \in Seq(Entry)
  PROVE  \E f : Rooms(f, entries) /\ BufferSize(entries) = f[Len(entries)]
<1>. DEFINE n == Len(entries)
            Body(f) == [k \in 0..n |-> IF k = 0 THEN 0 ELSE f[k - 1] + entries[k].name + 42]
            Room == CHOOSE f : f = Body(f)
<1>1. n \in Nat /\ 0 \in Nat
  OBVIOUS
<1>2. Counted(entries) \in [1..n -> [Nat -> Nat]]
  <2>1. \A k \in 1..n : entries[k].name \in 1..2
    BY NameIs
  <2>2. \A k \in 1..n : \A r \in Nat : r + entries[k].name + 42 \in Nat
    BY <2>1
  <2>. QED  BY <2>2 DEF Counted
<1>3. PICK f : Runs(f, n, Nat, 0, Counted(entries))
  <2>. HIDE DEF n
  <2>. QED  BY <1>1, <1>2, LoopRuns
<1>4. f \in [0..n -> Nat] /\ f[0] = 0 /\ \A k \in 1..n : f[k] = f[k-1] + entries[k].name + 42
  <2>1. f \in [0..n -> Nat] /\ f[0] = 0
    BY <1>3 DEF Runs
  <2>2. \A k \in 1..n : k - 1 \in 0..n /\ f[k-1] \in Nat
    BY <1>1, <2>1
  <2>3. \A k \in 1..n : f[k] = Counted(entries)[k][f[k-1]]
    BY <1>3 DEF Runs
  <2>. QED  BY <2>1, <2>2, <2>3 DEF Counted
<1>5. f = Body(f)
  BY <1>1, <1>4
<1>6. Room = Body(Room)
  <2>. HIDE DEF Body
  <2>. QED  BY <1>5
<1>7. BufferSize(entries) = Room[n]
  BY DEF BufferSize
<1>8. \A k \in 0..n : Room[k] = f[k]
  <2>. DEFINE T == {k \in 0..n : Room[k] = f[k]}
  <2>. HIDE DEF Room
  <2>1. 0 \in T
    BY <1>1, <1>4, <1>6
  <2>2. ASSUME NEW k \in 0..(n-1), k \in T PROVE k + 1 \in T
    <3>1. k + 1 \in 1..n /\ k + 1 \in 0..n /\ (k + 1) - 1 = k /\ k + 1 # 0
      BY <1>1
    <3>2. Room[k+1] = Room[k] + entries[k+1].name + 42
      BY <1>6, <3>1
    <3>3. f[k+1] = f[k] + entries[k+1].name + 42
      BY <1>4, <3>1
    <3>. QED  BY <2>2, <3>1, <3>2, <3>3
  <2>3. 0..n \subseteq T
    <3>. HIDE DEF T
    <3>. QED  BY <1>1, <2>1, <2>2, UpTo
  <2>. QED  BY <2>3
<1>9. Room[n] = f[n]
  BY <1>1, <1>8
<1>. QED  BY <1>4, <1>7, <1>9 DEF Rooms

(* No entry takes room away.                                               *)
LEMMA RoomsGrow ==
  ASSUME NEW entries \in Seq(Entry), NEW f, Rooms(f, entries), NEW i \in 0..Len(entries)
  PROVE  f[i] \in Nat /\ f[Len(entries)] \in Nat /\ f[i] <= f[Len(entries)]
<1>1. PICK n \in Nat : n = Len(entries)
  OBVIOUS
<1>2. PICK m \in Nat : m = n - i
  <2>1. i \in 0..n
    BY <1>1
  <2>2. n - i \in Nat
    BY <2>1
  <2>. QED  BY <2>2
<1>3. f \in [0..n -> Nat]
  BY <1>1 DEF Rooms
<1>. DEFINE T == {j \in 0..m : f[i] <= f[i + j]}
<1>4. 0 \in T
  BY <1>1, <1>2, <1>3
<1>5. ASSUME NEW j \in 0..(m-1), j \in T PROVE j + 1 \in T
  <2>1. PICK k \in 1..n : k = i + j + 1
    BY <1>1, <1>2
  <2>2. entries[k].name \in 1..2
    BY <1>1, NameIs
  <2>3. f[k] = f[k-1] + entries[k].name + 42
    BY <1>1 DEF Rooms
  <2>4. k - 1 = i + j /\ k = i + (j + 1) /\ k - 1 \in 0..n /\ k \in 0..n /\ i \in 0..n
    BY <1>1, <2>1
  <2>5. f[k] \in Nat /\ f[k-1] \in Nat /\ f[i] \in Nat
    BY <1>3, <2>4
  <2>6. f[i] <= f[k-1]
    BY <1>5, <2>4
  <2>7. f[i] <= f[k]
    BY <2>2, <2>3, <2>5, <2>6
  <2>. QED  BY <2>4, <2>7
<1>6. 0..m \subseteq T
  <2>. HIDE DEF T
  <2>. QED  BY <1>4, <1>5, UpTo
<1>7. f[i] <= f[i + m] /\ i + m = n
  <2>1. m \in 0..m
    OBVIOUS
  <2>2. m \in T
    BY <1>6, <2>1
  <2>3. i \in Nat
    BY <1>1
  <2>. QED  BY <1>2, <2>2, <2>3
<1>8. f[i] \in Nat /\ f[n] \in Nat
  <2>1. i \in 0..n /\ n \in 0..n
    BY <1>1
  <2>. QED  BY <1>3, <2>1
<1>. QED  BY <1>1, <1>7, <1>8

-----------------------------------------------------------------------------
(***************************************************************************)
(* The listing at work.  It counts before it writes; as long as nobody has *)
(* added an entry the buffer has the room of them all, and what is written *)
(* fits the room of those it has passed; each line is one of an entry.     *)
(***************************************************************************)
Lines == {[entry |-> i, size |-> FileSize(n)] : i \in Nat, n \in Sizes}

Listing == [pc : {"idle", "count", "fill"}, cap : Nat, used : Nat, at : Nat \ {0},
            lines : Seq(Lines), skipped : SUBSET Nat, grown : BOOLEAN]

InRoom(entries, l) ==
  \E f : Rooms(f, entries) /\ l.cap = f[Len(entries)] /\ l.used <= f[l.at - 1]

LinesSound(entries, l) ==
  \A i \in 1..Len(l.lines) :
    /\ l.lines[i].entry \in 1..Len(entries)
    /\ l.lines[i].size = FileSize(entries[l.lines[i].entry].size)

ListingSound(entries, l) ==
  /\ entries \in Seq(Entry) /\ l \in Listing /\ l.at <= Len(entries) + 1
  /\ l.pc = "idle" => l.lines = <<>>
  /\ l.pc = "count" => l.at = 1 /\ l.used = 0 /\ l.lines = <<>>
  /\ l.pc # "idle" /\ ~l.grown => InRoom(entries, l)
  /\ LinesSound(entries, l)

ListingInv == ListingSound(dir, ls) /\ ListingFits

LEMMA NoListing ==
  ASSUME NEW entries \in Seq(Entry)
  PROVE  ListingSound(entries, Closed)
<1>1. Closed \in Listing
  BY DEF Closed, Listing
<1>2. /\ Closed.pc = "idle" /\ Closed.lines = <<>> /\ Closed.at = 1
      /\ Len(Closed.lines) = 0
  BY DEF Closed
<1>3. LinesSound(entries, Closed)
  BY <1>2 DEF LinesSound
<1>4. Closed.at <= Len(entries) + 1
  BY <1>2
<1>. QED  BY <1>1, <1>2, <1>3, <1>4 DEF ListingSound

LEMMA InitSound == Init => ListingInv
<1>. SUFFICES ASSUME Init PROVE ListingInv
  OBVIOUS
<1>1. dir \in Seq(Entry) /\ dir = <<>> /\ ls = Closed /\ fault = "none"
  BY DEF Init
<1>2. ListingSound(dir, ls)
  BY <1>1, NoListing
<1>. QED  BY <1>1, <1>2 DEF ListingInv, ListingFits

LEMMA ClosedFields ==
  ASSUME NEW c \in Nat
  PROVE  LET l == [Closed EXCEPT !.pc = "count", !.cap = c]
         IN  /\ l \in Listing
             /\ l.pc = "count" /\ l.at = 1 /\ l.used = 0 /\ l.lines = <<>> /\ l.cap = c
             /\ Len(l.lines) = 0
<1>1. Closed \in Listing
  BY DEF Closed, Listing
<1>2. Closed.at = 1 /\ Closed.used = 0 /\ Closed.lines = <<>>
  BY DEF Closed
<1>3. PICK x \in Listing : x = Closed
  BY <1>1
<1>. DEFINE l == [x EXCEPT !.pc = "count", !.cap = c]
<1>4. l \in Listing /\ l.pc = "count" /\ l.cap = c
  BY DEF Listing
<1>5. l.at = x.at /\ l.used = x.used /\ l.lines = x.lines
  BY DEF Listing
<1>6. Len(<<>>) = 0
  OBVIOUS
<1>. QED  BY <1>2, <1>3, <1>4, <1>5, <1>6, Zenon

LEMMA OpendirSound == ListingInv /\ ~Halted /\ Opendir => ListingInv'
<1>. SUFFICES ASSUME ListingInv, ~Halted, Opendir PROVE ListingInv'
  OBVIOUS
<1>1. ListingFits'
  BY DEF Halted, Opendir, ListingFits
<1>2. CASE UNCHANGED <<dir, ls>>
  BY <1>1, <1>2 DEF ListingInv
<1>3. ASSUME NEW n \in 0..MaxEntries, dir' \in [1..n -> Entry],
             ls' = [Closed EXCEPT !.pc = "count", !.cap = BufferSize(dir')]
      PROVE  ListingSound(dir', ls')
  <2>1. n \in Nat
    <3>1. MaxEntries \in Nat
      BY EntriesAssumption
    <3>. QED  BY <3>1
  <2>2. PICK d \in [1..n -> Entry] : d = dir'
    BY <1>3
  <2>3. d \in Seq(Entry)
    BY <2>1
  <2>4. PICK f : Rooms(f, d) /\ BufferSize(d) = f[Len(d)]
    BY <2>3, BufferSizeIs
  <2>5. f[0] = 0 /\ f[Len(d)] \in Nat
    BY <2>3, <2>4 DEF Rooms
  <2>6. PICK c \in Nat : c = BufferSize(d)
    BY <2>4, <2>5
  <2>7. PICK l : l = [Closed EXCEPT !.pc = "count", !.cap = c]
    OBVIOUS
  <2>8. ls' = l
    BY <1>3, <2>2, <2>6, <2>7, Zenon
  <2>9. /\ l \in Listing
        /\ l.pc = "count" /\ l.at = 1 /\ l.used = 0 /\ l.lines = <<>> /\ l.cap = c
        /\ Len(l.lines) = 0
    BY <2>7, ClosedFields, Zenon
  <2>10. InRoom(d, l)
    <3>1. f[l.at - 1] = 0
      BY <2>5, <2>9
    <3>. QED  BY <2>4, <2>6, <2>9, <3>1 DEF InRoom
  <2>11. LinesSound(d, l)
    BY <2>9 DEF LinesSound
  <2>12. l.at <= Len(d) + 1
    BY <2>3, <2>9
  <2>13. ListingSound(d, l)
    BY <2>3, <2>9, <2>10, <2>11, <2>12 DEF ListingSound
  <2>. QED  BY <2>2, <2>8, <2>13
<1>4. (\E n \in 0..MaxEntries :
          /\ dir' \in [1..n -> Entry]
          /\ ls' = [Closed EXCEPT !.pc = "count", !.cap = BufferSize(dir')])
        => ListingSound(dir', ls')
  BY <1>3
<1>5. \/ UNCHANGED <<dir, ls>>
      \/ \E n \in 0..MaxEntries :
          /\ dir' \in [1..n -> Entry]
          /\ ls' = [Closed EXCEPT !.pc = "count", !.cap = BufferSize(dir')]
  BY DEF Opendir
<1>. QED  BY <1>1, <1>2, <1>4, <1>5 DEF ListingInv

LEMMA GrowSound == ListingInv /\ ~Halted /\ Grow => ListingInv'
<1>. SUFFICES ASSUME ListingInv, ~Halted, Grow PROVE ListingInv'
  OBVIOUS
<1>1. ListingFits'
  BY DEF Halted, Grow, ListingFits
<1>2. PICK e \in Entry : dir' = Append(dir, e)
  BY DEF Grow
<1>3. PICK l \in Listing : l = ls
  BY DEF ListingInv, ListingSound
<1>4. PICK d \in Seq(Entry) : d = dir
  BY DEF ListingInv, ListingSound
<1>5. PICK new : new = [l EXCEPT !.grown = TRUE]
  OBVIOUS
<1>6. ls' = new
  BY <1>3, <1>5 DEF Grow
<1>7. /\ new \in Listing /\ new.grown /\ new.pc = l.pc /\ new.at = l.at /\ new.used = l.used
      /\ new.lines = l.lines
  BY <1>5 DEF Listing
<1>8. l.pc = "count"
  BY <1>3 DEF Grow
<1>9. l.at = 1 /\ l.used = 0 /\ l.lines = <<>>
  BY <1>3, <1>8 DEF ListingInv, ListingSound
<1>10. Append(d, e) \in Seq(Entry) /\ Len(Append(d, e)) \in Nat
  BY AppendProperties
<1>11. LinesSound(Append(d, e), new)
  <2>1. Len(new.lines) = 0
    BY <1>7, <1>9
  <2>. QED  BY <2>1 DEF LinesSound
<1>12. new.at <= Len(Append(d, e)) + 1
  BY <1>7, <1>9, <1>10
<1>13. ListingSound(Append(d, e), new)
  BY <1>7, <1>8, <1>9, <1>10, <1>11, <1>12 DEF ListingSound
<1>. QED  BY <1>1, <1>2, <1>4, <1>6, <1>13 DEF ListingInv

LEMMA MallocSound == ListingInv /\ ~Halted /\ Malloc => ListingInv'
<1>. SUFFICES ASSUME ListingInv, ~Halted, Malloc PROVE ListingInv'
  OBVIOUS
<1>1. ListingFits'
  BY DEF Halted, Malloc, ListingFits
<1>2. CASE ls' = Closed /\ dir' = <<>>
  <2>1. <<>> \in Seq(Entry)
    OBVIOUS
  <2>2. ListingSound(<<>>, Closed)
    BY <2>1, NoListing
  <2>. QED  BY <1>1, <1>2, <2>2 DEF ListingInv
<1>3. CASE ls' = [ls EXCEPT !.pc = "fill"] /\ dir' = dir
  <2>1. PICK l \in Listing : l = ls
    BY DEF ListingInv, ListingSound
  <2>2. PICK new : new = [l EXCEPT !.pc = "fill"]
    OBVIOUS
  <2>3. /\ new \in Listing /\ new.grown = l.grown /\ new.pc = "fill" /\ new.at = l.at
        /\ new.used = l.used /\ new.lines = l.lines /\ new.cap = l.cap
    BY <2>2 DEF Listing
  <2>4. l.pc = "count"
    BY <2>1 DEF Malloc
  <2>5. PICK d \in Seq(Entry) : d = dir
    BY DEF ListingInv, ListingSound
  <2>6. ListingSound(d, l)
    BY <2>1, <2>5 DEF ListingInv
  <2>7. ~new.grown => InRoom(d, new)
    BY <2>3, <2>4, <2>6 DEF ListingSound, InRoom
  <2>8. LinesSound(d, new)
    BY <2>3, <2>6 DEF ListingSound, LinesSound
  <2>9. new.at <= Len(d) + 1
    BY <2>3, <2>6 DEF ListingSound
  <2>10. ListingSound(d, new)
    BY <2>3, <2>7, <2>8, <2>9 DEF ListingSound
  <2>. QED  BY <1>1, <1>3, <2>1, <2>2, <2>5, <2>10 DEF ListingInv
<1>4. CASE UNCHANGED <<dir, ls>>
  BY <1>1, <1>4 DEF ListingInv
<1>. QED  BY <1>2, <1>3, <1>4 DEF Malloc

(* A line that is written takes less than the room counted for its entry,  *)
(* by the terminator.                                                      *)
LEMMA LineFits ==
  ASSUME NEW d \in Seq(Entry), NEW l \in Listing, InRoom(d, l), l.at <= Len(d)
  PROVE  /\ l.used + LineSize(d[l.at]) + 1 <= l.cap
         /\ \E f : /\ Rooms(f, d) /\ l.cap = f[Len(d)]
                   /\ l.used <= f[(l.at + 1) - 1]
                   /\ l.used + LineSize(d[l.at]) <= f[(l.at + 1) - 1]
<1>1. PICK f : Rooms(f, d) /\ l.cap = f[Len(d)] /\ l.used <= f[l.at - 1]
  BY DEF InRoom
<1>2. PICK k \in Nat \ {0} : k = l.at
  BY DEF Listing
<1>3. PICK u \in Nat : u = l.used
  BY DEF Listing
<1>4. k \in 1..Len(d) /\ k - 1 \in 0..Len(d) /\ k \in 0..Len(d) /\ (k + 1) - 1 = k
  BY <1>2
<1>5. PICK name \in 1..2 : name = d[k].name
  BY <1>4, NameIs
<1>6. f[k] = f[k-1] + name + 42
  BY <1>1, <1>4, <1>5 DEF Rooms
<1>7. PICK before \in Nat : before = f[k-1]
  BY <1>1, <1>4 DEF Rooms
<1>8. PICK after \in Nat : after = f[k]
  BY <1>1, <1>4 DEF Rooms
<1>9. PICK c \in Nat : c = l.cap
  BY DEF Listing
<1>10. after <= c
  BY <1>1, <1>4, <1>8, <1>9, RoomsGrow
<1>11. u <= before
  BY <1>1, <1>2, <1>3, <1>7
<1>12. LineSize(d[k]) = 41 + name
  BY <1>5 DEF LineSize
<1>13. u + (41 + name) + 1 <= c /\ u <= after /\ u + (41 + name) <= after
  BY <1>6, <1>7, <1>8, <1>10, <1>11, SMTT(30)
<1>14. f[(l.at + 1) - 1] = after
  BY <1>2, <1>4, <1>8
<1>. QED  BY <1>1, <1>2, <1>3, <1>9, <1>12, <1>13, <1>14

LEMMA FillSound == ListingInv /\ ~Halted /\ Fill => ListingInv'
<1>. SUFFICES ASSUME ListingInv, ~Halted, Fill PROVE ListingInv'
  OBVIOUS
<1>1. PICK l \in Listing : l = ls
  BY DEF ListingInv, ListingSound
<1>2. PICK d \in Seq(Entry) : d = dir
  BY DEF ListingInv, ListingSound
<1>3. ListingSound(d, l)
  BY <1>1, <1>2 DEF ListingInv
<1>4. l.pc = "fill" /\ l.at <= Len(d) /\ dir' = d
  BY <1>1, <1>2 DEF Fill
<1>5. PICK k \in Nat \ {0} : k = l.at
  BY DEF Listing
<1>6. k \in 1..Len(d) /\ k + 1 \in Nat \ {0} /\ k + 1 <= Len(d) + 1
  BY <1>4, <1>5
<1>7. CASE ls' = [ls EXCEPT !.at = @ + 1, !.skipped = @ \union {ls.at}] /\ fault' = fault
  <2>1. PICK gone \in SUBSET Nat : gone = l.skipped \union {l.at}
    BY <1>5 DEF Listing
  <2>2. PICK new : new = [l EXCEPT !.at = k + 1, !.skipped = gone]
    OBVIOUS
  <2>3. ls' = new
    BY <1>1, <1>5, <1>7, <2>1, <2>2
  <2>4. /\ new \in Listing /\ new.grown = l.grown /\ new.pc = l.pc /\ new.at = k + 1
        /\ new.used = l.used /\ new.lines = l.lines /\ new.cap = l.cap
    BY <1>6, <2>2 DEF Listing
  <2>5. ~new.grown => InRoom(d, new)
    <3>1. SUFFICES ASSUME ~new.grown PROVE InRoom(d, new)
      OBVIOUS
    <3>2. InRoom(d, l)
      BY <1>3, <1>4, <2>4, <3>1 DEF ListingSound
    <3>3. \E f : /\ Rooms(f, d) /\ l.cap = f[Len(d)] /\ l.used <= f[(l.at + 1) - 1]
      BY <1>4, <3>2, LineFits
    <3>. QED  BY <1>5, <2>4, <3>3 DEF InRoom
  <2>6. LinesSound(d, new)
    BY <1>3, <2>4 DEF ListingSound, LinesSound
  <2>7. ListingSound(d, new)
    BY <1>4, <1>6, <2>4, <2>5, <2>6 DEF ListingSound
  <2>8. ListingFits'
    BY <1>1, <1>7, <2>3, <2>4 DEF Halted, ListingFits
  <2>. QED  BY <1>4, <2>3, <2>7, <2>8 DEF ListingInv
<1>8. CASE LET used == ls.used + LineSize(dir[ls.at])
           IN  used + 1 > ls.cap /\ fault' = "overrun" /\ ls' = ls
  <2>1. l.used + LineSize(d[l.at]) + 1 > l.cap /\ ls' = l
    BY <1>1, <1>2, <1>8
  <2>2. l.grown
    <3>1. SUFFICES ASSUME ~l.grown PROVE FALSE
      OBVIOUS
    <3>2. InRoom(d, l)
      BY <1>3, <1>4, <3>1 DEF ListingSound
    <3>3. l.used + LineSize(d[l.at]) + 1 <= l.cap
      BY <1>4, <3>2, LineFits
    <3>4. PICK name \in 1..2 : name = d[k].name
      BY <1>6, NameIs
    <3>5. l.used \in Nat /\ l.cap \in Nat /\ LineSize(d[l.at]) \in Nat
      BY <1>5, <3>4 DEF Listing, LineSize
    <3>. QED  BY <2>1, <3>3, <3>5
  <2>. QED  BY <1>3, <1>4, <2>1, <2>2 DEF ListingInv, ListingFits
<1>9. CASE LET used == ls.used + LineSize(dir[ls.at])
           IN  /\ ls' = [ls EXCEPT !.at = @ + 1, !.used = used, !.lines = Append(@, Line(ls.at))]
               /\ fault' = fault
  <2>1. PICK name \in 1..2 : name = d[k].name
    BY <1>6, NameIs
  <2>2. PICK u \in Nat : u = l.used + LineSize(d[l.at])
    <3>1. LineSize(d[l.at]) \in Nat
      BY <1>5, <2>1 DEF LineSize
    <3>2. l.used \in Nat
      BY DEF Listing
    <3>. QED  BY <3>1, <3>2
  <2>3. PICK line \in Lines : line = Line(l.at)
    <3>1. d[k].size \in Sizes
      BY <1>6, NameIs
    <3>2. Line(l.at) = [entry |-> k, size |-> FileSize(d[k].size)]
      BY <1>2, <1>5 DEF Line
    <3>. QED  BY <3>1, <3>2 DEF Lines
  <2>4. line.entry = k /\ line.size = FileSize(d[k].size)
    BY <1>2, <1>5, <2>3 DEF Line
  <2>5. PICK lines \in Seq(Lines) : lines = Append(l.lines, line)
    <3>1. l.lines \in Seq(Lines)
      BY DEF Listing
    <3>. QED  BY <3>1, AppendProperties
  <2>6. PICK new : new = [l EXCEPT !.at = k + 1, !.used = u, !.lines = lines]
    OBVIOUS
  <2>7. ls' = new
    BY <1>1, <1>2, <1>5, <1>9, <2>2, <2>3, <2>5, <2>6
  <2>8. /\ new \in Listing /\ new.grown = l.grown /\ new.pc = l.pc /\ new.at = k + 1
        /\ new.used = u /\ new.lines = lines /\ new.cap = l.cap
    BY <1>6, <2>6 DEF Listing
  <2>9. ~new.grown => InRoom(d, new)
    <3>1. SUFFICES ASSUME ~new.grown PROVE InRoom(d, new)
      OBVIOUS
    <3>2. InRoom(d, l)
      BY <1>3, <1>4, <2>8, <3>1 DEF ListingSound
    <3>3. \E f : /\ Rooms(f, d) /\ l.cap = f[Len(d)]
                 /\ l.used + LineSize(d[l.at]) <= f[(l.at + 1) - 1]
      BY <1>4, <3>2, LineFits
    <3>. QED  BY <1>5, <2>2, <2>8, <3>3 DEF InRoom
  <2>10. LinesSound(d, new)
    <3>1. l.lines \in Seq(Lines)
      BY DEF Listing
    <3>2. PICK n \in Nat : n = Len(l.lines)
      BY <3>1
    <3>3. /\ Len(lines) = n + 1 /\ lines[n + 1] = line
          /\ \A i \in 1..n : lines[i] = l.lines[i]
      BY <2>5, <3>1, <3>2, AppendProperties
    <3>4. LinesSound(d, l)
      BY <1>3 DEF ListingSound
    <3>5. ASSUME NEW i \in 1..(n + 1)
          PROVE  lines[i].entry \in 1..Len(d) /\ lines[i].size = FileSize(d[lines[i].entry].size)
      <4>1. CASE i = n + 1
        BY <1>6, <2>4, <3>3, <4>1
      <4>2. CASE i # n + 1
        <5>1. i \in 1..n
          BY <4>2
        <5>. QED  BY <3>2, <3>3, <3>4, <5>1 DEF LinesSound
      <4>. QED  BY <4>1, <4>2
    <3>. QED  BY <2>8, <3>3, <3>5 DEF LinesSound
  <2>11. ListingSound(d, new)
    BY <1>4, <1>6, <2>8, <2>9, <2>10 DEF ListingSound
  <2>12. ListingFits'
    BY <1>1, <1>9, <2>7, <2>8 DEF Halted, ListingFits
  <2>. QED  BY <1>4, <2>7, <2>11, <2>12 DEF ListingInv
<1>. QED  BY <1>7, <1>8, <1>9, Zenon DEF Fill

LEMMA ListedSound == ListingInv /\ ~Halted /\ Listed => ListingInv'
<1>. SUFFICES ASSUME ListingInv, ~Halted, Listed PROVE ListingInv'
  OBVIOUS
<1>1. <<>> \in Seq(Entry)
  OBVIOUS
<1>2. ListingSound(<<>>, Closed)
  BY <1>1, NoListing
<1>. QED  BY <1>2 DEF ListingInv, Listed, ListingFits, Halted

-----------------------------------------------------------------------------
(***************************************************************************)
(* strnumlen(): it counts a digit for each step beyond 10.                 *)
(***************************************************************************)
Long(n) ==
  IF n <= 10 THEN 1 ELSE IF n <= 109 THEN 2 ELSE IF n <= 1099 THEN 3
  ELSE IF n <= 10999 THEN 4 ELSE IF n <= 109999 THEN 5 ELSE IF n <= 1099999 THEN 6
  ELSE IF n <= 10999999 THEN 7 ELSE IF n <= 109999999 THEN 8
  ELSE IF n <= 1099999999 THEN 9 ELSE 10

LEMMA MaxIntIs == MaxInt \in Nat /\ MaxInt < 10000000000
<1>1. PICK a \in Nat : a = 32767 * 65536
  OBVIOUS
<1>2. a > 0 /\ MaxInt = a + 65535
  BY <1>1 DEF MaxInt
<1>3. a + 65535 < 10000000000
  BY <1>1
<1>. QED  BY <1>2, <1>3

LEMMA LongStep ==
  ASSUME NEW n \in Nat, n <= MaxInt, n > 10
  PROVE  /\ n \div 10 \in Nat /\ n \div 10 <= n
         /\ Long(n) = 1 + Long(n \div 10)
<1>1. PICK m \in Nat : m = n \div 10
  OBVIOUS
<1>2. 10 * m <= n /\ n < 10 * m + 10
  BY <1>1
<1>3. Long(n) = 1 + Long(m)
  BY <1>2 DEF Long, MaxInt
<1>. QED  BY <1>1, <1>2, <1>3

LEMMA LengthIs ==
  ASSUME NEW n \in 0..MaxInt
  PROVE  Length[n] = Long(n)
<1>. DEFINE Body(f) == [i \in 0..MaxInt |-> IF i > 10 THEN 1 + f[i \div 10] ELSE 1]
<1>. DEFINE g == [i \in 0..MaxInt |-> Long(i)]
<1>1. MaxInt \in Nat
  BY MaxIntIs
<1>2. \A i \in 0..MaxInt : i \in Nat /\ i <= MaxInt
  BY <1>1
<1>3. \A i \in 0..MaxInt : i > 10 => i \div 10 \in 0..MaxInt /\ Long(i) = 1 + Long(i \div 10)
  BY <1>1, <1>2, LongStep
<1>4. \A i \in 0..MaxInt : ~(i > 10) => Long(i) = 1
  BY <1>1 DEF Long
<1>5. g = Body(g)
  BY <1>3, <1>4
<1>6. Length = Body(Length)
  <2>1. Length = CHOOSE f : f = Body(f)
    BY DEF Length
  <2>. HIDE DEF Body, g
  <2>. QED  BY <1>5, <2>1
<1>7. \A i \in 0..MaxInt : Length[i] = IF i > 10 THEN 1 + Length[i \div 10] ELSE 1
  BY <1>6
<1>. DEFINE T == {k \in 0..10 : \A i \in 0..MaxInt : Long(i) <= k => Length[i] = Long(i)}
<1>8. \A i \in 0..MaxInt : Long(i) \in 1..10
  BY DEF Long
<1>9. 0 \in T
  BY <1>8
<1>10. ASSUME NEW k \in 0..9, k \in T PROVE k + 1 \in T
  <2>1. ASSUME NEW i \in 0..MaxInt, Long(i) <= k + 1 PROVE Length[i] = Long(i)
    <3>1. CASE i > 10
      <4>1. PICK j \in 0..MaxInt : j = i \div 10
        BY <1>3, <3>1
      <4>2. Long(i) = 1 + Long(j) /\ Length[i] = 1 + Length[j]
        BY <1>3, <1>7, <3>1, <4>1
      <4>3. Long(j) <= k
        BY <1>8, <2>1, <4>2
      <4>4. Length[j] = Long(j)
        BY <1>10, <4>3
      <4>. QED  BY <4>2, <4>4
    <3>2. CASE ~(i > 10)
      BY <1>4, <1>7, <3>2
    <3>. QED  BY <3>1, <3>2
  <2>2. k + 1 \in 0..10
    OBVIOUS
  <2>. QED  BY <2>1, <2>2
<1>11. 0..10 \subseteq T
  <2>. HIDE DEF T
  <2>1. \A k \in 0..(10-1) : k \in T => k + 1 \in T
    BY <1>10
  <2>2. 10 \in Nat
    OBVIOUS
  <2>. QED  BY <1>9, <2>1, <2>2, UpTo
<1>12. 10 \in T
  <2>. HIDE DEF T
  <2>. QED  BY <1>11
<1>. QED  BY <1>8, <1>12

LEMMA WidthIs ==
  ASSUME NEW n \in 0..MaxInt
  PROVE  /\ n \in Nat /\ n <= MaxInt /\ Long(n) \in 1..10
         /\ Width(n) = IF n = 0 THEN 2 ELSE IF Long(n) > 3 THEN Long(n) + Long(n) \div 3
                                            ELSE Long(n)
         /\ Width(n) \in 1..13
<1>1. n \in Nat /\ n <= MaxInt
  <2>1. MaxInt \in Nat
    BY MaxIntIs
  <2>. QED  BY <2>1
<1>2. Long(n) \in 1..10 /\ (n = 0 => Long(n) = 1)
  BY <1>1 DEF Long
<1>3. Length[n] = Long(n)
  BY LengthIs
<1>4. Width(n) = IF n > 0 THEN IF Long(n) > 3 THEN Long(n) + Long(n) \div 3 ELSE Long(n)
                 ELSE (IF Long(n) > 3 THEN Long(n) + Long(n) \div 3 ELSE Long(n)) + 1
  BY <1>3 DEF Width
<1>5. PICK d \in 1..10 : d = Long(n)
  BY <1>2
<1>. QED  BY <1>1, <1>2, <1>4, <1>5

-----------------------------------------------------------------------------
(***************************************************************************)
(* The digits of a size and where format_filesize() puts them.             *)
(***************************************************************************)
TenTo(k) ==
  IF k = 0 THEN 1 ELSE IF k = 1 THEN 10 ELSE IF k = 2 THEN 100 ELSE IF k = 3 THEN 1000
  ELSE IF k = 4 THEN 10000 ELSE IF k = 5 THEN 100000 ELSE IF k = 6 THEN 1000000
  ELSE IF k = 7 THEN 10000000 ELSE IF k = 8 THEN 100000000
  ELSE IF k = 9 THEN 1000000000 ELSE 10000000000

LEMMA PowerIs == \A k \in 0..9 : Power[k] = TenTo(k)
<1>. DEFINE Body(f) == [k \in 0..9 |-> IF k = 0 THEN 1 ELSE 10 * f[k - 1]]
            g == [k \in 0..9 |-> TenTo(k)]
<1>1. TenTo(0) = 1 /\ \A k \in 1..9 : k - 1 \in 0..9 /\ TenTo(k) = 10 * TenTo(k - 1)
  BY DEF TenTo
<1>2. \A k \in 0..9 : k # 0 => k \in 1..9
  OBVIOUS
<1>3. g = Body(g)
  BY <1>1, <1>2
<1>4. Power = Body(Power)
  <2>1. Power = CHOOSE f : f = Body(f)
    BY DEF Power
  <2>. HIDE DEF Body, g
  <2>. QED  BY <1>3, <2>1
<1>5. Power[0] = 1 /\ \A k \in 1..9 : Power[k] = 10 * Power[k-1]
  BY <1>4
<1>. DEFINE T == {k \in 0..9 : Power[k] = TenTo(k)}
<1>6. 0 \in T
  BY <1>1, <1>5
<1>7. ASSUME NEW k \in 0..8, k \in T PROVE k + 1 \in T
  <2>1. k + 1 \in 1..9 /\ (k + 1) - 1 = k /\ k + 1 \in 0..9
    OBVIOUS
  <2>2. Power[k + 1] = 10 * Power[k] /\ TenTo(k + 1) = 10 * TenTo(k)
    BY <1>1, <1>5, <2>1
  <2>. QED  BY <1>7, <2>1, <2>2
<1>8. 0..9 \subseteq T
  <2>. HIDE DEF T
  <2>1. 9 \in Nat /\ \A k \in 0..(9-1) : k \in T => k + 1 \in T
    BY <1>7
  <2>. QED  BY <1>6, <2>1, UpTo
<1>. QED  BY <1>8

(* What is left of a size when k digits have been taken from it.           *)
Rest(n, k) == n \div TenTo(k)

LEMMA RestStep ==
  ASSUME NEW n \in Nat, NEW k \in 0..9
  PROVE  Rest(n, k) \in Nat /\ Rest(n, k) \div 10 = Rest(n, k + 1)
<1>1. Rest(n, k) \in Nat
  BY DEF Rest, TenTo
<1>2. CASE k = 0 BY <1>2 DEF Rest, TenTo
<1>3. CASE k = 1 BY <1>3 DEF Rest, TenTo
<1>4. CASE k = 2 BY <1>4 DEF Rest, TenTo
<1>5. CASE k = 3 BY <1>5 DEF Rest, TenTo
<1>6. CASE k = 4 BY <1>6 DEF Rest, TenTo
<1>7. CASE k = 5 BY <1>7 DEF Rest, TenTo
<1>8. CASE k = 6 BY <1>8 DEF Rest, TenTo
<1>9. CASE k = 7 BY <1>9 DEF Rest, TenTo
<1>10. CASE k = 8 BY <1>10 DEF Rest, TenTo
<1>11. CASE k = 9 BY <1>11 DEF Rest, TenTo
<1>12. k \in {0, 1, 2, 3, 4, 5, 6, 7, 8, 9}
  OBVIOUS
<1>. QED  BY <1>1, <1>2, <1>3, <1>4, <1>5, <1>6, <1>7, <1>8, <1>9, <1>10, <1>11, <1>12

Cell == [text : Seq(0..Letter), rest : Nat, count : Nat]

LEMMA Prefixed ==
  ASSUME NEW S, NEW s \in Seq(S), NEW x \in S
  PROVE  /\ <<x>> \o s \in Seq(S) /\ Len(<<x>> \o s) = Len(s) + 1
         /\ (<<x>> \o s)[1] = x
         /\ \A i \in 2..(Len(s) + 1) : (<<x>> \o s)[i] = s[i-1]
<1>1. PICK one \in Seq(S) : one = <<x>>
  <2>1. <<x>> \in Seq(S)
    OBVIOUS
  <2>. QED  BY <2>1
<1>2. Len(one) = 1 /\ one[1] = x
  BY <1>1
<1>3. PICK n \in Nat : n = Len(s)
  OBVIOUS
<1>4. /\ one \o s \in Seq(S) /\ Len(one \o s) = 1 + n
      /\ \A i \in 1..(1 + n) : (one \o s)[i] = IF i <= 1 THEN one[i] ELSE s[i-1]
  <2>1. /\ one \o s \in Seq(S) /\ Len(one \o s) = Len(one) + Len(s)
        /\ \A i \in 1..(Len(one) + Len(s)) :
             (one \o s)[i] = IF i <= Len(one) THEN one[i] ELSE s[i - Len(one)]
    BY ConcatProperties
  <2>. QED  BY <1>2, <1>3, <2>1
<1>5. 1 \in 1..(1 + n) /\ \A i \in 2..(n + 1) : i \in 1..(1 + n) /\ ~(i <= 1)
  BY <1>3
<1>. QED  BY <1>1, <1>2, <1>3, <1>4, <1>5

LEMMA ColumnIs ==
  ASSUME NEW c \in Cell
  PROVE  /\ Column(c) \in Cell
         /\ c.count = 3 => /\ Column(c).count = 0 /\ Column(c).rest = c.rest
                           /\ Column(c).text = <<Comma>> \o c.text
         /\ c.count # 3 => /\ Column(c).count = c.count + 1 /\ Column(c).rest = c.rest \div 10
                           /\ Column(c).text = <<c.rest % 10>> \o c.text
<1>1. PICK text \in Seq(0..Letter) : text = c.text
  BY DEF Cell
<1>2. PICK rest \in Nat : rest = c.rest
  BY DEF Cell
<1>3. PICK count \in Nat : count = c.count
  BY DEF Cell
<1>4. Comma \in 0..Letter /\ rest % 10 \in 0..Letter
  BY <1>2 DEF Comma, Letter
<1>5. CASE c.count = 3
  <2>1. PICK t \in Seq(0..Letter) : t = <<Comma>> \o text
    BY <1>4, Prefixed
  <2>2. PICK new \in Cell : new = [c EXCEPT !.text = t, !.count = 0]
    BY DEF Cell
  <2>3. Column(c) = new
    BY <1>1, <1>5, <2>1, <2>2 DEF Column
  <2>4. new.count = 0 /\ new.rest = c.rest /\ new.text = t
    BY <2>2 DEF Cell
  <2>. QED  BY <1>1, <1>5, <2>1, <2>3, <2>4
<1>6. CASE c.count # 3
  <2>1. PICK t \in Seq(0..Letter) : t = <<rest % 10>> \o text
    BY <1>4, Prefixed
  <2>2. PICK r \in Nat : r = rest \div 10
    BY <1>2
  <2>3. PICK new \in Cell : new = [text |-> t, rest |-> r, count |-> count + 1]
    <3>1. [text |-> t, rest |-> r, count |-> count + 1] \in Cell
      BY DEF Cell
    <3>. QED  BY <3>1
  <2>4. Column(c) = new
    BY <1>1, <1>2, <1>3, <1>6, <2>1, <2>2, <2>3 DEF Column
  <2>5. new.count = count + 1 /\ new.rest = r /\ new.text = t
    BY <2>3
  <2>. QED  BY <1>1, <1>2, <1>3, <1>6, <2>1, <2>2, <2>4, <2>5
<1>. QED  BY <1>5, <1>6

(* What the loop puts into column q from the right.                        *)
InColumn(n, q) == IF q % 4 = 3 THEN Comma ELSE Rest(n, q - q \div 4) % 10

(* The state of format_filesize() after p columns.                         *)
AfterColumns(c, n, p) ==
  /\ c \in Cell /\ c.count = p % 4 /\ c.rest = Rest(n, p - p \div 4)
  /\ Len(c.text) = p /\ \A i \in 1..p : c.text[i] = InColumn(n, p - i)

LEMMA ColumnStep ==
  ASSUME NEW n \in Nat, NEW p \in 0..12, NEW c, AfterColumns(c, n, p)
  PROVE  AfterColumns(Column(c), n, p + 1)
<1>1. PICK d \in Cell : d = Column(c)
  BY ColumnIs DEF AfterColumns
<1>2. PICK text \in Seq(0..Letter) : text = c.text
  BY DEF AfterColumns, Cell
<1>3. PICK k \in 0..9 : k = p - p \div 4
  OBVIOUS
<1>4. PICK rest \in Nat : rest = Rest(n, k) /\ rest \div 10 = Rest(n, k + 1)
  BY RestStep
<1>5. /\ Len(text) = p /\ c.count = p % 4 /\ c.rest = rest
      /\ \A i \in 1..p : text[i] = InColumn(n, p - i)
  BY <1>2, <1>3, <1>4 DEF AfterColumns
<1>6. PICK x \in 0..Letter : x = InColumn(n, p)
  <2>1. rest % 10 \in 0..Letter /\ Comma \in 0..Letter
    BY DEF Letter, Comma
  <2>. QED  BY <1>3, <1>4, <2>1 DEF InColumn
<1>7. d.text = <<x>> \o text /\ d.count = (p + 1) % 4 /\ d.rest = Rest(n, (p + 1) - (p + 1) \div 4)
  <2>1. CASE p % 4 = 3
    <3>1. x = Comma
      BY <1>6, <2>1 DEF InColumn
    <3>2. d.count = 0 /\ d.rest = rest /\ d.text = <<Comma>> \o text
      BY <1>1, <1>2, <1>5, <2>1, ColumnIs DEF AfterColumns
    <3>3. (p + 1) % 4 = 0 /\ (p + 1) - (p + 1) \div 4 = k
      BY <1>3, <2>1
    <3>. QED  BY <1>4, <3>1, <3>2, <3>3
  <2>2. CASE p % 4 # 3
    <3>1. x = rest % 10
      BY <1>3, <1>4, <1>6, <2>2 DEF InColumn
    <3>2. d.count = (p % 4) + 1 /\ d.rest = rest \div 10 /\ d.text = <<rest % 10>> \o text
      BY <1>1, <1>2, <1>5, <2>2, ColumnIs DEF AfterColumns
    <3>3. (p + 1) % 4 = (p % 4) + 1 /\ (p + 1) - (p + 1) \div 4 = k + 1
      BY <1>3, <2>2
    <3>. QED  BY <1>4, <3>1, <3>2, <3>3
  <2>. QED  BY <2>1, <2>2
<1>8. /\ Len(d.text) = p + 1 /\ d.text[1] = x
      /\ \A i \in 2..(p + 1) : d.text[i] = text[i-1]
  <2>1. /\ Len(<<x>> \o text) = Len(text) + 1 /\ (<<x>> \o text)[1] = x
        /\ \A i \in 2..(Len(text) + 1) : (<<x>> \o text)[i] = text[i-1]
    BY Prefixed
  <2>. QED  BY <1>5, <1>7, <2>1
<1>9. ASSUME NEW i \in 1..(p + 1) PROVE d.text[i] = InColumn(n, (p + 1) - i)
  <2>1. CASE i = 1
    BY <1>6, <1>8, <2>1
  <2>2. CASE i # 1
    <3>1. i \in 2..(p + 1) /\ i - 1 \in 1..p /\ p - (i - 1) = (p + 1) - i
      BY <2>2
    <3>. QED  BY <1>5, <1>8, <3>1
  <2>. QED  BY <2>1, <2>2
<1>. QED  BY <1>1, <1>7, <1>8, <1>9 DEF AfterColumns

LEMMA FileSizeIs ==
  ASSUME NEW n \in 0..MaxInt
  PROVE  /\ FileSize(n) \in Seq(0..Letter) /\ Len(FileSize(n)) = 14
         /\ \A i \in 1..14 :
              FileSize(n)[i] = IF 14 - i < Width(n) THEN InColumn(n, 14 - i) ELSE Blank
<1>1. PICK w \in 1..13 : w = Width(n)
  BY WidthIs
<1>2. (IF Width(n) > 14 THEN 14 ELSE Width(n)) = w
  BY <1>1
<1>. DEFINE first == [text |-> <<>>, rest |-> n, count |-> 0]
            Body(f) == [p \in 0..w |-> IF p = 0 THEN first ELSE Column(f[p - 1])]
            Cols == CHOOSE f : f = Body(f)
            blanks == [i \in 1..(14 - w) |-> Blank]
            F == [p \in 1..w |-> [c \in Cell |-> Column(c)]]
<1>3. n \in Nat /\ w \in Nat
  BY WidthIs
<1>4. first \in Cell
  BY <1>3 DEF Cell
<1>5. F \in [1..w -> [Cell -> Cell]]
  BY ColumnIs
<1>6. PICK f : Runs(f, w, Cell, first, F)
  <2>. HIDE DEF first, F
  <2>. QED  BY <1>3, <1>4, <1>5, LoopRuns
<1>7. f \in [0..w -> Cell] /\ f[0] = first /\ \A p \in 1..w : f[p] = Column(f[p-1])
  <2>. HIDE DEF first
  <2>1. f \in [0..w -> Cell] /\ f[0] = first /\ \A p \in 1..w : f[p] = F[p][f[p-1]]
    BY <1>6 DEF Runs
  <2>2. \A p \in 1..w : p - 1 \in 0..w /\ f[p-1] \in Cell
    BY <1>3, <2>1
  <2>. QED  BY <2>1, <2>2
<1>8. f = Body(f)
  <2>. HIDE DEF first
  <2>. QED  BY <1>3, <1>7
<1>9. Cols = Body(Cols)
  <2>. HIDE DEF Body
  <2>. QED  BY <1>8
<1>10. Cols[0] = first /\ \A p \in 1..w : Cols[p] = Column(Cols[p-1])
  <2>. HIDE DEF Cols, first
  <2>1. 0 \in 0..w /\ \A p \in 1..w : p \in 0..w /\ p # 0
    BY <1>3
  <2>. QED  BY <1>9, <2>1
<1>11. FileSize(n) = blanks \o Cols[w].text
  BY <1>1, <1>2 DEF FileSize
<1>12. AfterColumns(Cols[w], n, w)
  <2>. DEFINE T == {p \in 0..w : AfterColumns(Cols[p], n, p)}
  <2>. HIDE DEF Cols
  <2>1. 0 \in T
    <3>1. first.count = 0 % 4 /\ first.rest = Rest(n, 0 - 0 \div 4) /\ Len(first.text) = 0
      BY <1>3 DEF Rest, TenTo
    <3>. QED  BY <1>3, <1>4, <1>10, <3>1 DEF AfterColumns
  <2>2. ASSUME NEW p \in 0..(w-1), p \in T PROVE p + 1 \in T
    <3>1. p \in 0..12 /\ p + 1 \in 1..w /\ (p + 1) - 1 = p /\ p + 1 \in 0..w
      BY <1>1
    <3>2. AfterColumns(Column(Cols[p]), n, p + 1)
      BY <1>3, <2>2, <3>1, ColumnStep
    <3>. QED  BY <1>10, <3>1, <3>2
  <2>3. 0..w \subseteq T
    <3>. HIDE DEF T
    <3>. QED  BY <1>3, <2>1, <2>2, UpTo
  <2>4. w \in 0..w
    BY <1>3
  <2>. QED  BY <2>3, <2>4
<1>13. PICK text \in Seq(0..Letter) : text = Cols[w].text
  BY <1>12 DEF AfterColumns, Cell
<1>14. Len(text) = w /\ \A i \in 1..w : text[i] = InColumn(n, w - i)
  BY <1>12, <1>13 DEF AfterColumns
<1>15. PICK m \in Nat : m = 14 - w
  BY <1>1
<1>16. PICK b \in Seq(0..Letter) : b = blanks
  <2>1. [i \in 1..m |-> Blank] \in Seq(0..Letter)
    BY DEF Blank, Letter
  <2>. QED  BY <1>15, <2>1
<1>17. Len(b) = m /\ \A i \in 1..m : b[i] = Blank
  BY <1>15, <1>16
<1>18. PICK all \in Seq(0..Letter) : all = b \o text
  BY ConcatProperties
<1>19. Len(all) = m + w /\ \A i \in 1..(m + w) : all[i] = IF i <= m THEN b[i] ELSE text[i-m]
  BY <1>14, <1>17, <1>18, ConcatProperties
<1>20. m + w = 14
  BY <1>15, <1>3
<1>21. ASSUME NEW i \in 1..14
       PROVE  all[i] = IF 14 - i < w THEN InColumn(n, 14 - i) ELSE Blank
  <2>1. CASE i <= m
    <3>1. ~(14 - i < w) /\ i \in 1..m
      BY <1>20, <2>1
    <3>. QED  BY <1>17, <1>19, <1>20, <2>1, <3>1
  <2>2. CASE ~(i <= m)
    <3>1. 14 - i < w /\ i - m \in 1..w /\ w - (i - m) = 14 - i
      BY <1>20, <2>2
    <3>. QED  BY <1>14, <1>19, <1>20, <2>2, <3>1
  <2>. QED  BY <2>1, <2>2
<1>22. FileSize(n) = all
  <2>. HIDE DEF Cols, blanks
  <2>. QED  BY <1>11, <1>13, <1>16, <1>18
<1>. QED  BY <1>1, <1>18, <1>19, <1>20, <1>21, <1>22

LEMMA DigitAtIs ==
  ASSUME NEW n \in Nat, NEW k \in 0..9
  PROVE  DigitAt(n, k) = IF k > 0 /\ n < TenTo(k) THEN Blank ELSE Rest(n, k) % 10
<1>1. Power[k] = TenTo(k) /\ ~(k > 9)
  BY PowerIs
<1>. QED  BY <1>1 DEF DigitAt, Rest

(***************************************************************************)
(* The sizes strnumlen() is right about: those it counts all digits of.    *)
(***************************************************************************)
Counts(n) == n # 0 /\ ~BeginsWith10(n) /\ ~HasDigits(n, 6) /\ ~HasDigits(n, 9)

LEMMA DigitsCounted ==
  ASSUME NEW n \in 0..MaxInt, n # 0, ~BeginsWith10(n)
  PROVE  TenTo(Long(n) - 1) <= n /\ n < TenTo(Long(n))
<1>1. n \in Nat /\ n <= MaxInt /\ n # 0
  BY WidthIs
<1>2. ASSUME NEW k \in 0..8 PROVE n \div TenTo(k) # 10
  <2>1. Power[k] = TenTo(k)
    BY PowerIs
  <2>. QED  BY <2>1 DEF BeginsWith10
<1>3. Long(n) \in 1..10
  BY WidthIs
<1>4. CASE Long(n) = 1
  <2>1. n \div TenTo(0) # 10
    BY <1>2
  <2>. QED  BY <1>1, <1>4, <2>1 DEF Long, TenTo
<1>5. CASE Long(n) = 2
  <2>1. n \div TenTo(1) # 10 /\ n \div TenTo(0) # 10
    BY <1>2
  <2>. QED  BY <1>1, <1>5, <2>1 DEF Long, TenTo
<1>6. CASE Long(n) = 3
  <2>1. n \div TenTo(2) # 10 /\ n \div TenTo(1) # 10
    BY <1>2
  <2>. QED  BY <1>1, <1>6, <2>1 DEF Long, TenTo
<1>7. CASE Long(n) = 4
  <2>1. n \div TenTo(3) # 10 /\ n \div TenTo(2) # 10
    BY <1>2
  <2>. QED  BY <1>1, <1>7, <2>1 DEF Long, TenTo
<1>8. CASE Long(n) = 5
  <2>1. n \div TenTo(4) # 10 /\ n \div TenTo(3) # 10
    BY <1>2
  <2>. QED  BY <1>1, <1>8, <2>1 DEF Long, TenTo
<1>9. CASE Long(n) = 6
  <2>1. n \div TenTo(5) # 10 /\ n \div TenTo(4) # 10
    BY <1>2
  <2>. QED  BY <1>1, <1>9, <2>1 DEF Long, TenTo
<1>10. CASE Long(n) = 7
  <2>1. n \div TenTo(6) # 10 /\ n \div TenTo(5) # 10
    BY <1>2
  <2>. QED  BY <1>1, <1>10, <2>1 DEF Long, TenTo
<1>11. CASE Long(n) = 8
  <2>1. n \div TenTo(7) # 10 /\ n \div TenTo(6) # 10
    BY <1>2
  <2>. QED  BY <1>1, <1>11, <2>1 DEF Long, TenTo
<1>12. CASE Long(n) = 9
  <2>1. n \div TenTo(8) # 10 /\ n \div TenTo(7) # 10
    BY <1>2
  <2>. QED  BY <1>1, <1>12, <2>1 DEF Long, TenTo
<1>13. CASE Long(n) = 10
  <2>1. TenTo(Long(n) - 1) <= n
    BY <1>1, <1>13 DEF Long, TenTo
  <2>2. n < TenTo(Long(n))
    BY <1>1, <1>13, MaxIntIs DEF TenTo
  <2>. QED  BY <1>13, <2>1, <2>2
<1>. QED  BY <1>3, <1>4, <1>5, <1>6, <1>7, <1>8, <1>9, <1>10, <1>11, <1>12, <1>13

(* Then exactly the columns of its digits and of their commas are shown.   *)
LEMMA ShownColumns ==
  ASSUME NEW n \in 0..MaxInt, Counts(n), NEW q \in 0..13
  PROVE  q < Width(n) <=> LET k == q - q \div 4 IN k <= 9 /\ (k = 0 \/ TenTo(k) <= n)
<1>1. n \in Nat /\ n # 0
  BY WidthIs DEF Counts
<1>2. PICK d \in {1, 2, 3, 4, 5, 7, 8, 10} : d = Long(n) /\ TenTo(d - 1) <= n /\ n < TenTo(d)
  <2>1. PICK d \in 1..10 : d = Long(n)
    BY WidthIs
  <2>2. TenTo(d - 1) <= n /\ n < TenTo(d)
    BY <2>1, DigitsCounted DEF Counts
  <2>3. d # 6 /\ d # 9
    <3>1. /\ 6 - 1 \in 0..9 /\ 6 \in 0..9 /\ 9 - 1 \in 0..9 /\ 9 \in 0..9
      OBVIOUS
    <3>2. Power[6] = TenTo(6) /\ Power[6 - 1] = TenTo(6 - 1) /\ Power[9] = TenTo(9)
          /\ Power[9 - 1] = TenTo(9 - 1)
      BY <3>1, PowerIs
    <3>. QED  BY <2>2, <3>2 DEF Counts, HasDigits
  <2>. QED  BY <2>1, <2>2, <2>3
<1>3. TenTo(d - 1) <= n /\ n < TenTo(d)
  BY <1>2
<1>4. Width(n) = IF d > 3 THEN d + d \div 3 ELSE d
  BY <1>1, <1>2, WidthIs
<1>5. PICK k \in 0..10 : k = q - q \div 4
  OBVIOUS
<1>6. q < Width(n) <=> k < d

  <2>1. CASE d = 1 BY <1>4, <1>5, <2>1
  <2>2. CASE d = 2 BY <1>4, <1>5, <2>2
  <2>3. CASE d = 3 BY <1>4, <1>5, <2>3
  <2>4. CASE d = 4 BY <1>4, <1>5, <2>4
  <2>5. CASE d = 5 BY <1>4, <1>5, <2>5
  <2>6. CASE d = 7 BY <1>4, <1>5, <2>6
  <2>7. CASE d = 8 BY <1>4, <1>5, <2>7
  <2>8. CASE d = 10 BY <1>4, <1>5, <2>8
  <2>. QED  BY <1>2, <2>1, <2>2, <2>3, <2>4, <2>5, <2>6, <2>7, <2>8
<1>7. \A j \in 0..10 : TenTo(j) \in Nat /\ \A i \in 0..j : TenTo(i) <= TenTo(j)
  BY DEF TenTo
<1>8. k < d => k <= 9 /\ TenTo(k) <= n
  <2>1. SUFFICES ASSUME k < d PROVE k <= 9 /\ TenTo(k) <= n
    OBVIOUS
  <2>2. k \in 0..(d - 1) /\ d - 1 \in 0..10 /\ k <= 9 /\ k \in 0..10
    BY <2>1
  <2>3. PICK a \in Nat : a = TenTo(k)
    BY <1>7, <2>2
  <2>4. PICK b \in Nat : b = TenTo(d - 1)
    BY <1>7, <2>2
  <2>5. a <= b
    BY <1>7, <2>2, <2>3, <2>4
  <2>. QED  BY <1>1, <1>3, <2>2, <2>3, <2>4, <2>5
<1>9. ~(k < d) => k # 0 /\ ~(TenTo(k) <= n)
  <2>1. SUFFICES ASSUME ~(k < d) PROVE k # 0 /\ ~(TenTo(k) <= n)
    OBVIOUS
  <2>2. d \in 0..k /\ k # 0 /\ d \in 0..10
    BY <2>1
  <2>3. PICK a \in Nat : a = TenTo(k)
    BY <1>7
  <2>4. PICK b \in Nat : b = TenTo(d)
    BY <1>7, <2>2
  <2>5. b <= a
    BY <1>7, <2>2, <2>3, <2>4
  <2>. QED  BY <1>1, <1>3, <2>2, <2>3, <2>4, <2>5
<1>. QED  BY <1>5, <1>6, <1>8, <1>9

LEMMA CountedSizeShown ==
  ASSUME NEW n \in 0..MaxInt, Counts(n)
  PROVE  FileSize(n) = Shown(n)
<1>1. n \in Nat
  BY WidthIs
<1>2. ASSUME NEW q \in 0..13
      PROVE  ColumnOf(n, q) = IF q < Width(n) THEN InColumn(n, q) ELSE Blank
  <2>1. PICK k \in 0..10 : k = q - q \div 4
    OBVIOUS
  <2>2. q < Width(n) <=> k <= 9 /\ (k = 0 \/ TenTo(k) <= n)
    BY <2>1, ShownColumns
  <2>3. TenTo(k) \in Nat /\ (k > 0 <=> k # 0)
    BY DEF TenTo
  <2>4. CASE q < Width(n)
    <3>1. DigitAt(n, k) = Rest(n, k) % 10
      BY <1>1, <2>2, <2>3, <2>4, DigitAtIs
    <3>2. DigitAt(n, k) # Blank
      <4>1. Rest(n, k) \in Nat
        <5>1. k \in 0..9
          BY <2>2, <2>4
        <5>. QED  BY <1>1, <5>1, RestStep
      <4>. QED  BY <3>1, <4>1 DEF Blank
    <3>. QED  BY <2>1, <2>4, <3>1, <3>2 DEF ColumnOf, InColumn
  <2>5. CASE ~(q < Width(n))
    <3>1. DigitAt(n, k) = Blank
      <4>1. CASE k <= 9
        BY <1>1, <2>2, <2>3, <2>5, <4>1, DigitAtIs
      <4>2. CASE k > 9
        BY <4>2 DEF DigitAt
      <4>. QED  BY <4>1, <4>2
    <3>. QED  BY <2>1, <2>5, <3>1 DEF ColumnOf
  <2>. QED  BY <2>4, <2>5
<1>3. PICK s \in Seq(0..Letter) : s = FileSize(n)
  BY FileSizeIs
<1>4. Len(s) = 14
  BY <1>3, FileSizeIs
<1>5. ASSUME NEW i \in 1..14 PROVE s[i] = ColumnOf(n, 14 - i)
  <2>1. 14 - i \in 0..13
    OBVIOUS
  <2>2. s[i] = IF 14 - i < Width(n) THEN InColumn(n, 14 - i) ELSE Blank
    BY <1>3, FileSizeIs
  <2>. QED  BY <1>2, <2>1, <2>2
<1>6. s = [i \in 1..14 |-> s[i]]
  BY <1>4
<1>7. s = [i \in 1..14 |-> ColumnOf(n, 14 - i)]
  BY <1>5, <1>6
<1>. QED  BY <1>3, <1>7 DEF Shown

(* Of a number that begins with 10 all digits are counted but the first.   *)
LEMMA FirstMissed ==
  ASSUME NEW n \in 0..MaxInt, BeginsWith10(n)
  PROVE  Long(n) \in 1..9 /\ TenTo(Long(n)) <= n /\ n < 2 * TenTo(Long(n))
<1>1. n \in Nat /\ n <= MaxInt
  BY WidthIs
<1>2. PICK k \in 0..8 : n \div TenTo(k) = 10
  <2>1. PICK k \in 0..8 : n \div Power[k] = 10
    BY DEF BeginsWith10
  <2>2. Power[k] = TenTo(k)
    BY PowerIs
  <2>. QED  BY <2>1, <2>2
<1>3. CASE k = 0 BY <1>1, <1>2, <1>3 DEF Long, TenTo
<1>4. CASE k = 1 BY <1>1, <1>2, <1>4 DEF Long, TenTo
<1>5. CASE k = 2 BY <1>1, <1>2, <1>5 DEF Long, TenTo
<1>6. CASE k = 3 BY <1>1, <1>2, <1>6 DEF Long, TenTo
<1>7. CASE k = 4 BY <1>1, <1>2, <1>7 DEF Long, TenTo
<1>8. CASE k = 5 BY <1>1, <1>2, <1>8 DEF Long, TenTo
<1>9. CASE k = 6 BY <1>1, <1>2, <1>9 DEF Long, TenTo
<1>10. CASE k = 7 BY <1>1, <1>2, <1>10 DEF Long, TenTo
<1>11. CASE k = 8 BY <1>1, <1>2, <1>11 DEF Long, TenTo
<1>12. k \in {0, 1, 2, 3, 4, 5, 6, 7, 8}
  OBVIOUS
<1>. QED  BY <1>3, <1>4, <1>5, <1>6, <1>7, <1>8, <1>9, <1>10, <1>11, <1>12

LEMMA TenToGrows ==
  ASSUME NEW j \in 0..10, NEW i \in 0..10, i < j
  PROVE  TenTo(i) \in Nat /\ TenTo(j) \in Nat /\ 0 < TenTo(i) /\ 10 * TenTo(i) <= TenTo(j)
BY DEF TenTo

(* The digits strnumlen() counts.                                          *)
DigitsKept(n) == IF n = 0 THEN 2 ELSE Long(n)

LEMMA KeptIs ==
  ASSUME NEW n \in 0..MaxInt, NEW k \in 0..10
  PROVE  Kept(n, k) = IF k < DigitsKept(n) THEN Rest(n, k) % 10 ELSE Blank
<1>1. n \in Nat
  BY WidthIs
<1>2. k = 10 => DigitAt(n, k) = Blank
  BY DEF DigitAt
<1>3. k <= 9 => DigitAt(n, k) = IF k > 0 /\ n < TenTo(k) THEN Blank ELSE Rest(n, k) % 10
  BY <1>1, DigitAtIs
<1>4. PICK d \in 1..10 : d = Long(n)
  BY WidthIs
<1>5. TenTo(k) \in Nat /\ TenTo(k) > 0
  BY DEF TenTo
<1>6. CASE n = 0
  <2>1. ~BeginsWith10(n)
    <3>1. ASSUME NEW j \in 0..8 PROVE n \div Power[j] # 10
      <4>1. Power[j] = TenTo(j)
        BY PowerIs
      <4>2. n \div TenTo(j) = 0
        BY <1>6 DEF TenTo
      <4>. QED  BY <4>1, <4>2
    <3>. QED  BY <3>1 DEF BeginsWith10
  <2>2. Kept(n, k) = IF k = 1 THEN 0 ELSE DigitAt(n, k)
    BY <1>6, <2>1 DEF Kept
  <2>3. DigitsKept(n) = 2
    BY <1>6 DEF DigitsKept
  <2>4. Rest(n, k) % 10 = 0
    BY <1>6 DEF Rest, TenTo
  <2>. QED  BY <1>2, <1>3, <1>5, <1>6, <2>2, <2>3, <2>4
<1>7. CASE n # 0 /\ ~BeginsWith10(n)
  <2>1. Kept(n, k) = DigitAt(n, k) /\ DigitsKept(n) = d
    BY <1>4, <1>7 DEF Kept, DigitsKept
  <2>2. TenTo(d - 1) <= n /\ n < TenTo(d)
    BY <1>4, <1>7, DigitsCounted
  <2>3. k < d => TenTo(k) <= n /\ k <= 9
    <3>1. CASE k = d - 1
      BY <2>2, <3>1
    <3>2. CASE k < d - 1
      <4>1. d - 1 \in 0..10
        OBVIOUS
      <4>2. /\ TenTo(d - 1) \in Nat /\ 10 * TenTo(k) <= TenTo(d - 1)
        BY <3>2, <4>1, TenToGrows
      <4>. QED  BY <1>1, <1>5, <2>2, <3>2, <4>2
    <3>. QED  BY <3>1, <3>2
  <2>4. ~(k < d) => k > 0 /\ n < TenTo(k)
    <3>1. CASE k = d
      BY <2>2, <3>1
    <3>2. CASE k > d
      <4>1. TenTo(d) \in Nat /\ 10 * TenTo(d) <= TenTo(k)
        BY <3>2, TenToGrows
      <4>. QED  BY <1>1, <1>5, <2>2, <3>2, <4>1
    <3>. QED  BY <3>1, <3>2
  <2>5. CASE k < d
    BY <1>1, <1>3, <1>5, <2>1, <2>3, <2>5
  <2>6. CASE ~(k < d)
    <3>1. DigitAt(n, k) = Blank
      BY <1>2, <1>3, <2>4, <2>6
    <3>. QED  BY <2>1, <2>6, <3>1
  <2>. QED  BY <2>5, <2>6
<1>8. CASE BeginsWith10(n)
  <2>1. d \in 1..9 /\ TenTo(d) <= n /\ n < 2 * TenTo(d)
    BY <1>4, <1>8, FirstMissed
  <2>2. TenTo(d) \in Nat /\ TenTo(d) > 0
    BY DEF TenTo
  <2>3. n # 0 /\ DigitsKept(n) = d
    BY <1>1, <1>4, <2>1, <2>2 DEF DigitsKept
  <2>4. Kept(n, k) = IF k <= 9 /\ n \div TenTo(k) = 1 THEN Blank ELSE DigitAt(n, k)
    <3>1. k <= 9 => Power[k] = TenTo(k)
      BY PowerIs
    <3>. QED  BY <1>8, <2>3, <3>1 DEF Kept
  <2>5. CASE k = d
    <3>1. n \div TenTo(k) = 1
      <4>1. PICK t \in Nat : t = TenTo(d) /\ t > 0
        BY <2>2
      <4>2. n \div t = 1
        BY <1>1, <2>1, <4>1
      <4>. QED  BY <2>5, <4>1, <4>2
    <3>. QED  BY <2>1, <2>3, <2>4, <2>5, <3>1
  <2>6. CASE k < d
    <3>1. 10 * TenTo(k) <= TenTo(d)
      BY <2>6, TenToGrows
    <3>2. 10 * TenTo(k) <= n
      BY <1>1, <1>5, <2>1, <2>2, <3>1
    <3>3. n \div TenTo(k) # 1
      <4>1. PICK t \in Nat : t = TenTo(k) /\ t > 0
        BY <1>5
      <4>2. n \div t >= 10
        BY <1>1, <3>2, <4>1
      <4>3. PICK q \in Int : q = n \div t
        BY <1>1, <4>1
      <4>. QED  BY <4>1, <4>2, <4>3
    <3>4. ~(n < TenTo(k))
      BY <1>1, <1>5, <3>2
    <3>. QED  BY <1>3, <2>1, <2>3, <2>4, <2>6, <3>3, <3>4
  <2>7. CASE k > d
    <3>1. 10 * TenTo(d) <= TenTo(k)
      BY <2>7, TenToGrows
    <3>2. n < TenTo(k) /\ k > 0
      BY <1>1, <1>5, <2>1, <2>2, <2>7, <3>1
    <3>3. n \div TenTo(k) = 0
      <4>1. PICK t \in Nat : t = TenTo(k) /\ t > 0
        BY <1>5
      <4>2. n \div t = 0
        BY <1>1, <3>2, <4>1
      <4>. QED  BY <4>1, <4>2
    <3>4. DigitAt(n, k) = Blank
      BY <1>2, <1>3, <3>2
    <3>. QED  BY <2>3, <2>4, <2>7, <3>3, <3>4
  <2>. QED  BY <2>5, <2>6, <2>7
<1>. QED  BY <1>6, <1>7, <1>8

(* The columns that are filled, by the digits that are counted.            *)
LEMMA FilledColumns ==
  ASSUME NEW n \in 0..MaxInt, NEW q \in 0..13, NEW k \in 0..10, k = q - q \div 4
  PROVE  q < Width(n) <=> \/ k < DigitsKept(n)
                          \/ q % 4 = 3 /\ k > 3 /\ k - 1 < DigitsKept(n)
<1>1. PICK d \in 1..10 : d = Long(n)
  BY WidthIs
<1>2. CASE n = 0
  <2>1. Width(n) = 2 /\ DigitsKept(n) = 2
    BY <1>2, WidthIs DEF DigitsKept
  <2>. QED  BY <2>1
<1>3. CASE n # 0
  <2>1. DigitsKept(n) = d /\ Width(n) = IF d > 3 THEN d + d \div 3 ELSE d
    BY <1>1, <1>3, WidthIs DEF DigitsKept
  <2>2. PICK w \in Nat : w = Width(n) /\ w = IF d > 3 THEN d + d \div 3 ELSE d
    BY <2>1
  <2>3. q < w <=> k < d \/ (q % 4 = 3 /\ k > 3 /\ k - 1 < d)
    <3>1. CASE d <= 3 BY <2>2, <3>1
    <3>2. CASE d = 4 BY <2>2, <3>2
    <3>3. CASE d = 5 BY <2>2, <3>3
    <3>4. CASE d = 6 BY <2>2, <3>4
    <3>5. CASE d = 7 BY <2>2, <3>5
    <3>6. CASE d = 8 BY <2>2, <3>6
    <3>7. CASE d = 9 BY <2>2, <3>7
    <3>8. CASE d = 10 BY <2>2, <3>8
    <3>9. d <= 3 \/ d \in {4, 5, 6, 7, 8, 9, 10}
      OBVIOUS
    <3>. QED  BY <3>1, <3>2, <3>3, <3>4, <3>5, <3>6, <3>7, <3>8, <3>9
  <2>. QED  BY <2>1, <2>2, <2>3
<1>. QED  BY <1>2, <1>3

LEMMA SizeInPlace ==
  ASSUME NEW n \in 0..MaxInt, NEW c \in 1..14
  PROVE  FileSize(n)[c] = KeptColumn(n, 14 - c)
<1>1. PICK q \in 0..13 : q = 14 - c
  OBVIOUS
<1>2. PICK k \in 0..10 : k = q - q \div 4
  OBVIOUS
<1>3. FileSize(n)[c] = IF q < Width(n) THEN InColumn(n, q) ELSE Blank
  BY <1>1, FileSizeIs
<1>4. q < Width(n) <=> k < DigitsKept(n) \/ (q % 4 = 3 /\ k > 3 /\ k - 1 < DigitsKept(n))
  BY <1>2, FilledColumns
<1>5. Kept(n, k) = IF k < DigitsKept(n) THEN Rest(n, k) % 10 ELSE Blank
  BY KeptIs
<1>6. Rest(n, k) % 10 # Blank
  <2>1. n \in Nat
    BY WidthIs
  <2>2. PICK x \in Nat : x = Rest(n, k)
    BY <2>1 DEF Rest, TenTo
  <2>. QED  BY <2>2 DEF Blank
<1>7. CASE q % 4 # 3
  <2>1. KeptColumn(n, q) = Kept(n, k)
    BY <1>2, <1>7, Zenon DEF KeptColumn
  <2>2. InColumn(n, q) = Rest(n, k) % 10
    BY <1>2, <1>7, Zenon DEF InColumn
  <2>. QED  BY <1>1, <1>3, <1>4, <1>5, <1>7, <2>1, <2>2, Zenon
<1>8. CASE q % 4 = 3
  <2>1. KeptColumn(n, q) =
          IF Kept(n, k) # Blank \/ (k > 3 /\ Kept(n, k - 1) # Blank) THEN Comma ELSE Blank
    BY <1>2, <1>8, Zenon DEF KeptColumn
  <2>2. InColumn(n, q) = Comma
    BY <1>8, Zenon DEF InColumn
  <2>3. Kept(n, k) # Blank <=> k < DigitsKept(n)
    BY <1>5, <1>6, Zenon
  <2>4. k > 3 => (Kept(n, k - 1) # Blank <=> k - 1 < DigitsKept(n))
    <3>1. SUFFICES ASSUME k > 3 PROVE Kept(n, k - 1) # Blank <=> k - 1 < DigitsKept(n)
      OBVIOUS
    <3>2. PICK j \in 0..10 : j = k - 1
      BY <3>1
    <3>3. Kept(n, j) = IF j < DigitsKept(n) THEN Rest(n, j) % 10 ELSE Blank
      BY KeptIs
    <3>4. Rest(n, j) % 10 # Blank
      <4>1. n \in Nat
        BY WidthIs
      <4>2. PICK x \in Nat : x = Rest(n, j)
        BY <4>1 DEF Rest, TenTo
      <4>. QED  BY <4>2 DEF Blank
    <3>. QED  BY <3>2, <3>3, <3>4, Zenon
  <2>. QED  BY <1>1, <1>3, <1>4, <1>8, <2>1, <2>2, <2>3, <2>4, Zenon
<1>. QED  BY <1>7, <1>8

LEMMA ListingShowsSizes == ListingInv => SizesRight
<1>. SUFFICES ASSUME ListingInv PROVE SizesRight
  OBVIOUS
<1>1. ASSUME NEW i \in 1..Len(ls.lines)
      PROVE  /\ dir[ls.lines[i].entry].size \in 0..MaxInt
             /\ ls.lines[i].size = FileSize(dir[ls.lines[i].entry].size)
  <2>1. dir \in Seq(Entry) /\ LinesSound(dir, ls)
    BY DEF ListingInv, ListingSound
  <2>2. PICK e \in 1..Len(dir) : e = ls.lines[i].entry
    BY <2>1 DEF LinesSound
  <2>3. dir[e].size \in Sizes
    BY <2>1, NameIs
  <2>4. dir[e].size \in 0..MaxInt
    BY <2>3, SizesAssumption
  <2>5. ls.lines[i].size = FileSize(dir[ls.lines[i].entry].size)
    BY <2>1 DEF LinesSound
  <2>. QED  BY <2>2, <2>4, <2>5
<1>2. SizesShown
  <2>1. SUFFICES ASSUME NEW i \in 1..Len(ls.lines)
                 PROVE  LET n == dir[ls.lines[i].entry].size
                        IN  n = 0 \/ BeginsWith10(n) \/ HasDigits(n, 6) \/ HasDigits(n, 9)
                            \/ ls.lines[i].size = Shown(n)
    BY DEF SizesShown
  <2>2. PICK n \in 0..MaxInt : n = dir[ls.lines[i].entry].size
    BY <1>1
  <2>3. ls.lines[i].size = FileSize(n)
    BY <1>1, <2>2
  <2>4. Counts(n) => FileSize(n) = Shown(n)
    BY CountedSizeShown
  <2>5. n = 0 \/ BeginsWith10(n) \/ HasDigits(n, 6) \/ HasDigits(n, 9) \/ Counts(n)
    BY Zenon DEF Counts
  <2>. QED  BY <2>2, <2>3, <2>4, <2>5, Zenon
<1>3. DigitsInPlace
  <2>1. SUFFICES ASSUME NEW i \in 1..Len(ls.lines), NEW c \in 1..14
                 PROVE  ls.lines[i].size[c] = KeptColumn(dir[ls.lines[i].entry].size, 14 - c)
    BY DEF DigitsInPlace
  <2>2. PICK n \in 0..MaxInt : n = dir[ls.lines[i].entry].size
    BY <1>1
  <2>3. ls.lines[i].size = FileSize(n)
    BY <1>1, <2>2
  <2>4. FileSize(n)[c] = KeptColumn(n, 14 - c)
    BY SizeInPlace
  <2>. QED  BY <2>2, <2>3, <2>4, Zenon
<1>. QED  BY <1>2, <1>3 DEF SizesRight

-----------------------------------------------------------------------------
(***************************************************************************)
(* Arithmetic that wraps around.                                           *)
(***************************************************************************)
LEMMA IntOfIs ==
  ASSUME NEW n \in Int
  PROVE  /\ IntOf(n) \in Int /\ 2 * IntOf(n) < IntValues /\ -IntValues <= 2 * IntOf(n)
         /\ \E q \in Int : n = IntValues * q + IntOf(n)
<1>1. PICK m \in Nat : m = IntValues /\ m > 0
  BY IntAssumption
<1>2. PICK r \in Int : r = n % m /\ 0 <= r /\ r < m
  BY <1>1
<1>3. PICK q \in Int : q = n \div m
  BY <1>1
<1>4. n = m * q + r
  BY <1>1, <1>2, <1>3
<1>5. CASE 2 * r < m
  BY <1>1, <1>2, <1>3, <1>4, <1>5 DEF IntOf
<1>6. CASE ~(2 * r < m)
  <2>1. IntOf(n) = r - m
    BY <1>1, <1>2, <1>6 DEF IntOf
  <2>2. n = m * (q + 1) + (r - m)
    BY <1>1, <1>4
  <2>3. q + 1 \in Int /\ r - m \in Int /\ 2 * (r - m) < m /\ -m <= 2 * (r - m)
    BY <1>1, <1>2, <1>6
  <2>. QED  BY <1>1, <2>1, <2>2, <2>3
<1>. QED  BY <1>5, <1>6

(* Numbers that differ by a multiple of IntValues are the same int.        *)
LEMMA IntOfUnique ==
  ASSUME NEW a \in Int, NEW b \in Int, NEW q \in Int, a = b + IntValues * q
  PROVE  IntOf(a) = IntOf(b)
<1>1. PICK m \in Nat : m = IntValues /\ m > 0
  BY IntAssumption
<1>2. PICK x \in Int : x = IntOf(a) /\ 2 * x < m /\ -m <= 2 * x
  BY <1>1, IntOfIs
<1>3. PICK y \in Int : y = IntOf(b) /\ 2 * y < m /\ -m <= 2 * y
  BY <1>1, IntOfIs
<1>4. PICK i \in Int : a = m * i + x
  BY <1>1, <1>2, IntOfIs
<1>5. PICK j \in Int : b = m * j + y
  BY <1>1, <1>3, IntOfIs
<1>6. PICK k \in Int : k = i - j - q
  OBVIOUS
<1>7. y - x = m * k
  BY <1>1, <1>4, <1>5, <1>6
<1>8. y - x < m /\ -m < y - x
  BY <1>1, <1>2, <1>3
<1>9. CASE k > 0
  <2>1. m * k >= m
    BY <1>1, <1>9
  <2>. QED  BY <1>7, <1>8, <2>1, <1>1
<1>10. CASE k < 0
  <2>1. m * k <= -m
    BY <1>1, <1>10
  <2>. QED  BY <1>7, <1>8, <2>1, <1>1
<1>11. CASE k = 0
  BY <1>7, <1>11, <1>2, <1>3, <1>1
<1>. QED  BY <1>9, <1>10, <1>11

(* It makes no difference whether an int has wrapped already.              *)
LEMMA IntOfStep ==
  ASSUME NEW n \in Nat, NEW c \in Nat
  PROVE  IntOf(10 * IntOf(n) + c) = IntOf(10 * n + c)
<1>1. PICK x \in Int : x = IntOf(n)
  BY IntOfIs
<1>2. PICK q \in Int : n = IntValues * q + x
  BY <1>1, IntOfIs
<1>3. PICK m \in Nat : m = IntValues
  BY IntAssumption
<1>4. PICK z \in Int : z = m * q
  OBVIOUS
<1>5. m * (10 * q) = 10 * z
  BY <1>4
<1>6. 10 * n + c = (10 * x + c) + m * (10 * q)
  BY <1>2, <1>3, <1>4, <1>5
<1>7. PICK a \in Int : a = 10 * n + c
  OBVIOUS
<1>8. PICK b \in Int : b = 10 * x + c
  OBVIOUS
<1>9. PICK k \in Int : k = 10 * q
  OBVIOUS
<1>10. a = b + IntValues * k
  BY <1>3, <1>6, <1>7, <1>8, <1>9
<1>11. IntOf(a) = IntOf(b)
  BY <1>10, IntOfUnique
<1>. QED  BY <1>1, <1>7, <1>8, <1>11

LEMMA IntOfSmall ==
  ASSUME NEW n \in 0..255
  PROVE  IntOf(n) = n
<1>1. PICK m \in Nat : m = IntValues /\ m >= 512
  BY IntAssumption
<1>2. n % m = n
  BY <1>1
<1>. QED  BY <1>1, <1>2 DEF IntOf
-----------------------------------------------------------------------------
(***************************************************************************)
(* parse_port_args(), character by character.                              *)
(***************************************************************************)
Char == 0..Letter

Scan == [bytes : [1..6 -> Int], segment : Int, digit : 0..6, back : BOOLEAN]

(* It does not look at the rest of the line.                               *)
Stopped(s) == s.digit = 6 \/ s.back

LEMMA ScannedIs ==
  ASSUME NEW s \in Scan, NEW c \in Char
  PROVE  /\ Scanned(s, c) \in Scan
         /\ Stopped(s) \/ c = Blank => Scanned(s, c) = s
         /\ ~Stopped(s) /\ c = Letter => Scanned(s, c).back
         /\ ~Stopped(s) /\ c = Comma /\ s.segment > 255 => Scanned(s, c).back
         /\ ~Stopped(s) /\ c = Comma /\ s.segment <= 255 =>
              /\ Scanned(s, c).bytes = [s.bytes EXCEPT ![s.digit + 1] = s.segment]
              /\ Scanned(s, c).digit = s.digit + 1 /\ Scanned(s, c).segment = 0
              /\ ~Scanned(s, c).back
         /\ ~Stopped(s) /\ c \notin {Letter, Comma, Blank} =>
              /\ Scanned(s, c).bytes = s.bytes /\ Scanned(s, c).digit = s.digit
              /\ Scanned(s, c).segment = IntOf(10 * s.segment + c) /\ ~Scanned(s, c).back
<1>1. PICK segment \in Int : segment = s.segment
  BY DEF Scan
<1>2. PICK digit \in 0..6 : digit = s.digit
  BY DEF Scan
<1>3. PICK bytes \in [1..6 -> Int] : bytes = s.bytes
  BY DEF Scan
<1>4. Comma # Blank /\ Letter # Blank /\ Letter # Comma
  BY DEF Comma, Blank, Letter
<1>5. CASE Stopped(s) \/ c = Blank
  <2>1. Scanned(s, c) = s
    BY <1>5 DEF Scanned, Stopped
  <2>. QED  BY <1>4, <1>5, <2>1
<1>6. CASE ~Stopped(s) /\ (c = Letter \/ (c = Comma /\ segment > 255))
  <2>1. PICK new \in Scan : new = [s EXCEPT !.back = TRUE]
    BY DEF Scan
  <2>2. Scanned(s, c) = new
    BY <1>1, <1>4, <1>6, <2>1 DEF Scanned, Stopped
  <2>3. new.back
    BY <2>1 DEF Scan
  <2>. QED  BY <1>1, <1>4, <1>6, <2>2, <2>3
<1>7. CASE ~Stopped(s) /\ c = Comma /\ ~(segment > 255)
  <2>1. digit + 1 \in 1..6 /\ digit + 1 \in 0..6
    BY <1>2, <1>7 DEF Stopped
  <2>2. PICK b \in [1..6 -> Int] : b = [bytes EXCEPT ![digit + 1] = segment]
    OBVIOUS
  <2>3. PICK new \in Scan : new = [s EXCEPT !.bytes = b, !.digit = digit + 1, !.segment = 0]
    <3>1. PICK d \in 0..6 : d = digit + 1
      BY <2>1
    <3>2. PICK zero \in Int : zero = 0
      OBVIOUS
    <3>3. [s EXCEPT !.bytes = b, !.digit = d, !.segment = zero] \in Scan
      BY DEF Scan
    <3>. QED  BY <3>1, <3>2, <3>3
  <2>4. Scanned(s, c) = new
    BY <1>1, <1>2, <1>3, <1>4, <1>7, <2>2, <2>3 DEF Scanned, Stopped
  <2>5. new.bytes = b /\ new.digit = digit + 1 /\ new.segment = 0 /\ new.back = s.back
    BY <2>3 DEF Scan
  <2>6. ~new.back
    BY <1>7, <2>5 DEF Stopped
  <2>. QED  BY <1>1, <1>2, <1>3, <1>4, <1>7, <2>2, <2>4, <2>5, <2>6
<1>8. CASE ~Stopped(s) /\ c \notin {Letter, Comma, Blank}
  <2>1. PICK value \in Int : value = IntOf(10 * segment + c)
    BY IntOfIs DEF Char, Letter
  <2>2. PICK new \in Scan : new = [s EXCEPT !.segment = value]
    BY DEF Scan
  <2>3. Scanned(s, c) = new
    BY <1>1, <1>8, <2>1, <2>2 DEF Scanned, Stopped
  <2>4. /\ new.bytes = s.bytes /\ new.digit = s.digit /\ new.segment = value
        /\ new.back = s.back
    BY <2>2 DEF Scan
  <2>5. ~new.back
    BY <1>8, <2>4 DEF Stopped
  <2>. QED  BY <1>1, <1>4, <1>8, <2>1, <2>3, <2>4, <2>5
<1>. QED  BY <1>1, <1>5, <1>6, <1>7, <1>8

Scans(line) == [k \in 1..Len(line) |-> [s \in Scan |-> Scanned(s, line[k])]]

LEMMA UnscannedType == Unscanned \in Scan
BY DEF Unscanned, Scan

LEMMA ScansType ==
  ASSUME NEW line \in Seq(Char)
  PROVE  Scans(line) \in [1..Len(line) -> [Scan -> Scan]]
<1>1. \A k \in 1..Len(line) : line[k] \in Char
  BY ElementOfSeq
<1>2. \A k \in 1..Len(line) : \A s \in Scan : Scanned(s, line[k]) \in Scan
  BY <1>1, ScannedIs
<1>. QED  BY <1>2 DEF Scans

(* What a run of the loop is, in terms of Scanned.                         *)
LEMMA ScanRunIs ==
  ASSUME NEW line \in Seq(Char), NEW init \in Scan, NEW f,
         Runs(f, Len(line), Scan, init, Scans(line))
  PROVE  /\ f \in [0..Len(line) -> Scan] /\ f[0] = init
         /\ \A k \in 1..Len(line) : k - 1 \in 0..Len(line) /\ f[k] = Scanned(f[k-1], line[k])
<1>1. Len(line) \in Nat
  OBVIOUS
<1>2. f \in [0..Len(line) -> Scan] /\ f[0] = init
  BY DEF Runs
<1>3. \A k \in 1..Len(line) : k - 1 \in 0..Len(line) /\ f[k-1] \in Scan
  BY <1>1, <1>2
<1>4. \A k \in 1..Len(line) : f[k] = Scans(line)[k][f[k-1]]
  BY DEF Runs
<1>. QED  BY <1>2, <1>3, <1>4 DEF Scans

LEMMA ScanAllIs ==
  ASSUME NEW line \in Seq(Char)
  PROVE  \E f : /\ Runs(f, Len(line), Scan, Unscanned, Scans(line))
                /\ ScanAll(line) = f[Len(line)] /\ ScanAll(line) \in Scan
<1>. DEFINE n == Len(line)
            Body(f) == [k \in 0..n |-> IF k = 0 THEN Unscanned ELSE Scanned(f[k - 1], line[k])]
            State == CHOOSE f : f = Body(f)
<1>1. n \in Nat
  OBVIOUS
<1>2. PICK f : Runs(f, n, Scan, Unscanned, Scans(line))
  <2>. HIDE DEF n
  <2>. QED  BY <1>1, ScansType, UnscannedType, LoopRuns DEF n
<1>3. /\ f \in [0..n -> Scan] /\ f[0] = Unscanned
      /\ \A k \in 1..n : f[k] = Scanned(f[k-1], line[k])
  BY <1>2, UnscannedType, ScanRunIs
<1>4. f = Body(f)
  BY <1>1, <1>3
<1>5. State = Body(State)
  <2>. HIDE DEF Body
  <2>. QED  BY <1>4
<1>6. State[n] = f[n]
  <2>. HIDE DEF State
  <2>1. State[0] = Unscanned /\ \A k \in 1..n : State[k] = Scanned(State[k-1], line[k])
    BY <1>5, <1>1
  <2>2. Follows(State, n, Scan, Unscanned, Scans(line))
    BY <2>1 DEF Scans, Follows
  <2>3. n \in 0..n
    BY <1>1
  <2>. HIDE DEF n
  <2>. QED  BY <1>1, <1>2, <2>2, <2>3, LoopIsUnique
<1>7. ScanAll(line) = State[n]
  BY DEF ScanAll
<1>8. f[n] \in Scan
  BY <1>1, <1>3
<1>. QED  BY <1>2, <1>6, <1>7, <1>8

(* A line and a text after it: the loop goes on where it was.              *)
LEMMA ScanGoesOn ==
  ASSUME NEW line \in Seq(Char), NEW t \in Seq(Char)
  PROVE  \E f : /\ f \in [0..Len(t) -> Scan] /\ f[0] = ScanAll(line)
                /\ \A i \in 1..Len(t) : f[i] = Scanned(f[i-1], t[i])
                /\ ScanAll(line \o t) = f[Len(t)]
<1>1. PICK m \in Nat : m = Len(line)
  OBVIOUS
<1>2. PICK n \in Nat : n = Len(t)
  OBVIOUS
<1>3. PICK all \in Seq(Char) : all = line \o t
  BY ConcatProperties
<1>4. Len(all) = m + n /\ \A i \in 1..(m + n) : all[i] = IF i <= m THEN line[i] ELSE t[i-m]
  <2>1. /\ Len(line \o t) = Len(line) + Len(t)
        /\ \A i \in 1..(Len(line) + Len(t)) :
             (line \o t)[i] = IF i <= Len(line) THEN line[i] ELSE t[i - Len(line)]
    BY ConcatProperties
  <2>. QED  BY <1>1, <1>2, <1>3, <2>1
<1>5. PICK g : Runs(g, m + n, Scan, Unscanned, Scans(all)) /\ ScanAll(all) = g[m + n]
  <2>1. \E g : Runs(g, Len(all), Scan, Unscanned, Scans(all)) /\ ScanAll(all) = g[Len(all)]
    BY ScanAllIs
  <2>. QED  BY <1>4, <2>1
<1>6. /\ g \in [0..(m + n) -> Scan] /\ g[0] = Unscanned
      /\ \A k \in 1..(m + n) : g[k] = Scanned(g[k-1], all[k])
  <2>1. /\ g \in [0..Len(all) -> Scan] /\ g[0] = Unscanned
        /\ \A k \in 1..Len(all) : g[k] = Scanned(g[k-1], all[k])
    <3>1. Runs(g, Len(all), Scan, Unscanned, Scans(all))
      BY <1>4, <1>5
    <3>. QED  BY <3>1, UnscannedType, ScanRunIs
  <2>. QED  BY <1>4, <2>1
<1>7. PICK h : Runs(h, m, Scan, Unscanned, Scans(line)) /\ ScanAll(line) = h[m]
  <2>1. \E h : Runs(h, Len(line), Scan, Unscanned, Scans(line)) /\ ScanAll(line) = h[Len(line)]
    BY ScanAllIs
  <2>. QED  BY <1>1, <2>1
<1>8. Follows(g, m, Scan, Unscanned, Scans(line))
  <2>1. ASSUME NEW k \in 1..m, g[k-1] \in Scan PROVE g[k] = Scans(line)[k][g[k-1]]
    <3>1. k \in 1..(m + n) /\ k \in 1..Len(line) /\ k <= m
      BY <1>1
    <3>2. g[k] = Scanned(g[k-1], line[k])
      BY <1>4, <1>6, <3>1
    <3>. QED  BY <2>1, <3>1, <3>2 DEF Scans
  <2>. QED  BY <1>6, <2>1 DEF Follows
<1>9. g[m] = ScanAll(line)
  <2>1. m \in 0..m
    OBVIOUS
  <2>2. \A k \in 0..m : g[k] = h[k]
    <3>1. Follows(g, m, Scan, Unscanned, Scans(line)) /\ Runs(h, m, Scan, Unscanned, Scans(line))
      BY <1>7, <1>8
    <3>. QED  BY <2>1, <3>1, LoopIsUnique
  <2>. QED  BY <1>7, <2>1, <2>2
<1>. DEFINE f == [i \in 0..n |-> g[m + i]]
<1>10. f \in [0..n -> Scan] /\ f[0] = g[m] /\ f[n] = g[m + n]
  BY <1>6
<1>11. ASSUME NEW i \in 1..n PROVE f[i] = Scanned(f[i-1], t[i])
  <2>1. /\ m + i \in 1..(m + n) /\ (m + i) - 1 = m + (i - 1) /\ ~(m + i <= m)
        /\ (m + i) - m = i /\ i \in 0..n /\ i - 1 \in 0..n
    OBVIOUS
  <2>. QED  BY <1>4, <1>6, <2>1
<1>. HIDE DEF f
<1>. QED  BY <1>2, <1>3, <1>5, <1>9, <1>10, <1>11

-----------------------------------------------------------------------------
(***************************************************************************)
(* The text between two commas.                                            *)
(***************************************************************************)
FieldText == {t \in Seq(Char) : \A i \in 1..Len(t) : t[i] # Comma}

Readable(t) == \A i \in 1..Len(t) : t[i] # Letter

Values(v, t) ==
  /\ v \in [0..Len(t) -> Nat] /\ v[0] = 0
  /\ \A k \in 1..Len(t) : v[k] = IF t[k] = Blank THEN v[k-1] ELSE 10 * v[k-1] + t[k]

LEMMA FieldValueIs ==
  ASSUME NEW t \in Seq(Char)
  PROVE  FieldValue(t) \in Nat /\ \E v : Values(v, t) /\ FieldValue(t) = v[Len(t)]
<1>. DEFINE n == Len(t)
            Body(f) == [k \in 0..n |-> IF k = 0 THEN 0 ELSE
                          IF t[k] = Blank THEN f[k - 1] ELSE 10 * f[k - 1] + t[k]]
            Value == CHOOSE f : f = Body(f)
            F == [k \in 1..n |-> [x \in Nat |-> IF t[k] = Blank THEN x ELSE 10 * x + t[k]]]
<1>1. n \in Nat /\ 0 \in Nat
  OBVIOUS
<1>2. F \in [1..n -> [Nat -> Nat]]
  <2>1. \A k \in 1..n : t[k] \in Nat
    BY ElementOfSeq DEF Char, Letter
  <2>. QED  BY <2>1
<1>3. PICK f : Runs(f, n, Nat, 0, F)
  <2>. HIDE DEF n, F
  <2>. QED  BY <1>1, <1>2, LoopRuns
<1>4. /\ f \in [0..n -> Nat] /\ f[0] = 0
      /\ \A k \in 1..n : f[k] = IF t[k] = Blank THEN f[k-1] ELSE 10 * f[k-1] + t[k]
  <2>1. f \in [0..n -> Nat] /\ f[0] = 0 /\ \A k \in 1..n : f[k] = F[k][f[k-1]]
    BY <1>3 DEF Runs
  <2>2. \A k \in 1..n : k - 1 \in 0..n /\ f[k-1] \in Nat
    BY <1>1, <2>1
  <2>. QED  BY <2>1, <2>2
<1>5. f = Body(f)
  <2>. HIDE DEF F
  <2>. QED  BY <1>1, <1>4
<1>6. Value = Body(Value)
  <2>. HIDE DEF Body, F
  <2>. QED  BY <1>5
<1>7. \A k \in 0..n : Value[k] = f[k]
  <2>. DEFINE T == {k \in 0..n : Value[k] = f[k]}
  <2>. HIDE DEF Value, F
  <2>1. 0 \in T
    BY <1>1, <1>4, <1>6
  <2>2. ASSUME NEW k \in 0..(n-1), k \in T PROVE k + 1 \in T
    <3>1. k + 1 \in 1..n /\ k + 1 \in 0..n /\ (k + 1) - 1 = k /\ k + 1 # 0
      BY <1>1
    <3>2. Value[k+1] = IF t[k+1] = Blank THEN Value[k] ELSE 10 * Value[k] + t[k+1]
      BY <1>6, <3>1
    <3>3. f[k+1] = IF t[k+1] = Blank THEN f[k] ELSE 10 * f[k] + t[k+1]
      BY <1>4, <3>1
    <3>. QED  BY <2>2, <3>1, <3>2, <3>3
  <2>3. 0..n \subseteq T
    <3>. HIDE DEF T
    <3>. QED  BY <1>1, <2>1, <2>2, UpTo
  <2>. QED  BY <2>3
<1>8. FieldValue(t) = Value[n]
  BY DEF FieldValue
<1>9. n \in 0..n
  BY <1>1
<1>10. FieldValue(t) = f[n] /\ f[n] \in Nat
  <2>. HIDE DEF Value, F
  <2>. QED  BY <1>4, <1>7, <1>8, <1>9
<1>. QED  BY <1>4, <1>10 DEF Values

LEMMA FieldReadIs ==
  ASSUME NEW t \in Seq(Char)
  PROVE  FieldRead(t) \in Int
BY FieldValueIs, IntOfIs DEF FieldRead

(* The state in the middle of a field: what it was before, but for the     *)
(* number read so far; or the loop has returned.                           *)
InField(s, before, value) ==
  /\ s \in Scan /\ s.bytes = before.bytes /\ s.digit = before.digit
  /\ ~s.back /\ s.segment = value

LEMMA ScanField ==
  ASSUME NEW line \in Seq(Char), NEW t \in FieldText,
         ~Stopped(ScanAll(line)), ScanAll(line).segment = 0
  PROVE  /\ Readable(t) => InField(ScanAll(line \o t), ScanAll(line), FieldRead(t))
         /\ ~Readable(t) => ScanAll(line \o t).back
<1>1. t \in Seq(Char) /\ Len(t) \in Nat /\ \A i \in 1..Len(t) : t[i] \in Char /\ t[i] # Comma
  BY ElementOfSeq DEF FieldText
<1>2. PICK n \in Nat : n = Len(t)
  BY <1>1
<1>3. PICK before \in Scan : before = ScanAll(line)
  BY ScanAllIs
<1>4. ~Stopped(before) /\ before.segment = 0 /\ ~before.back /\ before.digit # 6
  BY <1>3 DEF Stopped
<1>5. PICK f : /\ f \in [0..n -> Scan] /\ f[0] = before
               /\ \A i \in 1..n : f[i] = Scanned(f[i-1], t[i])
               /\ ScanAll(line \o t) = f[n]
  <2>1. \E f : /\ f \in [0..Len(t) -> Scan] /\ f[0] = ScanAll(line)
               /\ \A i \in 1..Len(t) : f[i] = Scanned(f[i-1], t[i])
               /\ ScanAll(line \o t) = f[Len(t)]
    BY <1>1, ScanGoesOn
  <2>. QED  BY <1>2, <1>3, <2>1
<1>6. PICK v : Values(v, t) /\ FieldValue(t) = v[n]
  BY <1>1, <1>2, FieldValueIs
<1>7. /\ v \in [0..n -> Nat] /\ v[0] = 0
      /\ \A k \in 1..n : v[k] = IF t[k] = Blank THEN v[k-1] ELSE 10 * v[k-1] + t[k]
  BY <1>2, <1>6 DEF Values
<1>. DEFINE Clean(k) == \A i \in 1..k : t[i] # Letter
            T == {k \in 0..n : /\ Clean(k) => InField(f[k], before, IntOf(v[k]))
                               /\ ~Clean(k) => f[k].back}
<1>8. 0 \in T
  <2>1. Clean(0) /\ 0 \in 0..n
    OBVIOUS
  <2>2. InField(before, before, 0)
    BY <1>4 DEF InField
  <2>3. IntOf(0) = 0
    BY IntOfSmall
  <2>. QED  BY <1>5, <1>7, <2>1, <2>2, <2>3
<1>9. ASSUME NEW k \in 0..(n-1), k \in T PROVE k + 1 \in T
  <2>1. k + 1 \in 1..n /\ k + 1 \in 0..n /\ (k + 1) - 1 = k /\ k \in 0..n
    OBVIOUS
  <2>2. PICK c \in Char : c = t[k + 1] /\ c # Comma
    BY <1>1, <1>2, <2>1
  <2>3. PICK s \in Scan : s = f[k]
    BY <1>5, <2>1
  <2>4. PICK new \in Scan : new = f[k + 1] /\ new = Scanned(s, c)
    BY <1>5, <2>1, <2>2, <2>3
  <2>5. PICK x \in Nat : x = v[k]
    BY <1>7, <2>1
  <2>6. v[k + 1] = IF c = Blank THEN x ELSE 10 * x + c
    BY <1>7, <2>1, <2>2, <2>5
  <2>7. Clean(k + 1) <=> Clean(k) /\ c # Letter
    <3>1. \A i \in 1..(k + 1) : i \in 1..k \/ i = k + 1
      OBVIOUS
    <3>2. \A i \in 1..k : i \in 1..(k + 1)
      OBVIOUS
    <3>. QED  BY <2>1, <2>2, <3>1, <3>2
  <2>8. (Clean(k) => InField(s, before, IntOf(x))) /\ (~Clean(k) => s.back)
    BY <1>9, <2>3, <2>5
  <2>. HIDE DEF Clean
  <2>9. CASE ~Clean(k)
    <3>1. new = s
      BY <2>4, <2>8, <2>9, ScannedIs DEF Stopped
    <3>. QED  BY <2>1, <2>4, <2>7, <2>8, <2>9, <3>1
  <2>10. CASE Clean(k) /\ c = Letter
    <3>1. ~Stopped(s)
      BY <1>4, <2>8, <2>10 DEF InField, Stopped
    <3>2. new.back
      BY <2>4, <2>10, <3>1, ScannedIs
    <3>. QED  BY <2>1, <2>4, <2>7, <2>10, <3>2
  <2>11. CASE Clean(k) /\ c # Letter
    <3>1. ~Stopped(s) /\ InField(s, before, IntOf(x))
      BY <1>4, <2>8, <2>11 DEF InField, Stopped
    <3>2. CASE c = Blank
      <4>1. new = s
        BY <2>4, <3>2, ScannedIs
      <4>2. InField(new, before, IntOf(v[k + 1]))
        BY <2>6, <3>1, <3>2, <4>1
      <4>. QED  BY <2>1, <2>4, <2>7, <2>11, <4>2
    <3>3. CASE c # Blank
      <4>1. /\ new.bytes = s.bytes /\ new.digit = s.digit /\ new.segment = IntOf(10 * s.segment + c)
            /\ ~new.back
        <5>1. c \notin {Letter, Comma, Blank} /\ ~Stopped(s)
          BY <2>2, <2>11, <3>1, <3>3
        <5>2. ~Stopped(s) /\ c \notin {Letter, Comma, Blank} =>
                /\ Scanned(s, c).bytes = s.bytes /\ Scanned(s, c).digit = s.digit
                /\ Scanned(s, c).segment = IntOf(10 * s.segment + c) /\ ~Scanned(s, c).back
          BY ScannedIs
        <5>. QED  BY <2>4, <5>1, <5>2, Zenon
      <4>2. s.segment = IntOf(x)
        BY <3>1 DEF InField
      <4>3. IntOf(10 * IntOf(x) + c) = IntOf(10 * x + c)
        BY IntOfStep DEF Char, Letter
      <4>4. InField(new, before, IntOf(v[k + 1]))
        BY <2>6, <3>1, <3>3, <4>1, <4>2, <4>3 DEF InField
      <4>. QED  BY <2>1, <2>4, <2>7, <2>11, <4>4
    <3>. QED  BY <3>2, <3>3
  <2>. QED  BY <2>9, <2>10, <2>11
<1>10. 0..n \subseteq T
  <2>. HIDE DEF T
  <2>. QED  BY <1>8, <1>9, UpTo
<1>11. n \in T
  <2>. HIDE DEF T
  <2>1. n \in 0..n
    OBVIOUS
  <2>. QED  BY <1>10, <2>1
<1>12. Readable(t) <=> Clean(n)
  BY <1>2 DEF Readable
<1>. QED  BY <1>3, <1>5, <1>6, <1>11, <1>12 DEF FieldRead

(* The loop has stopped: nothing after that matters.                       *)
LEMMA ScanStopped ==
  ASSUME NEW line \in Seq(Char), NEW t \in Seq(Char), Stopped(ScanAll(line))
  PROVE  ScanAll(line \o t) = ScanAll(line)
<1>1. PICK n \in Nat : n = Len(t)
  OBVIOUS
<1>2. \A i \in 1..n : t[i] \in Char
  BY <1>1, ElementOfSeq
<1>3. PICK s \in Scan : s = ScanAll(line)
  BY ScanAllIs
<1>4. PICK f : /\ f \in [0..n -> Scan] /\ f[0] = s
               /\ \A i \in 1..n : f[i] = Scanned(f[i-1], t[i])
               /\ ScanAll(line \o t) = f[n]
  <2>1. \E f : /\ f \in [0..Len(t) -> Scan] /\ f[0] = ScanAll(line)
               /\ \A i \in 1..Len(t) : f[i] = Scanned(f[i-1], t[i])
               /\ ScanAll(line \o t) = f[Len(t)]
    BY ScanGoesOn
  <2>. QED  BY <1>1, <1>3, <2>1
<1>. DEFINE T == {k \in 0..n : f[k] = s}
<1>5. 0 \in T
  BY <1>4
<1>6. ASSUME NEW k \in 0..(n-1), k \in T PROVE k + 1 \in T
  <2>1. k + 1 \in 1..n /\ k + 1 \in 0..n /\ (k + 1) - 1 = k
    OBVIOUS
  <2>2. f[k + 1] = Scanned(s, t[k + 1])
    BY <1>4, <1>6, <2>1
  <2>3. Scanned(s, t[k + 1]) = s
    BY <1>2, <1>3, <2>1, ScannedIs
  <2>. QED  BY <2>1, <2>2, <2>3
<1>7. 0..n \subseteq T
  <2>. HIDE DEF T
  <2>. QED  BY <1>5, <1>6, UpTo
<1>8. n \in T
  <2>. HIDE DEF T
  <2>1. n \in 0..n
    OBVIOUS
  <2>. QED  BY <1>7, <2>1
<1>. QED  BY <1>3, <1>4, <1>8

LEMMA ScanComma ==
  ASSUME NEW line \in Seq(Char)
  PROVE  line \o <<Comma>> \in Seq(Char) /\ ScanAll(line \o <<Comma>>) = Scanned(ScanAll(line), Comma)
<1>1. PICK t \in Seq(Char) : t = <<Comma>>
  <2>1. Comma \in Char
    BY DEF Comma, Char, Letter
  <2>2. <<Comma>> \in Seq(Char)
    BY <2>1
  <2>. QED  BY <2>2
<1>2. Len(t) = 1 /\ t[1] = Comma
  BY <1>1
<1>3. PICK f : /\ f[0] = ScanAll(line)
               /\ \A i \in 1..1 : f[i] = Scanned(f[i-1], t[i])
               /\ ScanAll(line \o t) = f[1]
  <2>1. \E f : /\ f \in [0..Len(t) -> Scan] /\ f[0] = ScanAll(line)
               /\ \A i \in 1..Len(t) : f[i] = Scanned(f[i-1], t[i])
               /\ ScanAll(line \o t) = f[Len(t)]
    BY ScanGoesOn
  <2>. QED  BY <1>2, <2>1
<1>4. f[1] = Scanned(f[0], Comma)
  <2>1. 1 \in 1..1 /\ 1 - 1 = 0
    OBVIOUS
  <2>. QED  BY <1>2, <1>3, <2>1
<1>5. line \o t \in Seq(Char)
  BY ConcatProperties
<1>. QED  BY <1>1, <1>3, <1>4, <1>5

-----------------------------------------------------------------------------
(***************************************************************************)
(* The line of an address command, field by field.                         *)
(***************************************************************************)
Joined(l, texts, n) ==
  /\ l \in [1..n -> Seq(Char)] /\ l[1] = texts[1]
  /\ \A k \in 2..n : l[k] = l[k-1] \o <<Comma>> \o texts[k]

LEMMA JoinIs ==
  ASSUME NEW n \in Nat \ {0}, NEW texts \in [1..n -> FieldText]
  PROVE  \E l : Joined(l, texts, n) /\ Join(texts) = l[n]
<1>. DEFINE Body(f) == [k \in 1..Len(texts) |->
                          IF k = 1 THEN texts[1] ELSE f[k - 1] \o <<Comma>> \o texts[k]]
            Text == CHOOSE f : f = Body(f)
            F == [k \in 1..n |-> [x \in Seq(Char) |->
                    IF k = 1 THEN texts[1] ELSE x \o <<Comma>> \o texts[k]]]
<1>1. Len(texts) = n /\ n \in Nat
  OBVIOUS
<1>2. <<Comma>> \in Seq(Char) /\ <<>> \in Seq(Char)
  BY ScanComma DEF Comma, Char, Letter
<1>3. \A k \in 1..n : texts[k] \in Seq(Char)
  BY DEF FieldText
<1>4. \A k \in 2..n : \A x \in Seq(Char) : x \o <<Comma>> \o texts[k] \in Seq(Char)
  <2>1. ASSUME NEW k \in 2..n, NEW x \in Seq(Char) PROVE x \o <<Comma>> \o texts[k] \in Seq(Char)
    <3>1. texts[k] \in Seq(Char) /\ x \o <<Comma>> \in Seq(Char)
      BY <1>2, <1>3, ConcatProperties
    <3>. QED  BY <3>1, ConcatProperties
  <2>. QED  BY <2>1
<1>5. F \in [1..n -> [Seq(Char) -> Seq(Char)]]
  <2>1. \A k \in 1..n : \A x \in Seq(Char) :
          (IF k = 1 THEN texts[1] ELSE x \o <<Comma>> \o texts[k]) \in Seq(Char)
    <3>1. \A k \in 1..n : k # 1 => k \in 2..n
      BY <1>1
    <3>2. 1 \in 1..n
      BY <1>1
    <3>. QED  BY <1>3, <1>4, <3>1, <3>2
  <2>. QED  BY <2>1
<1>6. PICK f : Runs(f, n, Seq(Char), <<>>, F)
  <2>. HIDE DEF F
  <2>. QED  BY <1>1, <1>2, <1>5, LoopRuns
<1>7. f \in [0..n -> Seq(Char)] /\ \A k \in 1..n : k - 1 \in 0..n /\ f[k] = F[k][f[k-1]]
  <2>. HIDE DEF F
  <2>1. f \in [0..n -> Seq(Char)] /\ \A k \in 1..n : f[k] = F[k][f[k-1]]
    BY <1>6 DEF Runs
  <2>. QED  BY <1>1, <2>1
<1>8. \A k \in 1..n : f[k] = IF k = 1 THEN texts[1] ELSE f[k-1] \o <<Comma>> \o texts[k]
  <2>1. \A k \in 1..n : f[k-1] \in Seq(Char)
    BY <1>7
  <2>. QED  BY <1>7, <2>1
<1>. DEFINE g == [k \in 1..n |-> f[k]]
<1>9. g = Body(g)
  <2>. HIDE DEF F
  <2>1. \A k \in 1..n : k # 1 => k - 1 \in 1..n
    BY <1>1
  <2>. QED  BY <1>1, <1>8, <2>1
<1>10. Text = Body(Text)
  <2>. HIDE DEF Body, F, g
  <2>. QED  BY <1>9
<1>. HIDE DEF Text, F, g
<1>11. Text[1] = texts[1] /\ \A k \in 2..n : Text[k] = Text[k-1] \o <<Comma>> \o texts[k]
  <2>1. 1 \in 1..n /\ \A k \in 2..n : k \in 1..n /\ k # 1
    BY <1>1
  <2>. QED  BY <1>1, <1>10, <2>1
<1>. DEFINE T == {k \in 0..n : k > 0 => Text[k] \in Seq(Char)}
<1>12. 0 \in T
  BY <1>1
<1>13. ASSUME NEW k \in 0..(n-1), k \in T PROVE k + 1 \in T
  <2>1. k + 1 \in 1..n /\ k + 1 \in 0..n /\ (k + 1) - 1 = k
    BY <1>1
  <2>2. CASE k = 0
    BY <1>3, <1>11, <2>1, <2>2
  <2>3. CASE k # 0
    <3>1. k + 1 \in 2..n /\ k > 0
      BY <1>1, <2>3
    <3>2. Text[k] \in Seq(Char)
      BY <1>13, <3>1
    <3>3. Text[k + 1] = Text[k] \o <<Comma>> \o texts[k + 1]
      BY <1>11, <2>1, <3>1
    <3>4. Text[k] \o <<Comma>> \o texts[k + 1] \in Seq(Char)
      BY <1>4, <3>1, <3>2
    <3>. QED  BY <2>1, <3>3, <3>4
  <2>. QED  BY <2>2, <2>3
<1>14. 0..n \subseteq T
  <2>. HIDE DEF T
  <2>. QED  BY <1>1, <1>12, <1>13, UpTo
<1>15. \A k \in 1..n : Text[k] \in Seq(Char)
  <2>1. \A k \in 1..n : k \in 0..n /\ k > 0
    BY <1>1
  <2>. QED  BY <1>14, <2>1
<1>16. Text = [k \in 1..n |-> Text[k]]
  BY <1>1, <1>10
<1>17. Text \in [1..n -> Seq(Char)]
  BY <1>15, <1>16
<1>18. Join(texts) = Text[n]
  BY <1>1 DEF Join, Text
<1>. QED  BY <1>11, <1>17, <1>18 DEF Joined

(* The first k fields are numbers, and none before the last is read as     *)
(* more than 255.                                                          *)
Fine(texts, k) ==
  /\ \A i \in 1..k : Readable(texts[i])
  /\ \A i \in 1..(k-1) : FieldRead(texts[i]) <= 255

(* The loop after k of them.                                               *)
AfterFields(s, texts, k) ==
  /\ s \in Scan
  /\ k <= 6 /\ Fine(texts, k) =>
       /\ ~s.back /\ s.digit = k - 1 /\ s.segment = FieldRead(texts[k])
       /\ \A i \in 1..6 : s.bytes[i] = IF i < k THEN FieldRead(texts[i]) ELSE 0
  /\ k <= 6 /\ ~Fine(texts, k) => s.back
  /\ k > 6 => Stopped(s)

LEMMA FirstField ==
  ASSUME NEW n \in Nat \ {0}, NEW texts \in [1..n -> FieldText]
  PROVE  AfterFields(ScanAll(texts[1]), texts, 1)
<1>1. PICK t \in FieldText : t = texts[1]
  OBVIOUS
<1>2. t \in Seq(Char) /\ <<>> \in Seq(Char) /\ <<>> \o t = t
  BY ConcatEmptySeq DEF FieldText
<1>3. ScanAll(<<>>) = Unscanned
  <2>1. PICK f : Runs(f, Len(<<>>), Scan, Unscanned, Scans(<<>>)) /\ ScanAll(<<>>) = f[Len(<<>>)]
    BY <1>2, ScanAllIs
  <2>2. Len(<<>>) = 0
    OBVIOUS
  <2>. QED  BY <2>1, <2>2 DEF Runs
<1>4. ~Stopped(Unscanned) /\ Unscanned.segment = 0 /\ Unscanned.digit = 0
      /\ \A i \in 1..6 : Unscanned.bytes[i] = 0
  BY DEF Stopped, Unscanned
<1>5. /\ Readable(t) => InField(ScanAll(t), Unscanned, FieldRead(t))
      /\ ~Readable(t) => ScanAll(t).back
  BY <1>2, <1>3, <1>4, ScanField
<1>6. Fine(texts, 1) <=> Readable(t)
  <2>1. \A i \in 1..1 : i = 1
    OBVIOUS
  <2>2. 1 \in 1..1 /\ 1..(1-1) = {}
    OBVIOUS
  <2>. QED  BY <1>1, <2>1, <2>2 DEF Fine
<1>7. ScanAll(t) \in Scan
  BY <1>2, ScanAllIs
<1>8. ASSUME Readable(t)
      PROVE  /\ ~ScanAll(t).back /\ ScanAll(t).digit = 1 - 1 /\ ScanAll(t).segment = FieldRead(t)
             /\ \A i \in 1..6 : ScanAll(t).bytes[i] = IF i < 1 THEN FieldRead(texts[i]) ELSE 0
  BY <1>4, <1>5, <1>8 DEF InField
<1>. QED  BY <1>1, <1>5, <1>6, <1>7, <1>8 DEF AfterFields

LEMMA NextField ==
  ASSUME NEW n \in Nat \ {0}, NEW texts \in [1..n -> FieldText],
         NEW k \in Nat \ {0}, k < n, NEW line \in Seq(Char), AfterFields(ScanAll(line), texts, k)
  PROVE  AfterFields(ScanAll(line \o <<Comma>> \o texts[k+1]), texts, k + 1)
<1>1. PICK t \in FieldText : t = texts[k+1]
  BY SMT
<1>2. t \in Seq(Char)
  BY DEF FieldText
<1>3. PICK s \in Scan : s = ScanAll(line)
  BY ScanAllIs
<1>4. PICK next1 \in Seq(Char) : next1 = line \o <<Comma>>
  BY ScanComma
<1>5. PICK s1 \in Scan : s1 = ScanAll(next1)
  BY ScanAllIs
<1>6. s1 = Scanned(s, Comma)
  BY <1>3, <1>4, <1>5, ScanComma
<1>7. PICK s2 \in Scan : s2 = ScanAll(next1 \o t)
  <2>1. next1 \o t \in Seq(Char)
    BY <1>2, ConcatProperties
  <2>. QED  BY <2>1, ScanAllIs
<1>8. Stopped(s1) => s2 = s1
  BY <1>2, <1>5, <1>7, ScanStopped
<1>9. AfterFields(s, texts, k)
  BY <1>3
<1>10. PICK x \in Int : x = FieldRead(texts[k])
  <2>1. texts[k] \in Seq(Char)
    BY DEF FieldText
  <2>. QED  BY <2>1, FieldReadIs
<1>11. Comma \in Char
  BY DEF Comma, Char, Letter
<1>12. Fine(texts, k + 1) <=> Fine(texts, k) /\ x <= 255 /\ Readable(t)
  <2>1. \A i \in 1..(k + 1) : i \in 1..k \/ i = k + 1
    OBVIOUS
  <2>2. k + 1 \in 1..(k + 1) /\ \A i \in 1..k : i \in 1..(k + 1)
    OBVIOUS
  <2>3. (k + 1) - 1 = k /\ \A i \in 1..k : i \in 1..(k - 1) \/ i = k
    OBVIOUS
  <2>4. k \in 1..k /\ \A i \in 1..(k - 1) : i \in 1..k
    OBVIOUS
  <2>5. (\A i \in 1..(k + 1) : Readable(texts[i])) <=> (\A i \in 1..k : Readable(texts[i])) /\ Readable(t)
    BY <1>1, <2>1, <2>2
  <2>6. (\A i \in 1..((k + 1) - 1) : FieldRead(texts[i]) <= 255)
          <=> (\A i \in 1..(k - 1) : FieldRead(texts[i]) <= 255) /\ x <= 255
    BY <1>10, <2>3, <2>4
  <2>. QED  BY <2>5, <2>6 DEF Fine
<1>13. CASE k <= 6 /\ ~Fine(texts, k)
  <2>1. s.back
    BY <1>9, <1>13 DEF AfterFields
  <2>2. s1 = s
    BY <1>6, <1>11, <2>1, ScannedIs DEF Stopped
  <2>3. s2.back /\ Stopped(s2)
    BY <1>8, <2>1, <2>2 DEF Stopped
  <2>. QED  BY <1>1, <1>4, <1>7, <1>12, <1>13, <2>3 DEF AfterFields
<1>14. CASE k <= 6 /\ Fine(texts, k)
  <2>1. /\ ~s.back /\ s.digit = k - 1 /\ s.segment = x
        /\ \A i \in 1..6 : s.bytes[i] = IF i < k THEN FieldRead(texts[i]) ELSE 0
    BY <1>9, <1>10, <1>14 DEF AfterFields
  <2>2. ~Stopped(s)
    BY <1>14, <2>1 DEF Stopped
  <2>3. CASE x > 255
    <3>1. s1.back
      BY <1>6, <1>11, <2>1, <2>2, <2>3, ScannedIs
    <3>2. s2.back /\ Stopped(s2)
      BY <1>8, <3>1 DEF Stopped
    <3>3. ~Fine(texts, k + 1)
      BY <1>10, <1>12, <2>3
    <3>. QED  BY <1>1, <1>4, <1>7, <3>2, <3>3 DEF AfterFields
  <2>4. CASE x <= 255
    <3>1. /\ s1.bytes = [s.bytes EXCEPT ![s.digit + 1] = s.segment]
          /\ s1.digit = s.digit + 1 /\ s1.segment = 0 /\ ~s1.back
      BY <1>6, <1>11, <2>1, <2>2, <2>4, ScannedIs
    <3>2. s1.digit = k
      BY <2>1, <3>1
    <3>3. \A i \in 1..6 : s1.bytes[i] = IF i < k + 1 THEN FieldRead(texts[i]) ELSE 0
      <4>1. PICK b \in [1..6 -> Int] : b = s.bytes
        BY DEF Scan
      <4>2. s1.bytes = [b EXCEPT ![k] = x]
        BY <2>1, <3>1, <4>1
      <4>3. ASSUME NEW i \in 1..6
            PROVE  s1.bytes[i] = IF i < k + 1 THEN FieldRead(texts[i]) ELSE 0
        <5>1. CASE i = k
          BY <1>10, <4>2, <5>1
        <5>2. CASE i # k
          <6>1. s1.bytes[i] = b[i] /\ (i < k + 1 <=> i < k)
            BY <4>2, <5>2
          <6>. QED  BY <2>1, <4>1, <6>1
        <5>. QED  BY <5>1, <5>2
      <4>. QED  BY <4>3
    <3>4. CASE k = 6
      <4>1. Stopped(s1) /\ ~(k + 1 <= 6)
        BY <3>2, <3>4 DEF Stopped
      <4>. QED  BY <1>1, <1>4, <1>7, <1>8, <4>1 DEF AfterFields
    <3>5. CASE k # 6
      <4>1. ~Stopped(s1) /\ k + 1 <= 6 /\ ~(k + 1 > 6)
        BY <1>14, <3>1, <3>2, <3>5 DEF Stopped
      <4>2. /\ Readable(t) => InField(s2, s1, FieldRead(t))
            /\ ~Readable(t) => s2.back
        BY <1>5, <1>7, <3>1, <4>1, ScanField
      <4>3. CASE Readable(t)
        <5>1. /\ ~s2.back /\ s2.digit = (k + 1) - 1 /\ s2.segment = FieldRead(t)
              /\ s2.bytes = s1.bytes
          BY <3>2, <4>2, <4>3 DEF InField
        <5>2. Fine(texts, k + 1)
          BY <1>10, <1>12, <1>14, <2>4, <4>3
        <5>. QED  BY <1>1, <1>4, <1>7, <3>3, <4>1, <5>1, <5>2 DEF AfterFields
      <4>4. CASE ~Readable(t)
        <5>1. ~Fine(texts, k + 1)
          BY <1>12, <4>4
        <5>. QED  BY <1>1, <1>4, <1>7, <4>1, <4>2, <4>4, <5>1 DEF AfterFields
      <4>. QED  BY <4>3, <4>4
    <3>. QED  BY <3>4, <3>5
  <2>. QED  BY <1>10, <2>3, <2>4
<1>15. CASE k > 6
  <2>1. Stopped(s) /\ ~(k + 1 <= 6)
    BY <1>9, <1>15 DEF AfterFields
  <2>2. s1 = s
    BY <1>6, <1>11, <2>1, ScannedIs
  <2>3. Stopped(s2)
    BY <1>8, <2>1, <2>2
  <2>. QED  BY <1>1, <1>4, <1>7, <2>1, <2>3 DEF AfterFields
<1>. QED  BY <1>13, <1>14, <1>15

LEMMA LineScanned ==
  ASSUME NEW n \in Nat \ {0}, NEW texts \in [1..n -> FieldText]
  PROVE  Join(texts) \in Seq(Char) /\ AfterFields(ScanAll(Join(texts)), texts, n)
<1>1. n \in Nat /\ n \in Nat \ {0} /\ n \in 1..n
  OBVIOUS
<1>2. PICK l : Joined(l, texts, n) /\ Join(texts) = l[n]
  BY <1>1, JoinIs
<1>3. /\ l \in [1..n -> Seq(Char)] /\ l[1] = texts[1]
      /\ \A k \in 2..n : l[k] = l[k-1] \o <<Comma>> \o texts[k]
  BY <1>2 DEF Joined
<1>. DEFINE T == {k \in 0..n : k > 0 => AfterFields(ScanAll(l[k]), texts, k)}
<1>4. 0 \in T
  BY <1>1
<1>5. ASSUME NEW k \in 0..(n-1), k \in T PROVE k + 1 \in T
  <2>1. k + 1 \in 1..n /\ k + 1 \in 0..n /\ (k + 1) - 1 = k
    OBVIOUS
  <2>2. CASE k = 0
    <3>1. AfterFields(ScanAll(l[1]), texts, 1)
      BY <1>1, <1>3, FirstField
    <3>. QED  BY <2>1, <2>2, <3>1
  <2>3. CASE k # 0
    <3>1. k > 0 /\ k \in Nat \ {0} /\ k < n /\ k \in 1..n /\ k + 1 \in 2..n
      BY <2>3
    <3>2. l[k] \in Seq(Char) /\ AfterFields(ScanAll(l[k]), texts, k)
      BY <1>3, <1>5, <3>1
    <3>3. AfterFields(ScanAll(l[k] \o <<Comma>> \o texts[k+1]), texts, k + 1)
      BY <1>1, <3>1, <3>2, NextField
    <3>4. l[k + 1] = l[k] \o <<Comma>> \o texts[k + 1]
      BY <1>3, <2>1, <3>1
    <3>. QED  BY <2>1, <3>3, <3>4
  <2>. QED  BY <2>2, <2>3
<1>6. 0..n \subseteq T
  <2>. HIDE DEF T
  <2>. QED  BY <1>1, <1>4, <1>5, UpTo
<1>7. n \in 0..n /\ n > 0
  OBVIOUS
<1>. QED  BY <1>1, <1>2, <1>3, <1>6, <1>7

Understood(texts) ==
  [ip |-> <<FieldRead(texts[1]), FieldRead(texts[2]), FieldRead(texts[3]), FieldRead(texts[4])>>,
   port |-> 256 * FieldRead(texts[5]) + FieldRead(texts[6])]

LEMMA FirstFour ==
  ASSUME NEW b \in [1..6 -> Int]
  PROVE  SubSeq(b, 1, 4) = <<b[1], b[2], b[3], b[4]>>
<1>1. PICK s \in Seq(Int) : s = b
  <2>1. Seq(Int) = UNION {[1..k -> Int] : k \in Nat}
    BY SeqDef
  <2>2. 6 \in Nat /\ b \in [1..6 -> Int]
    OBVIOUS
  <2>3. b \in UNION {[1..k -> Int] : k \in Nat}
    BY <2>2, Zenon
  <2>4. b \in Seq(Int)
    BY <2>1, <2>3, Zenon
  <2>. QED  BY <2>4, Zenon
<1>2. Len(s) = 6
  BY <1>1
<1>3. PICK t \in Seq(Int) : t = SubSeq(s, 1, 4) /\ Len(t) = 4 /\ \A i \in 1..4 : t[i] = s[i]
  <2>1. /\ SubSeq(s, 1, 4) \in Seq(Int)
        /\ Len(SubSeq(s, 1, 4)) = IF 1 <= 4 THEN 4 - 1 + 1 ELSE 0
        /\ \A i \in 1..(4 - 1 + 1) : SubSeq(s, 1, 4)[i] = s[1 + i - 1]
    <3>1. \A i \in 1..4 : s[i] \in Int
      <4>1. \A i \in 1..Len(s) : s[i] \in Int
        BY ElementOfSeq
      <4>2. \A i \in 1..4 : i \in 1..Len(s)
        BY <1>2
      <4>. QED  BY <4>1, <4>2, Zenon
    <3>2. 1 \in Int /\ 4 \in Int
      OBVIOUS
    <3>. QED  BY <3>1, <3>2, SubSeqProperties
  <2>2. PICK t \in Seq(Int) : t = SubSeq(s, 1, 4)
    BY <2>1
  <2>3. Len(t) = 4 /\ \A i \in 1..4 : t[i] = s[1 + i - 1]
    BY <2>1, <2>2
  <2>4. \A i \in 1..4 : 1 + i - 1 = i
    OBVIOUS
  <2>. QED  BY <2>2, <2>3, <2>4
<1>4. PICK u \in Seq(Int) : u = <<b[1], b[2], b[3], b[4]>>
  <2>1. b[1] \in Int /\ b[2] \in Int /\ b[3] \in Int /\ b[4] \in Int
    OBVIOUS
  <2>2. <<b[1], b[2], b[3], b[4]>> \in Seq(Int)
    BY <2>1
  <2>. QED  BY <2>2
<1>5. Len(u) = 4 /\ u[1] = b[1] /\ u[2] = b[2] /\ u[3] = b[3] /\ u[4] = b[4]
  BY <1>4
<1>6. \A i \in 1..4 : t[i] = u[i]
  BY <1>1, <1>3, <1>5
<1>7. t = u
  BY <1>3, <1>5, <1>6, SeqEqual
<1>. QED  BY <1>1, <1>3, <1>4, <1>7

(* The six fields of a line that is understood.                            *)
Bytes(texts) == \A i \in 1..6 : Readable(texts[i]) /\ FieldRead(texts[i]) \in 0..255

LEMMA LineParsed ==
  ASSUME NEW n \in Nat \ {0}, NEW texts \in [1..n -> FieldText]
  PROVE  ParsePort(Join(texts)) = IF n = 6 /\ Bytes(texts) THEN Understood(texts) ELSE Unparsed
<1>1. PICK s \in Scan : s = ScanAll(Join(texts)) /\ AfterFields(s, texts, n)
  BY LineScanned DEF AfterFields
<1>2. PICK b \in [1..6 -> Int] : b = [s.bytes EXCEPT ![6] = s.segment]
  BY DEF Scan
<1>3. b[6] = s.segment /\ \A i \in 1..5 : b[i] = s.bytes[i]
  BY <1>2 DEF Scan
<1>. DEFINE wrong == \E i \in 1..6 : b[i] < 0 \/ b[i] > 255
<1>4. ParsePort(Join(texts)) =
        IF s.back \/ s.digit # 5 \/ wrong THEN Unparsed
        ELSE [ip |-> SubSeq(b, 1, 4), port |-> 256 * b[5] + b[6]]
  BY <1>1, <1>2, Zenon DEF ParsePort
<1>. HIDE DEF wrong
<1>5. CASE n < 6
  <2>1. s.back \/ s.digit = n - 1
    BY <1>1, <1>5 DEF AfterFields
  <2>2. s.back \/ s.digit # 5
    BY <1>5, <2>1
  <2>. QED  BY <1>4, <1>5, <2>2
<1>6. CASE n > 6
  <2>1. s.back \/ s.digit = 6
    BY <1>1, <1>6 DEF AfterFields, Stopped
  <2>2. s.back \/ s.digit # 5
    BY <2>1
  <2>. QED  BY <1>4, <1>6, <2>2
<1>7. Fine(texts, 6) <=> (\A i \in 1..6 : Readable(texts[i])) /\ \A i \in 1..5 : FieldRead(texts[i]) <= 255
  BY DEF Fine
<1>8. CASE n = 6 /\ ~Fine(texts, 6)
  <2>1. s.back
    BY <1>1, <1>8 DEF AfterFields
  <2>2. ~Bytes(texts)
    <3>1. \A i \in 1..5 : i \in 1..6
      OBVIOUS
    <3>2. ASSUME Bytes(texts), NEW i \in 1..5 PROVE FieldRead(texts[i]) <= 255
      <4>1. FieldRead(texts[i]) \in 0..255
        BY <3>1, <3>2 DEF Bytes
      <4>2. PICK x \in 0..255 : x = FieldRead(texts[i])
        BY <4>1, Zenon
      <4>3. x <= 255
        OBVIOUS
      <4>. QED  BY <4>2, <4>3, Zenon
    <3>3. Bytes(texts) => Fine(texts, 6)
      BY <1>7, <3>2 DEF Bytes
    <3>. QED  BY <1>8, <3>3
  <2>. QED  BY <1>4, <1>8, <2>1, <2>2
<1>9. CASE n = 6 /\ Fine(texts, 6)
  <2>1. /\ ~s.back /\ s.digit = 5 /\ s.segment = FieldRead(texts[6])
        /\ \A i \in 1..6 : s.bytes[i] = IF i < 6 THEN FieldRead(texts[i]) ELSE 0
    BY <1>1, <1>9 DEF AfterFields
  <2>2. \A i \in 1..6 : b[i] = FieldRead(texts[i])
    <3>1. \A i \in 1..5 : b[i] = FieldRead(texts[i])
      BY <1>3, <2>1
    <3>2. b[6] = FieldRead(texts[6])
      BY <1>3, <2>1
    <3>3. \A i \in 1..6 : i \in 1..5 \/ i = 6
      OBVIOUS
    <3>. QED  BY <3>1, <3>2, <3>3, Zenon
  <2>3. ~wrong <=> Bytes(texts)
    <3>1. \A i \in 1..6 : b[i] \in Int /\ Readable(texts[i])
      BY <1>7, <1>9
    <3>2. ASSUME NEW i \in 1..6 PROVE ~(b[i] < 0 \/ b[i] > 255) <=> b[i] \in 0..255
      <4>1. PICK x \in Int : x = b[i]
        OBVIOUS
      <4>2. ~(x < 0 \/ x > 255) <=> x \in 0..255
        OBVIOUS
      <4>. QED  BY <4>1, <4>2, Zenon
    <3>3. ~wrong <=> \A i \in 1..6 : b[i] \in 0..255
      BY <3>2, Zenon DEF wrong
    <3>4. ASSUME Bytes(texts), NEW i \in 1..6 PROVE b[i] \in 0..255
      <4>1. FieldRead(texts[i]) \in 0..255 /\ b[i] = FieldRead(texts[i])
        BY <2>2, <3>4, Zenon DEF Bytes
      <4>. QED  BY <4>1, Zenon
    <3>5. ASSUME \A i \in 1..6 : b[i] \in 0..255, NEW i \in 1..6
          PROVE  Readable(texts[i]) /\ FieldRead(texts[i]) \in 0..255
      <4>1. b[i] \in 0..255 /\ b[i] = FieldRead(texts[i])
        BY <2>2, <3>5, Zenon
      <4>. QED  BY <3>1, <4>1, Zenon
    <3>. QED  BY <3>3, <3>4, <3>5, Zenon DEF Bytes
  <2>4. [ip |-> SubSeq(b, 1, 4), port |-> 256 * b[5] + b[6]] = Understood(texts)
    <3>1. /\ b[1] = FieldRead(texts[1]) /\ b[2] = FieldRead(texts[2])
          /\ b[3] = FieldRead(texts[3]) /\ b[4] = FieldRead(texts[4])
          /\ b[5] = FieldRead(texts[5]) /\ b[6] = FieldRead(texts[6])
      BY <2>2
    <3>. QED  BY <3>1, FirstFour, Zenon DEF Understood
  <2>. QED  BY <1>4, <1>9, <2>1, <2>3, <2>4, Zenon
<1>10. n < 6 \/ n > 6 \/ n = 6
  OBVIOUS
<1>11. ~(n < 6 /\ n = 6) /\ ~(n > 6 /\ n = 6)
  OBVIOUS
<1>. QED  BY <1>5, <1>6, <1>8, <1>9, <1>10, <1>11

-----------------------------------------------------------------------------
(***************************************************************************)
(* The decimals of a byte are read as that byte.                           *)
(***************************************************************************)
Reads(t, x) == t \in FieldText /\ Readable(t) /\ FieldRead(t) = x

LEMMA DigitsRead ==
  ASSUME NEW t \in Seq(0..9), NEW n \in 1..3, Len(t) = n
  PROVE  LET x == IF n = 1 THEN t[1] ELSE IF n = 2 THEN 10 * t[1] + t[2]
                  ELSE 100 * t[1] + 10 * t[2] + t[3]
         IN  x <= 255 => Reads(t, x)
<1>1. \A i \in 1..n : t[i] \in 0..9
  BY ElementOfSeq
<1>2. \A i \in 1..n : t[i] # Comma /\ t[i] # Letter /\ t[i] # Blank /\ t[i] \in Nat
  BY <1>1 DEF Comma, Letter, Blank
<1>3. t \in Seq(Char)
  <2>1. 0..9 \subseteq Char
    BY DEF Char, Letter
  <2>. QED  BY <2>1
<1>4. t \in FieldText /\ Readable(t)
  BY <1>2, <1>3 DEF FieldText, Readable
<1>5. PICK v : Values(v, t) /\ FieldValue(t) = v[n]
  BY <1>3, FieldValueIs
<1>6. v[0] = 0 /\ \A k \in 1..n : v[k] = 10 * v[k-1] + t[k]
  BY <1>2, <1>5 DEF Values
<1>7. v[1] = t[1]
  <2>1. v[1] = 10 * v[0] + t[1] /\ t[1] \in Nat
    BY <1>2, <1>6
  <2>. QED  BY <1>6, <2>1
<1>8. n > 1 => v[2] = 10 * t[1] + t[2]
  BY <1>6, <1>7
<1>9. n > 2 => v[3] = 100 * t[1] + 10 * t[2] + t[3]
  <2>1. SUFFICES ASSUME n > 2 PROVE v[3] = 100 * t[1] + 10 * t[2] + t[3]
    OBVIOUS
  <2>2. t[1] \in Nat /\ t[2] \in Nat /\ t[3] \in Nat
    BY <1>2, <2>1
  <2>3. v[3] = 10 * v[2] + t[3]
    BY <1>6, <2>1
  <2>. QED  BY <1>8, <2>1, <2>2, <2>3
<1>10. FieldValue(t) = IF n = 1 THEN t[1] ELSE IF n = 2 THEN 10 * t[1] + t[2]
                       ELSE 100 * t[1] + 10 * t[2] + t[3]
  BY <1>5, <1>7, <1>8, <1>9
<1>11. PICK x \in Nat : x = FieldValue(t)
  BY <1>3, FieldValueIs
<1>12. x <= 255 => FieldRead(t) = x
  <2>1. x <= 255 => x \in 0..255
    OBVIOUS
  <2>2. x <= 255 => IntOf(x) = x
    BY <2>1, IntOfSmall, Zenon
  <2>. QED  BY <1>11, <2>2, Zenon DEF FieldRead
<1>. QED  BY <1>4, <1>10, <1>11, <1>12 DEF Reads

LEMMA DecimalRead ==
  ASSUME NEW x \in 0..255
  PROVE  Reads(Decimal(x), x)
<1>1. CASE x > 99
  <2>1. PICK a \in 0..9 : a = x \div 100
    BY <1>1
  <2>2. PICK b \in 0..9 : b = (x \div 10) % 10
    OBVIOUS
  <2>3. PICK c \in 0..9 : c = x % 10
    OBVIOUS
  <2>4. <<a, b, c>> \in Seq(0..9) /\ Len(<<a, b, c>>) = 3
    OBVIOUS
  <2>5. 100 * a + 10 * b + c = x
    BY <2>1, <2>2, <2>3
  <2>6. Reads(<<a, b, c>>, 100 * a + 10 * b + c)
    <3>1. PICK t \in Seq(0..9) : t = <<a, b, c>>
      BY <2>4
    <3>2. Len(t) = 3 /\ t[1] = a /\ t[2] = b /\ t[3] = c /\ 3 \in 1..3
      BY <3>1
    <3>3. 100 * t[1] + 10 * t[2] + t[3] <= 255
      BY <2>5, <3>2
    <3>4. Reads(t, 100 * t[1] + 10 * t[2] + t[3])
      BY <3>2, <3>3, DigitsRead, SMTT(30)
    <3>. QED  BY <3>1, <3>2, <3>4
  <2>7. Decimal(x) = <<a, b, c>>
    BY <1>1, <2>1, <2>2, <2>3 DEF Decimal
  <2>. QED  BY <2>5, <2>6, <2>7
<1>2. CASE ~(x > 99) /\ x > 9
  <2>1. PICK a \in 0..9 : a = x \div 10
    BY <1>2
  <2>2. PICK b \in 0..9 : b = x % 10
    OBVIOUS
  <2>3. <<a, b>> \in Seq(0..9) /\ Len(<<a, b>>) = 2
    OBVIOUS
  <2>4. Reads(<<a, b>>, 10 * a + b)
    <3>1. PICK t \in Seq(0..9) : t = <<a, b>>
      BY <2>3
    <3>2. Len(t) = 2 /\ t[1] = a /\ t[2] = b /\ 2 \in 1..3
      BY <3>1
    <3>3. 10 * t[1] + t[2] <= 255
      BY <3>2
    <3>4. Reads(t, 10 * t[1] + t[2])
      BY <3>2, <3>3, DigitsRead
    <3>. QED  BY <3>1, <3>2, <3>4
  <2>5. 10 * a + b = x
    BY <2>1, <2>2
  <2>6. Decimal(x) = <<a, b>>
    BY <1>2, <2>1, <2>2 DEF Decimal
  <2>. QED  BY <2>4, <2>5, <2>6
<1>3. CASE ~(x > 99) /\ ~(x > 9)
  <2>1. x \in 0..9
    BY <1>3
  <2>2. PICK t \in Seq(0..9) : t = <<x>>
    <3>1. <<x>> \in Seq(0..9)
      BY <2>1
    <3>. QED  BY <3>1
  <2>3. Len(t) = 1 /\ t[1] = x /\ 1 \in 1..3
    BY <2>2
  <2>4. Reads(t, t[1])
    <3>1. t[1] <= 255
      BY <2>3
    <3>. QED  BY <2>3, <3>1, DigitsRead
  <2>5. Decimal(x) = t
    BY <1>3, <2>2 DEF Decimal
  <2>. QED  BY <2>3, <2>4, <2>5
<1>. QED  BY <1>1, <1>2, <1>3

-----------------------------------------------------------------------------
(***************************************************************************)
(* The address commands.                                                   *)
(***************************************************************************)
Verdict(f) ==
  LET v == [i \in 1..Len(f) |-> FieldRead(f[i])]
      good == Len(f) = 6 /\ \A i \in 1..Len(f) : GoodField(f[i])
      addr == [ip |-> <<v[1], v[2], v[3], v[4]>>, port |-> 256 * v[5] + v[6]]
  IN  IF good /\ Usable(addr) THEN addr ELSE Unparsed

PortJudged(s) == s.by = "PORT" => s.addr = Verdict(s.fields)

PasvJudged(s) == s.by = "PASV" => ParsePort(s.line) = s.addr /\ s.addr.port >= 1024

(* The two properties look at the command alone.                           *)
LEMMA Judged == /\ PortUnderstood <=> PortJudged(said)
                /\ PasvAnnounced <=> PasvJudged(said)
BY DEF PortUnderstood, PortJudged, PasvAnnounced, PasvJudged, Verdict

LEMMA JudgedNext == /\ PortUnderstood' <=> PortJudged(said')
                    /\ PasvAnnounced' <=> PasvJudged(said')
BY DEF PortUnderstood, PortJudged, PasvAnnounced, PasvJudged, Verdict

LEMMA PortIsUnderstood ==
  ASSUME NEW n \in Nat \ {0}, NEW fields \in [1..n -> Fields], Port(fields), said' # said
  PROVE  PortUnderstood'
<1>1. Fields \subseteq FieldText
  <2>1. ASSUME NEW f \in Fields PROVE f \in FieldText
    BY FieldsAssumption DEF FieldText, Char
  <2>. QED  BY <2>1
<1>2. PICK f \in [1..n -> FieldText] : f = fields
  BY <1>1
<1>3. Len(f) = n
  OBVIOUS
<1>. DEFINE parsed == ParsePort(Join(f))
            good == Len(f) = 6 /\ \A i \in 1..Len(f) : GoodField(f[i])
            v == [i \in 1..Len(f) |-> FieldRead(f[i])]
            addr == [ip |-> <<v[1], v[2], v[3], v[4]>>, port |-> 256 * v[5] + v[6]]
<1>4. said' = [by |-> "PORT", fields |-> f, line |-> Join(f),
               addr |-> IF Usable(parsed) THEN parsed ELSE Unparsed]
  BY <1>2 DEF Port
<1>5. good <=> n = 6 /\ Bytes(f)
  <2>1. CASE n = 6
    <3>1. good <=> \A i \in 1..6 : Readable(f[i]) /\ FieldRead(f[i]) \in 0..255
      BY <1>3, <2>1 DEF GoodField, Readable
    <3>. HIDE DEF good
    <3>. QED  BY <2>1, <3>1, Zenon DEF Bytes
  <2>2. CASE n # 6
    BY <1>3, <2>2
  <2>. QED  BY <2>1, <2>2
<1>6. parsed = IF good THEN Understood(f) ELSE Unparsed
  <2>. HIDE DEF good
  <2>. QED  BY <1>5, LineParsed
<1>7. good => addr = Understood(f)
  <2>1. SUFFICES ASSUME good PROVE addr = Understood(f)
    OBVIOUS
  <2>2. \A i \in 1..6 : v[i] = FieldRead(f[i])
    <3>1. Len(f) = 6
      BY <2>1
    <3>. QED  BY <3>1
  <2>3. /\ v[1] = FieldRead(f[1]) /\ v[2] = FieldRead(f[2]) /\ v[3] = FieldRead(f[3])
        /\ v[4] = FieldRead(f[4]) /\ v[5] = FieldRead(f[5]) /\ v[6] = FieldRead(f[6])
    BY <2>2
  <2>. HIDE DEF v
  <2>. QED  BY <2>3, Zenon DEF Understood
<1>8. (IF Usable(parsed) THEN parsed ELSE Unparsed) = IF good /\ Usable(addr) THEN addr ELSE Unparsed
  <2>. HIDE DEF good, addr, parsed
  <2>. QED  BY <1>6, <1>7
<1>9. said'.addr = (IF good /\ Usable(addr) THEN addr ELSE Unparsed) /\ said'.fields = f
  <2>. HIDE DEF good, addr, parsed
  <2>. QED  BY <1>4, <1>8
<1>10. said'.addr = Verdict(f) /\ said'.fields = f
  <2>. HIDE DEF parsed
  <2>. QED  BY <1>9, Zenon DEF Verdict
<1>11. PortJudged(said')
  BY <1>10, Zenon DEF PortJudged
<1>. QED  BY <1>11, JudgedNext

LEMMA PasvIsAnnounced ==
  ASSUME NEW ip \in Hosts, Pasv(ip)
  PROVE  PasvAnnounced'
<1>1. ip \in [1..4 -> 0..255]
  BY HostsAssumption
<1>2. PICK p \in Nat : p = next /\ 1024 <= p /\ p <= 65535
  BY PortsAssumption DEF Pasv
<1>3. p % 65536 = p
  BY <1>2
<1>4. PICK high \in 0..255 : high = p \div 256
  BY <1>2
<1>5. PICK low \in 0..255 : low = p % 256
  BY <1>2
<1>6. 256 * high + low = p
  BY <1>4, <1>5
<1>7. /\ Reads(Decimal(ip[1]), ip[1]) /\ Reads(Decimal(ip[2]), ip[2])
      /\ Reads(Decimal(ip[3]), ip[3]) /\ Reads(Decimal(ip[4]), ip[4])
      /\ Reads(Decimal(high), high) /\ Reads(Decimal(low), low)
  <2>1. ip[1] \in 0..255 /\ ip[2] \in 0..255 /\ ip[3] \in 0..255 /\ ip[4] \in 0..255
    BY <1>1
  <2>. QED  BY <2>1, DecimalRead
<1>. DEFINE texts == <<Decimal(ip[1]), Decimal(ip[2]), Decimal(ip[3]), Decimal(ip[4]),
                       Decimal(high), Decimal(low)>>
<1>8. PICK t \in [1..6 -> FieldText] : t = texts
  <2>1. /\ Decimal(ip[1]) \in FieldText /\ Decimal(ip[2]) \in FieldText
        /\ Decimal(ip[3]) \in FieldText /\ Decimal(ip[4]) \in FieldText
        /\ Decimal(high) \in FieldText /\ Decimal(low) \in FieldText
    BY <1>7 DEF Reads
  <2>2. texts \in [1..6 -> FieldText]
    BY <2>1
  <2>. QED  BY <2>2
<1>9. /\ Reads(t[1], ip[1]) /\ Reads(t[2], ip[2]) /\ Reads(t[3], ip[3]) /\ Reads(t[4], ip[4])
      /\ Reads(t[5], high) /\ Reads(t[6], low)
  BY <1>7, <1>8
<1>10. Bytes(t)
  <2>1. ASSUME NEW i \in 1..6 PROVE Readable(t[i]) /\ FieldRead(t[i]) \in 0..255
    <3>1. \E x \in 0..255 : Reads(t[i], x)
      <4>1. i \in {1, 2, 3, 4, 5, 6}
        OBVIOUS
      <4>. QED  BY <1>1, <1>9, <4>1
    <3>. QED  BY <3>1 DEF Reads
  <2>. QED  BY <2>1 DEF Bytes
<1>11. ParsePort(Join(t)) = Understood(t)
  <2>1. 6 \in Nat \ {0} /\ 6 = 6
    OBVIOUS
  <2>. QED  BY <1>10, <2>1, LineParsed
<1>12. Understood(t) = [ip |-> ip, port |-> p]
  <2>1. /\ FieldRead(t[1]) = ip[1] /\ FieldRead(t[2]) = ip[2] /\ FieldRead(t[3]) = ip[3]
        /\ FieldRead(t[4]) = ip[4] /\ FieldRead(t[5]) = high /\ FieldRead(t[6]) = low
    BY <1>9 DEF Reads
  <2>2. <<ip[1], ip[2], ip[3], ip[4]>> = ip
    <3>1. PICK u : u = <<ip[1], ip[2], ip[3], ip[4]>>
      OBVIOUS
    <3>2. u = [i \in 1..4 |-> u[i]] /\ u[1] = ip[1] /\ u[2] = ip[2] /\ u[3] = ip[3] /\ u[4] = ip[4]
      BY <3>1
    <3>3. \A i \in 1..4 : u[i] = ip[i]
      BY <3>2
    <3>4. ip = [i \in 1..4 |-> ip[i]]
      BY <1>1
    <3>. QED  BY <3>1, <3>2, <3>3, <3>4
  <2>3. 256 * FieldRead(t[5]) + FieldRead(t[6]) = p
    BY <1>6, <2>1
  <2>. QED  BY <2>1, <2>2, <2>3 DEF Understood
<1>13. said' = [by |-> "PASV", fields |-> <<>>, line |-> Announced(ip, p),
                addr |-> [ip |-> ip, port |-> p]]
  BY <1>2, <1>3 DEF Pasv
<1>14. Announced(ip, p) = Join(t)
  BY <1>4, <1>5, <1>8 DEF Announced
<1>15. said'.line = Join(t) /\ said'.addr = [ip |-> ip, port |-> p] /\ said'.addr.port = p
  BY <1>13, <1>14
<1>16. ParsePort(said'.line) = said'.addr /\ said'.addr.port >= 1024
  BY <1>2, <1>11, <1>12, <1>15
<1>. QED  BY <1>16 DEF PasvAnnounced

TextInv == ListingInv /\ PortUnderstood /\ PasvAnnounced

(* Only PORT and PASV say anything.                                        *)
LEMMA NobodySaid ==
  ASSUME said' = NoCommand PROVE PortUnderstood' /\ PasvAnnounced'
<1>1. said'.by = "none"
  BY DEF NoCommand
<1>2. ~(said'.by = "PORT") /\ ~(said'.by = "PASV")
  BY <1>1
<1>. QED  BY <1>2, Zenon DEF PortUnderstood, PasvAnnounced

LEMMA SameSaid ==
  ASSUME said' = said, PortUnderstood, PasvAnnounced PROVE PortUnderstood' /\ PasvAnnounced'
<1>1. PortJudged(said) /\ PasvJudged(said)
  BY Judged
<1>2. PortJudged(said') /\ PasvJudged(said')
  BY <1>1, Zenon
<1>. QED  BY <1>2, JudgedNext

LEMMA SameListing ==
  ASSUME UNCHANGED <<dir, ls, fault>>, ListingInv PROVE ListingInv'
BY DEF ListingInv, ListingFits

LEMMA TextInit == Init => TextInv
<1>. SUFFICES ASSUME Init PROVE TextInv
  OBVIOUS
<1>1. said.by = "none"
  BY DEF Init, NoCommand
<1>2. ~(said.by = "PORT") /\ ~(said.by = "PASV")
  BY <1>1
<1>3. PortUnderstood /\ PasvAnnounced
  BY <1>2, Zenon DEF PortUnderstood, PasvAnnounced
<1>. QED  BY <1>3, InitSound DEF TextInv

LEMMA TextStep == TextInv /\ [Next]_vars => TextInv'
<1>. SUFFICES ASSUME TextInv, [Next]_vars PROVE TextInv'
  OBVIOUS
<1>1. ASSUME UNCHANGED vars PROVE TextInv'
  <2>1. UNCHANGED <<dir, ls, fault>> /\ said' = said
    BY <1>1 DEF vars
  <2>. QED  BY <2>1, SameListing, SameSaid DEF TextInv
<1>2. ASSUME NEW n \in FieldCounts, NEW fields \in [1..n -> Fields], Port(fields) PROVE TextInv'
  <2>1. UNCHANGED <<dir, ls>> /\ (UNCHANGED fault \/ fault' = "overwritten")
    BY <1>2 DEF Port
  <2>2. ListingInv'
    <3>1. CASE UNCHANGED fault
      BY <2>1, <3>1, SameListing DEF TextInv
    <3>2. CASE fault' = "overwritten"
      BY <2>1, <3>2 DEF ListingInv, ListingFits, TextInv
    <3>. QED  BY <2>1, <3>1, <3>2
  <2>3. CASE said' = said
    BY <2>2, <2>3, SameSaid DEF TextInv
  <2>4. CASE said' # said
    <3>1. n \in Nat \ {0}
      BY CountsAssumption
    <3>2. PortUnderstood'
      BY <1>2, <2>4, <3>1, PortIsUnderstood
    <3>3. said'.by = "PORT"
      BY <1>2, <2>4 DEF Port
    <3>4. ~(said'.by = "PASV")
      BY <3>3
    <3>. QED  BY <2>2, <3>2, <3>4 DEF TextInv, PasvAnnounced
  <2>. QED  BY <2>3, <2>4
<1>3. ASSUME NEW ip \in Hosts, Pasv(ip) PROVE TextInv'
  <2>1. ListingInv'
    BY <1>3, SameListing DEF Pasv, TextInv
  <2>2. PasvAnnounced'
    BY <1>3, PasvIsAnnounced
  <2>3. said'.by = "PASV"
    BY <1>3 DEF Pasv
  <2>4. ~(said'.by = "PORT")
    BY <2>3
  <2>. QED  BY <2>1, <2>2, <2>4 DEF TextInv, PortUnderstood
<1>4. ASSUME Answered PROVE TextInv'
  <2>1. ListingInv'
    BY <1>4, SameListing DEF Answered, TextInv
  <2>. QED  BY <1>4, <2>1, NobodySaid DEF Answered, TextInv
<1>5. ASSUME ~Halted, Opendir \/ Grow \/ Malloc \/ Fill \/ Listed PROVE TextInv'
  <2>1. ListingInv'
    BY <1>5, OpendirSound, GrowSound, MallocSound, FillSound, ListedSound DEF TextInv
  <2>2. said' = said
    BY <1>5 DEF Opendir, Grow, Malloc, Fill, Listed
  <2>. QED  BY <2>1, <2>2, SameSaid DEF TextInv
<1>. QED  BY <1>1, <1>2, <1>3, <1>4, <1>5 DEF Next

(***************************************************************************)
(* Any line, of any number of fields of any length, is understood exactly  *)
(* when it has six of digits and blanks that an int which wraps around     *)
(* reads as 0..255, and then as those numbers.  So parse_port_args() of    *)
(* src/src/commands/port.c, unless it has come to grief behind its array.  *)
(***************************************************************************)
THEOREM PortsUnderstood == Spec => []PortUnderstood
<1>1. TextInv => PortUnderstood
  BY DEF TextInv
<1>. QED  BY <1>1, TextInit, TextStep, PTL DEF Spec

(***************************************************************************)
(* The six numbers pasv.c announces are read by parse_port_args() as the   *)
(* address the channel listens at, whatever the address of the console and *)
(* wherever the port counter is.                                           *)
(***************************************************************************)
THEOREM PortsAnnounced == Spec => []PasvAnnounced
<1>1. TextInv => PasvAnnounced
  BY DEF TextInv
<1>. QED  BY <1>1, TextInit, TextStep, PTL DEF Spec

(***************************************************************************)
(* The buffer get_buffer_size() asks for takes every line that             *)
(* vfs_list_directory() writes, for a directory of any length, unless the  *)
(* directory has grown in between.                                         *)
(***************************************************************************)
THEOREM ListingsFit == Spec => []ListingFits
<1>1. TextInv => ListingFits
  BY DEF TextInv, ListingInv
<1>. QED  BY <1>1, TextInit, TextStep, PTL DEF Spec

(***************************************************************************)
(* format_filesize() shows every size up to the largest int as it should,  *)
(* but for those strnumlen() miscounts; of these it loses no digit but the *)
(* 1 of one that begins with 10, and adds nothing but a 0 in front of 0    *)
(* and a comma in front of 6 or of 9 digits.                               *)
(***************************************************************************)
THEOREM SizesAreRight == Spec => []SizesRight
<1>1. TextInv => SizesRight
  BY ListingShowsSizes DEF TextInv
<1>. QED  BY <1>1, TextInit, TextStep, PTL DEF Spec

=============================================================================
