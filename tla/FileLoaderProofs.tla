-------------------------- MODULE FileLoaderProofs --------------------------
(***************************************************************************)
(* What is proved of modules SdFat and FileLoader: for any number of       *)
(* devices, rows, open files and directories, and files, blocks and memory *)
(* areas of any size.                                                      *)
(***************************************************************************)
EXTENDS FileLoader, FiniteSetTheorems, SequenceTheorems, TLAPS

-----------------------------------------------------------------------------
(***************************************************************************)
(* The invariant of the driver.                                            *)
(***************************************************************************)
Transfers == {"read", "write"}

Typed ==
  /\ table \in [1..Rows -> Devs \union {NoDev, Other}]
  /\ priv \in [Devs -> Private]
  /\ file \in [Files -> File \union {NoFile}]
  /\ iter \in [Iters -> Devs \union {NoDev}]
  /\ content \in Seq(Bytes) /\ Len(content) <= MaxSize
  /\ call \in Call
  /\ fault \in {"none", "null deref", "use after free"}

(* A call in progress holds a device, and works on what it was given.      *)
CallInv ==
  call.on =>
    /\ call.dev \in Devs /\ Live(call.dev)
    /\ call.op = "open" => call.obj \in Files
    /\ call.op \in FileOps \union Transfers => call.obj \in Files /\ IsOpen(call.obj)
    /\ call.op \in DirOps \union {"diropen"} => call.obj \in Iters

(* Rows and devices are in one-to-one correspondence.                      *)
RowsInv ==
  /\ \A i \in 1..Rows : table[i] \in Devs => Live(table[i])
  /\ \A i, j \in 1..Rows : table[i] \in Devs /\ table[i] = table[j] => i = j
  /\ \A d \in Devs : Live(d) => \E i \in 1..Rows : table[i] = d

(* The bytes the card has moved for a transfer lie between the place where *)
(* it stood and the place where it stands now, during the call and after   *)
(* it; the answer counts them, unless the card has stopped the transfer.   *)
TransferInv ==
  call.op \in Transfers =>
    /\ call.obj \in Files /\ IsOpen(call.obj)
    /\ call.buf \in [1..call.len -> Bytes]
    /\ call.done \in 0..call.len
    /\ \A k \in 1..call.done : call.from + k <= Len(content)
    /\ call.op = "read" => \A k \in 1..call.done : call.buf[k] = content[call.from + k]
    /\ call.op = "write" => \A k \in 1..call.done : content[call.from + k] = k
    /\ call.op = "read" => file[call.obj].cpos = call.from + call.done
    /\ call.op = "write" => WritesAt(file[call.obj]) = call.from + call.done
    /\ ~call.on => call.ret = call.done \/ (call.ret = 0 /\ call.done < call.len)

SdInv == Typed /\ CallInv /\ RowsInv /\ MutexReturned /\ TransferInv /\ PositionKept

-----------------------------------------------------------------------------
(***************************************************************************)
(* Functions and records with one element changed.                         *)
(***************************************************************************)
LEMMA UpdateIs ==
  ASSUME NEW D, NEW R, NEW g \in [D -> R], NEW d \in D, NEW v
  PROVE  /\ DOMAIN [g EXCEPT ![d] = v] = D
         /\ [g EXCEPT ![d] = v][d] = v
         /\ \A x \in D : x # d => [g EXCEPT ![d] = v][x] = g[x]
         /\ v \in R => [g EXCEPT ![d] = v] \in [D -> R]
OBVIOUS

(* Taking and giving back the mutex changes nothing else.                  *)
SameBut(q, d, n) ==
  /\ q \in [Devs -> Private]
  /\ \A x \in Devs : x # d => q[x] = priv[x]
  /\ q[d].state = priv[d].state /\ q[d].stuck = priv[d].stuck /\ q[d].locks = n

LEMMA LockedIs ==
  ASSUME Typed, NEW d \in Devs
  PROVE  /\ priv[d].locks \in 0..1 => SameBut(Locked(d), d, priv[d].locks + 1)
         /\ priv[d].locks \in 1..2 => SameBut(Unlocked(d), d, priv[d].locks - 1)
<1>1. priv \in [Devs -> Private]
  BY DEF Typed
<1>2. PICK k \in Private : k = priv[d]
  BY <1>1
<1>3. /\ k.state \in {"free", "orphan", "device"} /\ k.locks \in 0..2 /\ k.stuck \in BOOLEAN
      /\ k = [state |-> k.state, locks |-> k.locks, stuck |-> k.stuck]
  BY DEF Private
<1>4. ASSUME NEW n \in 0..2
      PROVE  /\ [k EXCEPT !.locks = n] \in Private
             /\ [k EXCEPT !.locks = n].state = k.state
             /\ [k EXCEPT !.locks = n].stuck = k.stuck
             /\ [k EXCEPT !.locks = n].locks = n
  BY <1>3 DEF Private
<1>5. ASSUME NEW n \in 0..2
      PROVE  SameBut([priv EXCEPT ![d] = [k EXCEPT !.locks = n]], d, n)
  <2>1. PICK v \in Private : v = [k EXCEPT !.locks = n]
    BY <1>4
  <2>2. SameBut([priv EXCEPT ![d] = v], d, n)
    BY <1>1, <1>2, <1>4, <2>1, UpdateIs DEF SameBut
  <2>. QED  BY <2>1, <2>2
<1>6. /\ Locked(d) = [priv EXCEPT ![d] = [priv[d] EXCEPT !.locks = priv[d].locks + 1]]
      /\ Unlocked(d) = [priv EXCEPT ![d] = [priv[d] EXCEPT !.locks = priv[d].locks - 1]]
  BY DEF Locked, Unlocked
<1>7. priv[d].locks = k.locks
  BY <1>2
<1>8. ASSUME k.locks \in 0..1
      PROVE  SameBut(Locked(d), d, k.locks + 1)
  <2>1. k.locks + 1 \in 0..2
    BY <1>8
  <2>2. Locked(d) = [priv EXCEPT ![d] = [k EXCEPT !.locks = k.locks + 1]]
    BY <1>2, <1>6, Zenon
  <2>. QED  BY <1>5, <2>1, <2>2, Zenon
<1>9. ASSUME k.locks \in 1..2
      PROVE  SameBut(Unlocked(d), d, k.locks - 1)
  <2>1. k.locks - 1 \in 0..2
    BY <1>9
  <2>2. Unlocked(d) = [priv EXCEPT ![d] = [k EXCEPT !.locks = k.locks - 1]]
    BY <1>2, <1>6, Zenon
  <2>. QED  BY <1>5, <2>1, <2>2, Zenon
<1>. QED  BY <1>7, <1>8, <1>9

-----------------------------------------------------------------------------
(***************************************************************************)
(* How calls begin and end.                                                *)
(***************************************************************************)
Answers == -1..(MaxSize + MaxLen)

LEMMA NoCallIs ==
  ASSUME NEW v \in Answers
  PROVE  /\ [NoCall EXCEPT !.ret = v] \in Call
         /\ [NoCall EXCEPT !.ret = v].ret = v
         /\ ~[NoCall EXCEPT !.ret = v].on
         /\ [NoCall EXCEPT !.ret = v].op = "none"
<1>1. MaxSize \in Nat /\ MaxLen \in Nat /\ 0 \in 0..Longest /\ 0 \in 0..MaxSize
  BY SdFatAssumption DEF Longest
<1>2. <<>> \in Seq(Bytes)
  BY EmptySeq
<1>. QED  BY <1>1, <1>2 DEF Answers, NoCall, Call, OK, Modes

LEMMA CallLengths ==
  ASSUME NEW c \in Call
  PROVE  c.len \in Nat /\ c.done \in Nat /\ c.from \in Nat /\ c.len <= Longest
<1>1. MaxSize \in Nat /\ MaxLen \in Nat /\ Longest \in Nat
  BY SdFatAssumption DEF Longest
<1>. QED  BY <1>1 DEF Call

(* The answer of a call; a transfer also leaves what it has moved.         *)
LEMMA ReturnedIs ==
  ASSUME call \in Call, NEW v \in Answers, NEW c, c = Returned(v)
  PROVE  /\ c \in Call /\ ~c.on /\ c.ret = v
         /\ c.op \in Transfers =>
              /\ c.op = call.op /\ c.len = call.len /\ c.buf = call.buf /\ c.from = call.from
              /\ c.obj = call.obj /\ c.done = call.done
<1>1. CASE call.op \in {"read", "write"}
  <2>1. c = [call EXCEPT !.on = FALSE, !.dev = NoDev, !.ret = v]
    BY <1>1 DEF Returned
  <2>. QED  BY <2>1 DEF Call, Answers
<1>2. CASE call.op \notin {"read", "write"}
  <2>1. c = [NoCall EXCEPT !.ret = v]
    BY <1>2 DEF Returned
  <2>. QED  BY <2>1, NoCallIs DEF Transfers
<1>. QED  BY <1>1, <1>2

(* The mutex of the device a call leaves is given back.                    *)
LEMMA UnlockStep ==
  ASSUME Typed, CallInv, RowsInv, MutexReturned, call.on,
         priv' = Unlocked(call.dev), table' = table, ~call'.on
  PROVE  priv' \in [Devs -> Private] /\ RowsInv' /\ MutexReturned'
<1>1. PICK d \in Devs : d = call.dev
  BY DEF CallInv
<1>2. Live(d) /\ priv \in [Devs -> Private]
  BY <1>1 DEF CallInv, Typed
<1>3. priv[d].locks = (IF priv[d].stuck THEN 1 ELSE 0) + 1
  BY <1>1, <1>2 DEF MutexReturned
<1>4. SameBut(priv', d, IF priv[d].stuck THEN 1 ELSE 0)
  <2>1. priv[d].locks \in 1..2 /\ priv[d].locks - 1 = IF priv[d].stuck THEN 1 ELSE 0
    BY <1>3
  <2>2. SameBut(Unlocked(d), d, priv[d].locks - 1)
    BY <2>1, LockedIs
  <2>. QED  BY <1>1, <2>1, <2>2
<1>5. \A x \in Devs : priv'[x].state = priv[x].state /\ priv'[x].stuck = priv[x].stuck
  BY <1>4 DEF SameBut
<1>6. RowsInv'
  BY <1>5 DEF RowsInv, Live
<1>7. MutexReturned'
  <2>1. ASSUME NEW x \in Devs, Live(x)'
        PROVE  priv'[x].locks = IF priv'[x].stuck THEN 1 ELSE 0
    <3>1. Live(x)
      BY <1>5, <2>1 DEF Live
    <3>2. CASE x = d
      BY <1>4, <1>5, <3>2 DEF SameBut
    <3>3. CASE x # d
      BY <1>1, <1>4, <3>1, <3>3 DEF SameBut, MutexReturned
    <3>. QED  BY <3>2, <3>3
  <2>. QED  BY <2>1 DEF MutexReturned
<1>. QED  BY <1>4, <1>6, <1>7 DEF SameBut

(* A call ends with its answer, and the rest well typed.                   *)
LEMMA ReturnStep ==
  ASSUME SdInv, call.on, NEW v \in Answers, priv' = Unlocked(call.dev), call' = Returned(v),
         table' = table, fault' = fault,
         file' \in [Files -> File \union {NoFile}], iter' \in [Iters -> Devs \union {NoDev}],
         content' \in Seq(Bytes), Len(content') <= MaxSize,
         call.op \in Transfers =>
           /\ content' = content /\ file' = file
           /\ v = call.done \/ (v = 0 /\ call.done < call.len),
         PositionKept'
  PROVE  SdInv'
<1>1. /\ call' \in Call /\ ~call'.on /\ call'.ret = v
      /\ call'.op \in Transfers =>
           /\ call'.op = call.op /\ call'.len = call.len /\ call'.buf = call.buf
           /\ call'.from = call.from /\ call'.obj = call.obj /\ call'.done = call.done
  <2>1. call \in Call
    BY DEF SdInv, Typed
  <2>. QED  BY <2>1, ReturnedIs
<1>2. priv' \in [Devs -> Private] /\ RowsInv' /\ MutexReturned'
  BY <1>1, UnlockStep DEF SdInv
<1>3. Typed'
  BY <1>1, <1>2 DEF SdInv, Typed
<1>4. CallInv'
  BY <1>1 DEF CallInv
<1>5. TransferInv'
  <2>. SUFFICES ASSUME call'.op \in Transfers
                PROVE  TransferInv'
    BY DEF TransferInv
  <2>1. /\ call'.op = call.op /\ call'.len = call.len /\ call'.buf = call.buf
        /\ call'.from = call.from /\ call'.obj = call.obj /\ call'.done = call.done
        /\ call.op \in Transfers /\ content' = content /\ file' = file
        /\ v = call.done \/ (v = 0 /\ call.done < call.len)
    BY <1>1
  <2>2. IsOpen(call.obj)' <=> IsOpen(call.obj)
    BY <2>1 DEF IsOpen
  <2>3. WritesAt(file[call.obj])' = WritesAt(file[call.obj])
    BY <2>1 DEF WritesAt
  <2>4. TransferInv
    BY DEF SdInv
  <2>. QED  BY <1>1, <2>1, <2>2, <2>3, <2>4 DEF TransferInv
<1>. QED  BY <1>2, <1>3, <1>4, <1>5 DEF SdInv

LEMMA LeaveStep ==
  ASSUME SdInv, call.on, NEW v \in Answers, Leave(v),
         call.op \in Transfers => v = call.done \/ (v = 0 /\ call.done < call.len)
  PROVE  SdInv'
<1>1. PositionKept'
  BY DEF Leave, SdInv, PositionKept, IsOpen
<1>. QED  BY <1>1, ReturnStep DEF Leave, SdInv, Typed

LEMMA CrashStep ==
  ASSUME SdInv, NEW why \in {"null deref", "use after free"}, Crash(why)
  PROVE  SdInv'
<1>1. /\ table' = table /\ priv' = priv /\ file' = file /\ iter' = iter /\ content' = content
      /\ call' = call /\ fault' \in {"none", "null deref", "use after free"}
  BY DEF Crash
<1>2. Typed' /\ CallInv' /\ RowsInv' /\ MutexReturned' /\ TransferInv' /\ PositionKept'
  BY <1>1 DEF SdInv, Typed, CallInv, RowsInv, MutexReturned, TransferInv, PositionKept,
              Live, IsOpen, WritesAt
<1>. QED  BY <1>2 DEF SdInv

(* A call that does not move anything is answered at once.                 *)
LEMMA AnsweredStep ==
  ASSUME SdInv, ~call.on, NEW v \in Answers, call' = [NoCall EXCEPT !.ret = v],
         table' = table, priv' \in [Devs -> Private], iter' = iter, content' = content,
         fault' = fault, file' \in [Files -> File \union {NoFile}],
         RowsInv', MutexReturned', PositionKept'
  PROVE  SdInv'
<1>1. call' \in Call /\ ~call'.on /\ call'.op = "none"
  BY NoCallIs
<1>2. Typed' /\ CallInv' /\ TransferInv'
  BY <1>1 DEF SdInv, Typed, CallInv, TransferInv, Transfers
<1>. QED  BY <1>2 DEF SdInv

LEMMA RefusedStep ==
  ASSUME SdInv, ~call.on, NEW v \in Answers, Refused(v)
  PROVE  SdInv'
<1>1. /\ table' = table /\ priv' = priv /\ file' = file /\ iter' = iter /\ content' = content
      /\ fault' = fault /\ call' = [NoCall EXCEPT !.ret = v]
  BY DEF Refused
<1>2. ~call'.on
  BY <1>1, NoCallIs
<1>3. RowsInv' /\ MutexReturned' /\ PositionKept'
  BY <1>1, <1>2 DEF SdInv, RowsInv, MutexReturned, PositionKept, Live, IsOpen
<1>. QED  BY <1>1, <1>3, AnsweredStep DEF SdInv, Typed

(* A call takes the mutex of a device.                                     *)
LEMMA EnteredStep ==
  ASSUME SdInv, ~call.on, NEW d \in Devs, Live(d), NEW c \in Call, Entered(d, c),
         c.done = 0,
         c.op = "open" => c.obj \in Files,
         c.op \in FileOps \union Transfers => c.obj \in Files /\ IsOpen(c.obj),
         c.op \in DirOps \union {"diropen"} => c.obj \in Iters,
         c.op \in Transfers => c.buf \in [1..c.len -> Bytes],
         c.op = "read" => file[c.obj].cpos = c.from,
         c.op = "write" => WritesAt(file[c.obj]) = c.from
  PROVE  SdInv'
<1>1. /\ table' = table /\ file' = file /\ iter' = iter /\ content' = content /\ fault' = fault
      /\ priv' = Locked(d) /\ call' = [c EXCEPT !.on = TRUE, !.dev = d]
  BY DEF Entered
<1>2. /\ call' \in Call /\ call'.on /\ call'.dev = d /\ call'.op = c.op /\ call'.obj = c.obj
      /\ call'.done = 0 /\ call'.buf = c.buf /\ call'.len = c.len /\ call'.from = c.from
  BY <1>1 DEF Call
<1>3. SameBut(priv', d, (IF priv[d].stuck THEN 1 ELSE 0) + 1)
  <2>1. priv[d].locks \in 0..1 /\ priv[d].locks = IF priv[d].stuck THEN 1 ELSE 0
    BY DEF SdInv, MutexReturned
  <2>2. SameBut(Locked(d), d, priv[d].locks + 1)
    BY <2>1, LockedIs DEF SdInv
  <2>. QED  BY <1>1, <2>1, <2>2
<1>4. \A x \in Devs : priv'[x].state = priv[x].state /\ priv'[x].stuck = priv[x].stuck
  BY <1>3 DEF SameBut
<1>5. Typed'
  BY <1>1, <1>2, <1>3 DEF SdInv, Typed, SameBut
<1>6. CallInv'
  BY <1>1, <1>2, <1>4 DEF CallInv, Live, IsOpen
<1>7. RowsInv' /\ PositionKept'
  BY <1>1, <1>4 DEF SdInv, RowsInv, PositionKept, Live, IsOpen
<1>8. MutexReturned'
  <2>1. ASSUME NEW x \in Devs, Live(x)'
        PROVE  priv'[x].locks = (IF priv'[x].stuck THEN 1 ELSE 0)
                                + (IF call'.on /\ call'.dev = x THEN 1 ELSE 0)
    <3>1. Live(x)
      BY <1>4, <2>1 DEF Live
    <3>2. CASE x = d
      BY <1>2, <1>3, <1>4, <3>2 DEF SameBut
    <3>3. CASE x # d
      BY <1>2, <1>3, <3>1, <3>3 DEF SameBut, SdInv, MutexReturned
    <3>. QED  BY <3>2, <3>3
  <2>. QED  BY <2>1 DEF MutexReturned
<1>9. TransferInv'
  <2>. SUFFICES ASSUME c.op \in Transfers
                PROVE  TransferInv'
    BY <1>2 DEF TransferInv
  <2>1. c.len \in Nat /\ c.from \in Nat
    BY CallLengths
  <2>2. file'[call'.obj] = file[c.obj]
    BY <1>1, <1>2
  <2>3. call'.op = "write" => WritesAt(file[call.obj])' = call'.from + call'.done
    BY <1>1, <1>2, <2>1, <2>2 DEF WritesAt
  <2>4. call'.obj \in Files /\ IsOpen(call.obj)'
    BY <1>1, <1>2 DEF IsOpen
  <2>. QED  BY <1>1, <1>2, <2>1, <2>3, <2>4 DEF TransferInv
<1>. QED  BY <1>5, <1>6, <1>7, <1>8, <1>9 DEF SdInv

-----------------------------------------------------------------------------
(***************************************************************************)
(* Mounting and unmounting.                                                *)
(***************************************************************************)
LEMMA DeviceIs ==
  ASSUME SdInv, Device # NoDev
  PROVE  /\ FirstRow \in 1..Rows /\ Device = table[FirstRow] /\ Device \in Devs /\ Live(Device)
<1>1. Mounted # {} /\ Device = table[FirstRow]
  BY DEF Device
<1>2. Mounted \in SUBSET Nat
  BY SdFatAssumption DEF Mounted
<1>3. \E i \in Mounted : \A j \in Mounted : i <= j
  <2>. PICK S : S = Mounted
    OBVIOUS
  <2>. DEFINE R == OpToRel(<, Nat)
  <2>1. \E i \in S : \A j \in S : ~(<<j, i>> \in R)
    <3>1. IsWellFoundedOn(R, Nat)
      BY NatLessThanWellFounded
    <3>2. S \in SUBSET Nat /\ S # {}
      BY <1>1, <1>2
    <3>. HIDE DEF R
    <3>. QED  BY <3>1, <3>2, WFMin
  <2>2. \A i \in Nat, j \in Nat : ~(<<j, i>> \in R) => i <= j
    BY DEF OpToRel
  <2>. QED  BY <1>2, <2>1, <2>2
<1>4. FirstRow \in Mounted
  BY <1>3 DEF FirstRow
<1>. QED  BY <1>1, <1>4 DEF Mounted, SdInv, RowsInv

LEMMA FreshIs ==
  ASSUME NEW st \in {"free", "orphan", "device"}
  PROVE  /\ Fresh(st) \in Private /\ Fresh(st).state = st
         /\ Fresh(st).locks = 0 /\ Fresh(st).stuck = FALSE
BY DEF Fresh, Private

(* Between two calls, a block becomes or ceases to be a device.            *)
LEMMA MountStep ==
  ASSUME SdInv, Mount
  PROVE  SdInv'
<1>1. CASE UNCHANGED sdvars
  <2>1. /\ table' = table /\ priv' = priv /\ file' = file /\ iter' = iter /\ content' = content
        /\ call' = call /\ fault' = fault
    BY <1>1 DEF sdvars
  <2>2. Typed' /\ CallInv' /\ RowsInv' /\ MutexReturned' /\ TransferInv' /\ PositionKept'
    BY <2>1 DEF SdInv, Typed, CallInv, RowsInv, MutexReturned, TransferInv, PositionKept,
                Live, IsOpen, WritesAt
  <2>. QED  BY <2>2 DEF SdInv
<1>2. ASSUME NEW d \in Devs, priv[d].state = "free", Crash("null deref")
      PROVE  SdInv'
  BY <1>2, CrashStep
<1>3. ASSUME NEW d \in Devs, priv[d].state = "free",
             NEW q, priv' = q, q \in [Devs -> Private], \A x \in Devs : x # d => q[x] = priv[x],
             table' \in [1..Rows -> Devs \union {NoDev, Other}],
             file' = file, iter' = iter, content' = content, call' = call, fault' = fault,
             RowsInv', ~call.on, q[d].state = "device" => q[d].locks = 0 /\ q[d].stuck = FALSE
      PROVE  SdInv'
  <2>1. MutexReturned'
    <3>1. ASSUME NEW x \in Devs, Live(x)'
          PROVE  priv'[x].locks = IF priv'[x].stuck THEN 1 ELSE 0
      <4>1. CASE x = d
        BY <1>3, <3>1, <4>1 DEF Live
      <4>2. CASE x # d
        BY <1>3, <3>1, <4>2 DEF Live, SdInv, MutexReturned
      <4>. QED  BY <4>1, <4>2
    <3>. QED  BY <1>3, <3>1 DEF MutexReturned
  <2>2. Typed' /\ CallInv' /\ TransferInv' /\ PositionKept'
    BY <1>3 DEF SdInv, Typed, CallInv, TransferInv, PositionKept, IsOpen, WritesAt
  <2>. QED  BY <1>3, <2>1, <2>2 DEF SdInv
<1>4. ASSUME ~call.on, NEW d \in Devs, priv[d].state = "free",
             priv' = [priv EXCEPT ![d].state = "orphan"],
             UNCHANGED <<table, file, iter, content, call, fault>>
      PROVE  SdInv'
  <2>1. priv \in [Devs -> Private]
    BY DEF SdInv, Typed
  <2>2. PICK k \in Private : k = priv[d]
    BY <2>1
  <2>3. PICK v : v = [k EXCEPT !.state = "orphan"]
    OBVIOUS
  <2>4. v \in Private /\ v.state = "orphan"
    BY <2>3 DEF Private
  <2>5. priv' = [priv EXCEPT ![d] = v]
    BY <1>4, <2>2, <2>3, Zenon
  <2>6. /\ priv' \in [Devs -> Private] /\ priv'[d].state = "orphan"
        /\ \A x \in Devs : x # d => priv'[x] = priv[x]
    BY <2>1, <2>4, <2>5, UpdateIs
  <2>7. \A x \in Devs : Live(x)' <=> Live(x)
    BY <1>4, <2>6 DEF Live
  <2>8. RowsInv'
    BY <1>4, <2>7 DEF SdInv, RowsInv
  <2>. QED  BY <1>3, <1>4, <2>6, <2>8 DEF SdInv, Typed
<1>5. ASSUME ~call.on, NEW d \in Devs, priv[d].state = "free", NEW i \in 1..Rows, table[i] = NoDev,
             table' = [table EXCEPT ![i] = d], priv' = [priv EXCEPT ![d] = Fresh("device")],
             UNCHANGED <<file, iter, content, call, fault>>
      PROVE  SdInv'
  <2>1. priv \in [Devs -> Private] /\ table \in [1..Rows -> Devs \union {NoDev, Other}]
    BY DEF SdInv, Typed
  <2>2. /\ priv' \in [Devs -> Private] /\ priv'[d] = Fresh("device")
        /\ \A x \in Devs : x # d => priv'[x] = priv[x]
    BY <1>5, <2>1, FreshIs, UpdateIs
  <2>3. /\ table' \in [1..Rows -> Devs \union {NoDev, Other}] /\ table'[i] = d
        /\ \A x \in 1..Rows : x # i => table'[x] = table[x]
    BY <1>5, <2>1, UpdateIs
  <2>4. \A x \in Devs : Live(x)' <=> Live(x) \/ x = d
    BY <2>2, FreshIs DEF Live
  <2>5. ~Live(d)
    BY <1>5 DEF Live
  <2>6. RowsInv'
    <3>1. \A x \in 1..Rows : table[x] # d
      BY <2>5 DEF SdInv, RowsInv
    <3>2. \A x \in 1..Rows : table'[x] \in Devs => Live(table[x])'
      BY <2>3, <2>4 DEF SdInv, RowsInv
    <3>3. \A x, y \in 1..Rows : table'[x] \in Devs /\ table'[x] = table'[y] => x = y
      BY <2>3, <3>1 DEF SdInv, RowsInv
    <3>4. \A x \in Devs : Live(x)' => \E y \in 1..Rows : table'[y] = x
      <4>1. ASSUME NEW x \in Devs, Live(x)'
            PROVE  \E y \in 1..Rows : table'[y] = x
        <5>1. CASE x = d
          BY <2>3, <5>1
        <5>2. CASE x # d
          <6>1. PICK y \in 1..Rows : table[y] = x
            BY <2>4, <4>1, <5>2 DEF SdInv, RowsInv
          <6>2. y # i
            BY <1>5, <6>1, SdFatAssumption
          <6>. QED  BY <2>3, <6>1, <6>2
        <5>. QED  BY <5>1, <5>2
      <4>. QED  BY <4>1
    <3>. QED  BY <3>2, <3>3, <3>4 DEF RowsInv
  <2>7. priv'[d].locks = 0 /\ priv'[d].stuck = FALSE
    BY <2>2, FreshIs
  <2>. QED  BY <1>3, <1>5, <2>2, <2>3, <2>6, <2>7
<1>. QED  BY <1>1, <1>2, <1>4, <1>5 DEF Mount

LEMMA UnmountStep ==
  ASSUME SdInv, Unmount
  PROVE  SdInv'
<1>. PICK d, i : d = Device /\ i = FirstRow
  OBVIOUS
<1>1. /\ ~call.on /\ i \in 1..Rows /\ d \in Devs /\ table[i] = d /\ Live(d)
      /\ table' = [table EXCEPT ![i] = NoDev] /\ priv' = [priv EXCEPT ![d] = Fresh("free")]
      /\ file' = file /\ iter' = iter /\ content' = content /\ call' = call /\ fault' = fault
  BY DeviceIs DEF Unmount
<1>2. priv \in [Devs -> Private] /\ table \in [1..Rows -> Devs \union {NoDev, Other}]
  BY DEF SdInv, Typed
<1>3. /\ priv' \in [Devs -> Private] /\ priv'[d] = Fresh("free")
      /\ \A x \in Devs : x # d => priv'[x] = priv[x]
  BY <1>1, <1>2, FreshIs, UpdateIs
<1>4. /\ table' \in [1..Rows -> Devs \union {NoDev, Other}] /\ table'[i] = NoDev
      /\ \A x \in 1..Rows : x # i => table'[x] = table[x]
  BY <1>1, <1>2, UpdateIs
<1>5. \A x \in Devs : Live(x)' <=> Live(x) /\ x # d
  BY <1>3, FreshIs DEF Live
<1>6. RowsInv'
  <2>1. \A x \in 1..Rows : table[x] = d => x = i
    BY <1>1 DEF SdInv, RowsInv
  <2>2. \A x \in 1..Rows : table'[x] \in Devs => Live(table[x])'
    <3>1. ASSUME NEW x \in 1..Rows, table'[x] \in Devs
          PROVE  Live(table[x])'
      <4>1. x # i
        BY <1>4, <3>1, SdFatAssumption
      <4>2. table'[x] = table[x] /\ table[x] # d
        BY <1>4, <2>1, <4>1
      <4>. QED  BY <1>5, <3>1, <4>2 DEF SdInv, RowsInv
    <3>. QED  BY <3>1
  <2>3. \A x, y \in 1..Rows : table'[x] \in Devs /\ table'[x] = table'[y] => x = y
    BY <1>4, SdFatAssumption DEF SdInv, RowsInv
  <2>4. \A x \in Devs : Live(x)' => \E y \in 1..Rows : table'[y] = x
    BY <1>1, <1>4, <1>5 DEF SdInv, RowsInv
  <2>. QED  BY <2>2, <2>3, <2>4 DEF RowsInv
<1>7. MutexReturned'
  BY <1>1, <1>3, <1>5 DEF SdInv, MutexReturned
<1>8. Typed' /\ CallInv' /\ TransferInv' /\ PositionKept'
  BY <1>1, <1>3, <1>4 DEF SdInv, Typed, CallInv, TransferInv, PositionKept, IsOpen, WritesAt
<1>. QED  BY <1>6, <1>7, <1>8 DEF SdInv

-----------------------------------------------------------------------------
(***************************************************************************)
(* The calls that name a path, and those on a file or a directory that     *)
(* change neither.                                                         *)
(***************************************************************************)
Ops == PathOps \union FileOps \union DirOps \union {"none", "open", "diropen", "read", "write"}

LEMMA NothingYet ==
  /\ MaxSize \in Nat /\ MaxLen \in Nat /\ 0 \in 0..Longest /\ 0 \in 0..MaxSize
  /\ <<>> \in Seq(Bytes) /\ 0 \in -1..(MaxSize + MaxLen) /\ "r" \in Modes
  /\ NoDev \in Devs \union {NoDev} /\ NoDev \in Files \union Iters \union {NoDev}
BY SdFatAssumption, EmptySeq DEF Longest, Modes

LEMMA BeginPathIs ==
  ASSUME NEW op \in Ops
  PROVE  /\ [NoCall EXCEPT !.op = op] \in Call
         /\ [NoCall EXCEPT !.op = op].op = op /\ [NoCall EXCEPT !.op = op].done = 0
BY NothingYet DEF NoCall, Call, OK, Ops

LEMMA BeginIs ==
  ASSUME NEW op \in Ops, NEW o \in Files \union Iters
  PROVE  /\ [NoCall EXCEPT !.op = op, !.obj = o] \in Call
         /\ [NoCall EXCEPT !.op = op, !.obj = o].op = op
         /\ [NoCall EXCEPT !.op = op, !.obj = o].obj = o
         /\ [NoCall EXCEPT !.op = op, !.obj = o].done = 0
BY NothingYet DEF NoCall, Call, OK, Ops

LEMMA AnswersAre == {Error, OK, Directory, Regular} \subseteq Answers
BY SdFatAssumption DEF Answers, Error, OK, Directory, Regular

LEMMA EnterPathStep ==
  ASSUME SdInv, NEW op \in PathOps, EnterPath(op)
  PROVE  SdInv'
<1>1. CASE Device = NoDev /\ Refused(Error)
  BY <1>1, RefusedStep, AnswersAre DEF EnterPath
<1>2. CASE Device # NoDev /\ Entered(Device, [NoCall EXCEPT !.op = op])
  <2>1. PICK c : c = [NoCall EXCEPT !.op = op]
    OBVIOUS
  <2>3. c \in Call /\ c.op = op /\ c.done = 0
    BY <2>1, BeginPathIs DEF Ops
  <2>4. op \notin FileOps \union Transfers \union DirOps \union {"open", "diropen"}
    BY DEF PathOps, ChangeOps, FileOps, DirOps, Transfers
  <2>5. ~call.on /\ Device \in Devs /\ Live(Device) /\ Entered(Device, c)
    BY <1>2, <2>1, DeviceIs DEF EnterPath
  <2>. QED  BY <2>3, <2>4, <2>5, EnteredStep DEF Transfers
<1>. QED  BY <1>1, <1>2 DEF EnterPath

LEMMA EnterOpenStep ==
  ASSUME SdInv, NEW f \in Files, NEW m, EnterOpen(f, m)
  PROVE  SdInv'
<1>1. CASE Refused(Error)
  BY <1>1, RefusedStep, AnswersAre DEF EnterOpen
<1>2. CASE /\ Device # NoDev /\ m \in Modes
           /\ Entered(Device, [NoCall EXCEPT !.op = "open", !.obj = f, !.mode = m])
  <2>1. PICK c : c = [NoCall EXCEPT !.op = "open", !.obj = f, !.mode = m]
    OBVIOUS
  <2>2. c \in Call /\ c.op = "open" /\ c.obj = f /\ c.done = 0
    BY <1>2, <2>1, NothingYet DEF NoCall, Call, OK
  <2>3. "open" \notin FileOps \union Transfers \union DirOps \union {"diropen"}
    BY DEF FileOps, DirOps, Transfers
  <2>4. ~call.on /\ Device \in Devs /\ Live(Device) /\ Entered(Device, c)
    BY <1>2, <2>1, DeviceIs DEF EnterOpen
  <2>. QED  BY <2>2, <2>3, <2>4, EnteredStep DEF Transfers
<1>. QED  BY <1>1, <1>2 DEF EnterOpen

LEMMA FileIs ==
  ASSUME Typed, NEW f \in Files, IsOpen(f)
  PROVE  file[f] \in File /\ file[f].dev \in Devs
<1>1. file[f] \in File
  BY DEF Typed, IsOpen
<1>. QED  BY <1>1 DEF File

LEMMA EnterFileStep ==
  ASSUME SdInv, NEW op \in FileOps, NEW f \in Files, EnterFile(op, f)
  PROVE  SdInv'
<1>1. CASE ~Live(file[f].dev)
  BY <1>1, CrashStep DEF EnterFile
<1>2. CASE Live(file[f].dev)
  <2>1. PICK c : c = [NoCall EXCEPT !.op = op, !.obj = f]
    OBVIOUS
  <2>2. c \in Call /\ c.op = op /\ c.obj = f /\ c.done = 0
    BY <2>1, BeginIs DEF Ops
  <2>3. op \notin Transfers \union DirOps \union {"open", "diropen"}
    BY DEF FileOps, DirOps, Transfers
  <2>4. ~call.on /\ IsOpen(f) /\ file[f].dev \in Devs /\ Entered(file[f].dev, c)
    BY <1>2, <2>1, FileIs DEF EnterFile, SdInv
  <2>. QED  BY <1>2, <2>2, <2>3, <2>4, EnteredStep DEF Transfers
<1>. QED  BY <1>1, <1>2

LEMMA EnterDirOpenStep ==
  ASSUME SdInv, NEW i \in Iters, EnterDirOpen(i)
  PROVE  SdInv'
<1>1. CASE Device = NoDev /\ Refused(Error)
  BY <1>1, RefusedStep, AnswersAre DEF EnterDirOpen
<1>2. CASE Device # NoDev /\ Entered(Device, [NoCall EXCEPT !.op = "diropen", !.obj = i])
  <2>1. PICK c : c = [NoCall EXCEPT !.op = "diropen", !.obj = i]
    OBVIOUS
  <2>2. c \in Call /\ c.op = "diropen" /\ c.obj = i /\ c.done = 0
    BY <2>1, BeginIs DEF Ops
  <2>3. "diropen" \notin FileOps \union Transfers
    BY DEF FileOps, Transfers
  <2>4. ~call.on /\ Device \in Devs /\ Live(Device) /\ Entered(Device, c)
    BY <1>2, <2>1, DeviceIs DEF EnterDirOpen
  <2>. QED  BY <2>2, <2>3, <2>4, EnteredStep DEF Transfers
<1>. QED  BY <1>1, <1>2 DEF EnterDirOpen

LEMMA EnterDirStep ==
  ASSUME SdInv, NEW op \in DirOps, NEW i \in Iters, EnterDir(op, i)
  PROVE  SdInv'
<1>1. CASE ~Live(iter[i])
  BY <1>1, CrashStep DEF EnterDir
<1>2. CASE Live(iter[i])
  <2>1. PICK c : c = [NoCall EXCEPT !.op = op, !.obj = i]
    OBVIOUS
  <2>2. c \in Call /\ c.op = op /\ c.obj = i /\ c.done = 0
    BY <2>1, BeginIs DEF Ops
  <2>3. op \notin Transfers \union FileOps \union {"open"}
    BY DEF FileOps, DirOps, Transfers
  <2>4. ~call.on /\ iter[i] \in Devs /\ Entered(iter[i], c)
    BY <1>2, <2>1 DEF EnterDir, Open, SdInv, Typed
  <2>. QED  BY <1>2, <2>2, <2>3, <2>4, EnteredStep DEF Transfers
<1>. QED  BY <1>1, <1>2

(* The calls whose end changes nothing.                                    *)
LEMMA PlainStep ==
  ASSUME SdInv,
         \/ Stat \/ Statvfs \/ \E op \in ChangeOps : Change(op)
         \/ Fstat \/ Fsync \/ DirNext \/ DirReset
  PROVE  SdInv'
<1>1. ASSUME NEW op \in Ops \ Transfers, Running(op), NEW v \in {Error, OK, Directory, Regular},
             Leave(v)
      PROVE  SdInv'
  BY <1>1, LeaveStep, AnswersAre DEF Running
<1>2. /\ {"stat", "statvfs", "fstat", "fsync", "dirnext", "dirreset"} \subseteq Ops \ Transfers
      /\ ChangeOps \subseteq Ops \ Transfers
  BY DEF Ops, PathOps, ChangeOps, FileOps, DirOps, Transfers
<1>3. CASE Stat
  BY <1>1, <1>2, <1>3 DEF Stat
<1>4. CASE Statvfs
  BY <1>1, <1>2, <1>4 DEF Statvfs
<1>5. CASE \E op \in ChangeOps : Change(op)
  BY <1>1, <1>2, <1>5 DEF Change
<1>6. CASE Fstat
  BY <1>1, <1>2, <1>6 DEF Fstat
<1>7. CASE Fsync
  BY <1>1, <1>2, <1>7 DEF Fsync
<1>8. CASE DirNext
  BY <1>1, <1>2, <1>8, CrashStep DEF DirNext
<1>9. CASE DirReset
  BY <1>1, <1>2, <1>9 DEF DirReset
<1>. QED  BY <1>3, <1>4, <1>5, <1>6, <1>7, <1>8, <1>9

LEMMA DirStep ==
  ASSUME SdInv, DirOpen \/ DirClose
  PROVE  SdInv'
<1>1. {"diropen", "dirclose"} \subseteq DirOps \union {"diropen"}
      /\ "diropen" \notin Transfers /\ "dirclose" \notin Transfers
  BY DEF DirOps, Transfers
<1>2. ASSUME NEW op \in {"diropen", "dirclose"}, Running(op), NEW v \in {OK, Error},
             NEW w \in Devs \union {NoDev},
             priv' = Unlocked(call.dev), call' = Returned(v), iter' = [iter EXCEPT ![call.obj] = w],
             UNCHANGED <<table, file, content, fault>>
      PROVE  SdInv'
  <2>1. iter' \in [Iters -> Devs \union {NoDev}]
    BY <1>2 DEF SdInv, Typed
  <2>2. PositionKept'
    BY <1>2 DEF SdInv, PositionKept, IsOpen
  <2>3. v \in Answers /\ call.on /\ call.op \notin Transfers
    BY <1>1, <1>2, AnswersAre DEF Running
  <2>. QED  BY <1>2, <2>1, <2>2, <2>3, ReturnStep DEF SdInv, Typed
<1>3. CASE DirOpen
  <2>1. Running("diropen") /\ call.dev \in Devs
    BY <1>3 DEF DirOpen, Running, SdInv, CallInv
  <2>2. CASE Leave(Error)
    BY <1>1, <2>1, <2>2, LeaveStep, AnswersAre DEF Running
  <2>. QED  BY <1>2, <1>3, <2>1, <2>2 DEF DirOpen
<1>4. CASE DirClose
  BY <1>2, <1>4 DEF DirClose
<1>. QED  BY <1>3, <1>4

-----------------------------------------------------------------------------
(***************************************************************************)
(* The calls that change a file.                                           *)
(***************************************************************************)
LEMMA SeqIs ==
  ASSUME NEW S, NEW n \in Nat, NEW g \in [1..n -> S]
  PROVE  g \in Seq(S) /\ Len(g) = n
<1>1. g \in Seq(S)
  BY SeqDef
<1>. QED  BY <1>1, LenProperties

LEMMA ContentIs ==
  ASSUME Typed
  PROVE  /\ content \in Seq(Bytes) /\ Len(content) \in 0..MaxSize /\ Len(content) \in Nat
         /\ MaxSize \in Nat /\ MaxLen \in Nat /\ Garbage \in Bytes
         /\ \A i \in 1..Len(content) : content[i] \in Bytes
<1>1. content \in Seq(Bytes) /\ Len(content) <= MaxSize
  BY DEF Typed
<1>2. Len(content) \in Nat /\ \A i \in 1..Len(content) : content[i] \in Bytes
  BY <1>1, LenProperties, ElementOfSeq
<1>3. MaxSize \in Nat /\ MaxLen \in Nat
  BY SdFatAssumption
<1>. QED  BY <1>1, <1>2, <1>3 DEF Bytes, Garbage

LEMMA FieldsAre ==
  ASSUME NEW k \in File
  PROVE  /\ k.dev \in Devs /\ k.mode \in Modes /\ k.pos \in 0..MaxPos /\ k.len \in 0..MaxSize
         /\ k.cpos \in 0..MaxSize /\ k.lost \in BOOLEAN
         /\ k = [dev |-> k.dev, mode |-> k.mode, pos |-> k.pos, len |-> k.len, cpos |-> k.cpos,
                 lost |-> k.lost]
BY DEF File

LEMMA FileChanged ==
  ASSUME SdInv, NEW f \in Files, NEW v \in File \union {NoFile},
         v # NoFile => Appends(v) \/ v.lost \/ v.pos = v.cpos,
         file' = [file EXCEPT ![f] = v]
  PROVE  /\ file' \in [Files -> File \union {NoFile}] /\ file'[f] = v
         /\ \A g \in Files : g # f => file'[g] = file[g]
         /\ PositionKept'
<1>1. /\ file' \in [Files -> File \union {NoFile}] /\ file'[f] = v
      /\ \A g \in Files : g # f => file'[g] = file[g]
  <2>1. file \in [Files -> File \union {NoFile}]
    BY DEF SdInv, Typed
  <2>. QED  BY <2>1, UpdateIs
<1>2. PositionKept'
  <2>1. ASSUME NEW g \in Files, IsOpen(g)', ~Appends(file[g])', ~file'[g].lost
        PROVE  file'[g].pos = file'[g].cpos
    <3>1. CASE g = f
      BY <1>1, <2>1, <3>1 DEF IsOpen, Appends
    <3>2. CASE g # f
      <4>1. file'[g] = file[g]
        BY <1>1, <3>2
      <4>. QED  BY <2>1, <4>1 DEF SdInv, PositionKept, IsOpen, Appends
    <3>. QED  BY <3>1, <3>2
  <2>. QED  BY <2>1 DEF PositionKept
<1>. QED  BY <1>1, <1>2

LEMMA OpenedIs ==
  ASSUME SdInv, call.on, call.op = "open"
  PROVE  /\ OpenedContent(call.mode) \in Seq(Bytes) /\ Len(OpenedContent(call.mode)) \in 0..MaxSize
         /\ NewFile(call.dev, call.mode) \in File
         /\ NewFile(call.dev, call.mode).pos = NewFile(call.dev, call.mode).cpos
<1>1. /\ content \in Seq(Bytes) /\ Len(content) \in 0..MaxSize /\ call.dev \in Devs
      /\ call.mode \in Modes /\ MaxSize \in Nat
  <2>1. call.mode \in Modes
    BY DEF SdInv, Typed, Call
  <2>. QED  BY <2>1, ContentIs DEF SdInv, CallInv
<1>2. OpenedContent(call.mode) \in Seq(Bytes) /\ Len(OpenedContent(call.mode)) \in 0..MaxSize
  BY <1>1, EmptySeq DEF OpenedContent
<1>. QED  BY <1>1, <1>2 DEF NewFile, File, MaxPos

LEMMA OpenStep ==
  ASSUME SdInv, OpenCall
  PROVE  SdInv'
<1>1. call.on /\ call.op = "open" /\ call.obj \in Files /\ call.op \notin Transfers
  BY DEF OpenCall, Running, SdInv, CallInv, Transfers
<1>2. CASE Leave(Error)
  BY <1>1, <1>2, LeaveStep, AnswersAre
<1>3. CASE Crash("null deref")
  BY <1>3, CrashStep
<1>4. ASSUME content' = OpenedContent(call.mode), priv' = Unlocked(call.dev),
             UNCHANGED <<table, iter, fault>>,
             NEW v \in {OK, Error}, call' = Returned(v),
             \/ file' = file
             \/ file' = [file EXCEPT ![call.obj] = NewFile(call.dev, call.mode)]
      PROVE  SdInv'
  <2>1. content' \in Seq(Bytes) /\ Len(content') <= MaxSize
    BY <1>1, <1>4, OpenedIs, SdFatAssumption
  <2>2. file' \in [Files -> File \union {NoFile}] /\ PositionKept'
    <3>1. CASE file' = file
      BY <3>1 DEF SdInv, Typed, PositionKept, IsOpen
    <3>2. CASE file' = [file EXCEPT ![call.obj] = NewFile(call.dev, call.mode)]
      <4>1. PICK w : w = NewFile(call.dev, call.mode)
        OBVIOUS
      <4>2. w \in File \union {NoFile} /\ w.pos = w.cpos /\ file' = [file EXCEPT ![call.obj] = w]
        BY <1>1, <3>2, <4>1, OpenedIs
      <4>. QED  BY <1>1, <4>2, FileChanged
    <3>. QED  BY <1>4, <3>1, <3>2
  <2>3. v \in Answers
    BY <1>4, AnswersAre
  <2>. QED  BY <1>1, <1>4, <2>1, <2>2, <2>3, ReturnStep DEF SdInv, Typed
<1>. QED  BY <1>2, <1>3, <1>4 DEF OpenCall

LEMMA CloseStep ==
  ASSUME SdInv, Close
  PROVE  SdInv'
<1>1. call.on /\ call.op = "close" /\ call.obj \in Files /\ call.op \notin Transfers
  BY DEF Close, Running, SdInv, CallInv, Transfers, FileOps
<1>2. PICK v \in {OK, Error} : call' = Returned(v)
  BY DEF Close
<1>3. /\ priv' = Unlocked(call.dev) /\ table' = table /\ iter' = iter /\ content' = content
      /\ fault' = fault /\ file' = [file EXCEPT ![call.obj] = NoFile]
  BY DEF Close
<1>4. file' \in [Files -> File \union {NoFile}] /\ PositionKept'
  <2>1. PICK w : w = NoFile
    OBVIOUS
  <2>2. w \in File \union {NoFile} /\ w = NoFile /\ file' = [file EXCEPT ![call.obj] = w]
    BY <1>3, <2>1
  <2>. QED  BY <1>1, <2>2, FileChanged
<1>. QED  BY <1>1, <1>2, <1>3, <1>4, ReturnStep, AnswersAre DEF SdInv, Typed

LEMMA FtruncateStep ==
  ASSUME SdInv, Ftruncate
  PROVE  SdInv'
<1>1. call.on /\ call.op = "ftruncate" /\ call.op \notin Transfers /\ call.obj \in Files
      /\ IsOpen(call.obj)
  BY DEF Ftruncate, Running, SdInv, CallInv, Transfers, FileOps
<1>2. CASE Leave(Error)
  BY <1>1, <1>2, LeaveStep, AnswersAre
<1>3. CASE /\ content' = Resized(file[call.obj].cpos) /\ priv' = Unlocked(call.dev)
           /\ call' = Returned(OK) /\ UNCHANGED <<table, file, iter, fault>>
  <2>1. PICK n : n = file[call.obj].cpos
    OBVIOUS
  <2>2. n \in 0..MaxSize
    <3>1. file[call.obj] \in File
      BY <1>1, FileIs DEF SdInv
    <3>. QED  BY <2>1, <3>1, FieldsAre
  <2>3. content' \in Seq(Bytes) /\ Len(content') <= MaxSize
    <3>1. \A i \in 1..Len(content) : content[i] \in Bytes
      BY ContentIs DEF SdInv
    <3>2. Garbage \in Bytes /\ n \in Nat /\ Len(content) \in Nat
      BY <2>2, ContentIs DEF SdInv
    <3>3. Resized(n) \in [1..n -> Bytes]
      BY <3>1, <3>2 DEF Resized
    <3>4. Resized(n) \in Seq(Bytes) /\ Len(Resized(n)) = n
      BY <3>2, <3>3, SeqIs
    <3>. QED  BY <1>3, <2>1, <2>2, <3>4
  <2>4. PositionKept'
    BY <1>3 DEF SdInv, PositionKept, IsOpen
  <2>. QED  BY <1>1, <1>3, <2>3, <2>4, ReturnStep, AnswersAre DEF SdInv, Typed
<1>. QED  BY <1>2, <1>3 DEF Ftruncate

(* A seek moves the driver's position, and the card's if it answers.       *)
LEMMA SeekStep ==
  ASSUME SdInv, NEW f \in Files, NEW w \in Whences, NEW off \in Int, Seek(f, w, off)
  PROVE  SdInv'
<1>1. PICK t, k : t = Target(file[f], w, off) /\ k = file[f]
  OBVIOUS
<1>2. ~call.on /\ t \in 0..MaxSize /\ k \in File /\ MaxSize \in Nat /\ t \in 0..MaxPos
  <2>1. ~call.on /\ t \in 0..MaxSize /\ k \in File
    BY <1>1, FileIs DEF Seek, SdInv
  <2>2. MaxSize \in Nat
    BY SdFatAssumption
  <2>. QED  BY <2>1, <2>2 DEF MaxPos
<1>3. CASE ~Live(file[f].dev)
  BY <1>3, CrashStep DEF Seek
<1>4. CASE Live(file[f].dev)
  <2>1. PICK v, r :
           /\ \/ v = [[k EXCEPT !.pos = t] EXCEPT !.cpos = t, !.lost = FALSE] /\ r = t
              \/ v = [[k EXCEPT !.pos = t] EXCEPT !.lost = TRUE] /\ r = Error
           /\ file' = [file EXCEPT ![f] = v]
           /\ call' = [NoCall EXCEPT !.ret = r]
           /\ UNCHANGED <<table, priv, iter, content, fault>>
    <3>1. SeekTo(file[f], Target(file[f], w, off)) = [k EXCEPT !.pos = t]
      BY <1>1 DEF SeekTo
    <3>2. [k EXCEPT !.pos = t].pos = t
      BY <1>2, FieldsAre
    <3>. QED  BY <1>1, <1>4, <3>1, <3>2, Zenon DEF Seek
  <2>2. v \in File /\ (v.lost \/ v.pos = v.cpos)
    <3>1. ASSUME v = [[k EXCEPT !.pos = t] EXCEPT !.cpos = t, !.lost = FALSE]
          PROVE  v \in File /\ v.pos = v.cpos
      BY <1>2, <3>1 DEF File
    <3>2. ASSUME v = [[k EXCEPT !.pos = t] EXCEPT !.lost = TRUE]
          PROVE  v \in File /\ v.lost
      BY <1>2, <3>2 DEF File
    <3>. QED  BY <2>1, <3>1, <3>2
  <2>3. file' \in [Files -> File \union {NoFile}] /\ PositionKept'
    BY <2>1, <2>2, FileChanged
  <2>4. r \in Answers
    BY <1>2, <2>1, AnswersAre, SdFatAssumption DEF Answers
  <2>5. ~call'.on
    BY <2>1, <2>4, NoCallIs
  <2>6. RowsInv' /\ MutexReturned'
    BY <1>2, <2>1, <2>5 DEF SdInv, RowsInv, MutexReturned, Live
  <2>. QED  BY <1>2, <2>1, <2>3, <2>4, <2>6, AnsweredStep DEF SdInv, Typed
<1>. QED  BY <1>3, <1>4

LEMMA SeekUnknownStep ==
  ASSUME SdInv, NEW f \in Files, SeekUnknown(f)
  PROVE  SdInv'
<1>1. PICK d : d = file[f].dev
  OBVIOUS
<1>2. ~call.on /\ d \in Devs
  BY <1>1, FileIs DEF SeekUnknown, SdInv
<1>3. CASE ~Live(d)
  BY <1>1, <1>3, CrashStep DEF SeekUnknown
<1>4. CASE Live(d)
  <2>1. /\ ~priv[d].stuck /\ priv' = [Locked(d) EXCEPT ![d].stuck = TRUE]
        /\ call' = [NoCall EXCEPT !.ret = Error]
        /\ UNCHANGED <<table, file, iter, content, fault>>
    BY <1>1, <1>4 DEF SeekUnknown
  <2>2. SameBut(Locked(d), d, 1)
    <3>1. priv[d].locks = 0
      BY <1>2, <1>4, <2>1 DEF SdInv, MutexReturned
    <3>2. SameBut(Locked(d), d, priv[d].locks + 1)
      BY <1>2, <3>1, LockedIs DEF SdInv
    <3>. QED  BY <3>1, <3>2
  <2>3. PICK q : q = Locked(d)
    OBVIOUS
  <2>4. /\ q \in [Devs -> Private] /\ \A x \in Devs : x # d => q[x] = priv[x]
        /\ q[d].state = priv[d].state /\ q[d].locks = 1
    BY <2>2, <2>3 DEF SameBut
  <2>5. PICK k \in Private : k = q[d]
    BY <1>2, <2>4
  <2>6. PICK v : v = [k EXCEPT !.stuck = TRUE]
    OBVIOUS
  <2>7. v \in Private /\ v.state = k.state /\ v.locks = k.locks /\ v.stuck = TRUE
    BY <2>6 DEF Private
  <2>8. priv' = [q EXCEPT ![d] = v]
    BY <2>1, <2>3, <2>5, <2>6, Zenon
  <2>9. /\ priv' \in [Devs -> Private] /\ \A x \in Devs : x # d => priv'[x] = priv[x]
        /\ priv'[d].state = priv[d].state /\ priv'[d].locks = 1 /\ priv'[d].stuck = TRUE
    BY <1>2, <2>4, <2>5, <2>7, <2>8, UpdateIs
  <2>10. \A x \in Devs : Live(x)' <=> Live(x)
    BY <2>9 DEF Live
  <2>11. Error \in Answers /\ ~call'.on
    BY <2>1, NoCallIs, AnswersAre
  <2>12. RowsInv'
    BY <2>1, <2>10 DEF SdInv, RowsInv
  <2>13. MutexReturned'
    <3>1. ASSUME NEW x \in Devs, Live(x)'
          PROVE  priv'[x].locks = IF priv'[x].stuck THEN 1 ELSE 0
      <4>1. CASE x = d
        BY <2>9, <4>1
      <4>2. CASE x # d
        BY <1>2, <2>9, <2>10, <3>1, <4>2 DEF SdInv, MutexReturned
      <4>. QED  BY <4>1, <4>2
    <3>. QED  BY <2>11, <3>1 DEF MutexReturned
  <2>14. PositionKept'
    BY <2>1 DEF SdInv, PositionKept, IsOpen
  <2>. QED  BY <1>2, <2>1, <2>9, <2>11, <2>12, <2>13, <2>14, AnsweredStep DEF SdInv, Typed
<1>. QED  BY <1>3, <1>4

-----------------------------------------------------------------------------
(***************************************************************************)
(* read() and write().                                                     *)
(***************************************************************************)
LEMMA TransferStep ==
  ASSUME SdInv, NEW op \in Transfers, NEW f \in Files, NEW n \in 0..Longest,
         NEW allowed \in BOOLEAN, Transfer(op, f, n, allowed)
  PROVE  SdInv'
<1>. DEFINE start == IF op = "write" /\ Appends(file[f]) THEN Len(content) ELSE file[f].cpos
            c == [NoCall EXCEPT !.op = op, !.obj = f, !.len = n, !.from = start,
                                !.buf = [i \in 1..n |-> Garbage]]
<1>1. ~call.on /\ IsOpen(f)
  BY DEF Transfer
<1>2. file[f] \in File /\ file[f].dev \in Devs
  BY <1>1, FileIs DEF SdInv
<1>3. CASE Refused(0)
  BY <1>1, <1>3, RefusedStep, AnswersAre DEF OK
<1>4. CASE Crash("use after free")
  BY <1>4, CrashStep
<1>5. CASE Live(file[f].dev) /\ Entered(file[f].dev, c)
  <2>1. PICK s : s = start
    OBVIOUS
  <2>2. s \in 0..MaxSize
    BY <1>2, <2>1, ContentIs, FieldsAre DEF SdInv
  <2>3. PICK b : b = [i \in 1..n |-> Garbage]
    OBVIOUS
  <2>4. b \in [1..n -> Bytes]
    BY <2>3, ContentIs DEF SdInv
  <2>5. n \in Nat
    BY SdFatAssumption DEF Longest
  <2>6. b \in Seq(Bytes)
    BY <2>4, <2>5, SeqIs
  <2>7. PICK d : d = [NoCall EXCEPT !.op = op, !.obj = f, !.len = n, !.from = s, !.buf = b]
    OBVIOUS
  <2>8. /\ d \in Call /\ d.op = op /\ d.obj = f /\ d.len = n /\ d.from = s /\ d.buf = b
        /\ d.done = 0
    BY <2>2, <2>6, <2>7, NothingYet DEF NoCall, Call, OK, Transfers
  <2>9. Entered(file[f].dev, d)
    BY <1>5, <2>1, <2>3, <2>7
  <2>10. op = "write" => WritesAt(file[f]) = s
    BY <2>1 DEF WritesAt
  <2>11. op = "read" => file[f].cpos = s
    BY <2>1
  <2>12. op \notin DirOps \union {"open", "diropen"}
    BY DEF DirOps, Transfers
  <2>. QED  BY <1>1, <1>2, <1>5, <2>4, <2>8, <2>9, <2>10, <2>11, <2>12, EnteredStep
<1>. QED  BY <1>3, <1>4, <1>5 DEF Transfer

LEMMA LongestIs == Longest \in Nat /\ Longest <= MaxSize + MaxLen
BY SdFatAssumption DEF Longest

(* The end of a transfer.                                                  *)
LEMMA TransferEnds ==
  ASSUME SdInv, NEW op \in Transfers, Running(op),
         Leave(call.done) \/ (call.done < call.len /\ Leave(0))
  PROVE  SdInv'
<1>1. call.on /\ call.op \in Transfers /\ call.done \in 0..Longest
  BY DEF Running, SdInv, Typed, Call
<1>2. call.done \in Answers /\ 0 \in Answers
  BY <1>1, LongestIs, SdFatAssumption DEF Answers
<1>3. CASE Leave(call.done)
  BY <1>1, <1>2, <1>3, LeaveStep
<1>4. CASE call.done < call.len /\ Leave(0)
  BY <1>1, <1>2, <1>4, LeaveStep
<1>. QED  BY <1>3, <1>4

(* What is known of a transfer in progress.                                *)
LEMMA TransferIs ==
  ASSUME SdInv, call.on, call.op \in Transfers
  PROVE  /\ call.obj \in Files /\ IsOpen(call.obj) /\ file[call.obj] \in File
         /\ call.len \in Nat /\ call.len <= Longest /\ call.from \in Nat
         /\ call.done \in 0..call.len /\ call.buf \in [1..call.len -> Bytes]
         /\ \A k \in 1..call.done : call.from + k <= Len(content)
         /\ call.op = "read" => \A k \in 1..call.done : call.buf[k] = content[call.from + k]
         /\ call.op = "write" => \A k \in 1..call.done : content[call.from + k] = k
         /\ call.op = "read" => file[call.obj].cpos = call.from + call.done
         /\ call.op = "write" => WritesAt(file[call.obj]) = call.from + call.done
<1>1. call.obj \in Files /\ IsOpen(call.obj) /\ call \in Call
  BY DEF SdInv, Typed, CallInv
<1>. QED  BY <1>1, FileIs, CallLengths DEF SdInv, TransferInv

(* A block is moved, and the call goes on.                                 *)
LEMMA MovingStep ==
  ASSUME SdInv, call.on, call.op \in Transfers,
         NEW c \in Call, call' = c, c.on, c.op = call.op, c.dev = call.dev, c.obj = call.obj,
         NEW v \in File, Appends(v) \/ v.lost \/ v.pos = v.cpos,
         file' = [file EXCEPT ![call.obj] = v],
         content' \in Seq(Bytes), Len(content') <= MaxSize,
         UNCHANGED <<table, priv, iter, fault>>, TransferInv'
  PROVE  SdInv'
<1>1. call.obj \in Files
  BY TransferIs
<1>2. /\ file' \in [Files -> File \union {NoFile}] /\ file'[call.obj] = v /\ PositionKept'
  <2>1. PICK w : w = v
    OBVIOUS
  <2>2. w \in File \union {NoFile} /\ (Appends(w) \/ w.lost \/ w.pos = w.cpos)
    BY <2>1
  <2>. QED  BY <1>1, <2>1, <2>2, FileChanged
<1>3. v # NoFile
  <2>1. v.dev \in Devs /\ NoFile.dev = NoDev
    BY FieldsAre DEF NoFile
  <2>. QED  BY <2>1, SdFatAssumption
<1>4. Typed'
  BY <1>2 DEF SdInv, Typed
<1>5. CallInv'
  BY <1>1, <1>2, <1>3 DEF SdInv, CallInv, Live, IsOpen, Transfers, FileOps, DirOps
<1>6. RowsInv' /\ MutexReturned'
  BY DEF SdInv, RowsInv, MutexReturned, Live
<1>. QED  BY <1>2, <1>4, <1>5, <1>6 DEF SdInv

LEMMA ReadSomeStep ==
  ASSUME SdInv, ReadSome
  PROVE  SdInv'
<1>. PICK f, len, done, buf, from :
        f = file[call.obj] /\ len = call.len /\ done = call.done /\ buf = call.buf /\ from = call.from
  OBVIOUS
<1>1. call.on /\ call.op = "read" /\ call.op \in Transfers /\ call.done < call.len
  BY DEF ReadSome, Running, Transfers
<1>2. /\ call.obj \in Files /\ f \in File /\ len \in Nat /\ len <= Longest /\ from \in Nat
      /\ done \in 0..len /\ done < len /\ buf \in [1..len -> Bytes]
      /\ \A k \in 1..done : from + k <= Len(content) /\ buf[k] = content[from + k]
      /\ f.cpos = from + done
  BY <1>1, TransferIs
<1>3. PICK r \in 0..Block :
         /\ r > 0 => f.cpos + r <= Len(content) /\ f.pos + r <= MaxPos
         /\ \/ r = 0 /\ Leave(call.done)
            \/ /\ r > 0
               /\ call' = [call EXCEPT !.done = call.done + r, !.buf = Delivered(r)]
               /\ file' = [file EXCEPT ![call.obj] = Advanced(f, r)]
               /\ UNCHANGED <<table, priv, iter, content, fault>>
  BY DEF ReadSome
<1>4. CASE r = 0 /\ Leave(call.done)
  BY <1>1, <1>4, TransferEnds DEF Transfers, Running
<1>5. CASE ~(r = 0 /\ Leave(call.done))
  <2>. PICK m : m = Len(content)
    OBVIOUS
  <2>0. m \in Nat /\ m <= MaxSize /\ MaxSize \in Nat /\ MaxPos \in Nat
    <3>1. m \in 0..MaxSize /\ MaxSize \in Nat
      BY ContentIs DEF SdInv
    <3>. QED  BY <3>1 DEF MaxPos
  <2>1. /\ call' = [call EXCEPT !.done = done + r, !.buf = Delivered(r)]
        /\ file' = [file EXCEPT ![call.obj] = Advanced(f, r)]
        /\ UNCHANGED <<table, priv, iter, content, fault>>
        /\ r > 0 /\ f.cpos + r <= Len(content) /\ f.pos + r <= MaxPos
    BY <1>3, <1>5
  <2>2. r \in Nat /\ done + r <= len /\ Block \in Nat
    <3>1. Chunk \in Nat
      BY SdFatAssumption
    <3>2. Block = Smaller(Smaller(Chunk, len), len - done)
      BY DEF Block
    <3>3. Block \in Nat /\ Block <= len - done
      BY <1>2, <3>1, <3>2 DEF Smaller
    <3>. QED  BY <1>2, <3>3
  <2>3. PICK b : b = Delivered(r)
    OBVIOUS
  <2>4. /\ b \in [1..len -> Bytes]
        /\ \A k \in 1..done : b[k] = buf[k]
        /\ \A k \in done + 1..done + r : b[k] = content[from + k]
    <3>1. b = [i \in 1..len |->
                 IF i - done \in 1..r THEN content[f.cpos + i - done]
                 ELSE IF i - done \in 1..Block THEN Garbage
                 ELSE buf[i]]
      BY <2>3 DEF Delivered
    <3>2. ASSUME NEW i \in 1..len
          PROVE  b[i] \in Bytes /\ (i \in 1..done => b[i] = buf[i])
                 /\ (i \in done + 1..done + r => b[i] = content[from + i])
      <4>1. CASE i - done \in 1..r
        <5>1. i \notin 1..done /\ f.cpos + i - done = from + i /\ from + i \in 1..m
          <6>1. done \in Nat /\ r \in Nat /\ from \in Nat /\ m \in Nat
            BY <1>2, <2>0, <2>2
          <6>2. PICK k \in 1..r : k = i - done
            BY <4>1
          <6>3. i = done + k /\ i \notin 1..done
            BY <6>1, <6>2
          <6>4. f.cpos = from + done /\ (from + done) + r <= m
            <7>1. f.cpos = from + done
              BY <1>2
            <7>2. f.cpos + r <= m
              BY <2>1
            <7>. QED  BY <7>1, <7>2, Zenon
          <6>5. PICK p : p = f.cpos
            OBVIOUS
          <6>6. p = from + done
            BY <6>4, <6>5
          <6>7. p + i - done = from + i /\ from + i \in 1..m
            <7>1. (from + done) + r <= m /\ k \in Nat /\ 1 <= k /\ k <= r
              BY <6>1, <6>2, <6>4
            <7>2. from + (done + k) \in 1..m /\ (from + done) + (done + k) - done = from + (done + k)
              BY <6>1, <7>1
            <7>. QED  BY <6>3, <6>6, <7>2
          <6>. QED  BY <6>3, <6>5, <6>7
        <5>2. b[i] = content[from + i]
          BY <3>1, <4>1, <5>1
        <5>. QED  BY <5>1, <5>2, ContentIs DEF SdInv
      <4>2. CASE i - done \notin 1..r
        <5>1. i \notin done + 1..done + r
          BY <1>2, <2>2, <4>2
        <5>2. b[i] = IF i - done \in 1..Block THEN Garbage ELSE buf[i]
          BY <3>1, <4>2
        <5>3. i \in 1..done => i - done \notin 1..Block
          BY <1>2, <2>2
        <5>4. Garbage \in Bytes /\ buf[i] \in Bytes
          BY <1>2, ContentIs DEF SdInv
        <5>. QED  BY <5>1, <5>2, <5>3, <5>4
      <4>. QED  BY <4>1, <4>2
    <3>3. \A k \in 1..done : k \in 1..len
      BY <1>2
    <3>4. \A k \in done + 1..done + r : k \in 1..len
      BY <1>2, <2>2
    <3>. QED  BY <3>1, <3>2, <3>3, <3>4
  <2>5. PICK c : c = [call EXCEPT !.done = done + r, !.buf = b]
    OBVIOUS
  <2>6. call' = c
    BY <2>1, <2>3, <2>5
  <2>7. /\ c \in Call /\ c.on /\ c.op = "read" /\ c.dev = call.dev /\ c.obj = call.obj
        /\ c.len = len /\ c.from = from /\ c.done = done + r /\ c.buf = b /\ c.ret = call.ret
    <3>1. b \in Seq(Bytes) /\ done + r \in 0..Longest
      <4>1. b \in Seq(Bytes)
        BY <1>2, <2>4, SeqIs
      <4>2. done + r \in 0..Longest
        BY <1>2, <2>2, LongestIs
      <4>. QED  BY <4>1, <4>2
    <3>2. call \in Call
      BY DEF SdInv, Typed
    <3>. QED  BY <1>1, <2>5, <3>1, <3>2 DEF Call
  <2>8. PICK v : v = Advanced(f, r)
    OBVIOUS
  <2>9. /\ v \in File /\ v.cpos = from + done + r /\ v.pos = f.pos + r
        /\ v.mode = f.mode /\ v.lost = f.lost
    <3>1. /\ f.pos + r \in 0..MaxPos /\ f.cpos + r \in 0..MaxSize /\ f.pos \in Int /\ f.cpos \in Int
      <4>1. f.pos \in 0..MaxPos /\ f.cpos \in 0..MaxSize
        BY <1>2, FieldsAre
      <4>2. f.pos + r <= MaxPos /\ f.cpos + r <= m
        BY <2>1
      <4>3. PICK x, y : x = f.pos /\ y = f.cpos
        OBVIOUS
      <4>4. x \in 0..MaxPos /\ y \in 0..MaxSize /\ x + r <= MaxPos /\ y + r <= m
        BY <4>1, <4>2, <4>3
      <4>5. x + r \in 0..MaxPos /\ y + r \in 0..MaxSize /\ x \in Int /\ y \in Int
        BY <2>0, <2>2, <4>4
      <4>. QED  BY <4>3, <4>5
    <3>2. v = [f EXCEPT !.pos = f.pos + r, !.cpos = f.cpos + r]
      BY <2>8 DEF Advanced
    <3>. QED  BY <1>2, <2>2, <3>1, <3>2 DEF File
  <2>10. Appends(v) \/ v.lost \/ v.pos = v.cpos
    <3>1. Appends(f) \/ f.lost \/ f.pos = f.cpos
      BY <1>1, TransferIs DEF SdInv, PositionKept
    <3>. QED  BY <1>2, <2>9, <3>1 DEF Appends
  <2>11. TransferInv'
    <3>1. file'[call'.obj] = v
      <4>1. file \in [Files -> File \union {NoFile}]
        BY DEF SdInv, Typed
      <4>. QED  BY <1>2, <2>1, <2>6, <2>7, <2>8, <4>1, UpdateIs
    <3>2. call'.obj \in Files /\ IsOpen(call.obj)'
      <4>1. NoFile.dev = NoDev /\ v.dev \in Devs
        BY <2>9, FieldsAre DEF NoFile
      <4>2. v # NoFile
        BY <4>1, SdFatAssumption
      <4>. QED  BY <1>2, <2>6, <2>7, <3>1, <4>2, Zenon DEF IsOpen
    <3>3. ASSUME NEW k \in 1..done + r
          PROVE  from + k <= Len(content) /\ b[k] = content[from + k]
      <4>1. CASE k \in 1..done
        BY <1>2, <2>4, <4>1
      <4>2. CASE k \notin 1..done
        <5>1. done \in Nat /\ r \in Nat /\ from \in Nat /\ m \in Nat
          BY <1>2, <2>0, <2>2
        <5>2. k \in done + 1..done + r /\ from + k <= (from + done) + r
          BY <4>2, <5>1
        <5>3. (from + done) + r <= m
          <6>1. f.cpos = from + done
            BY <1>2
          <6>2. f.cpos + r <= m
            BY <2>1
          <6>. QED  BY <6>1, <6>2, Zenon
        <5>4. from + k <= m
          BY <5>1, <5>2, <5>3
        <5>. QED  BY <2>4, <5>2, <5>4
      <4>. QED  BY <4>1, <4>2
    <3>4. done + r \in 0..len
      BY <1>2, <2>2
    <3>5. file'[call'.obj].cpos = from + (done + r)
      BY <1>2, <2>2, <2>9, <3>1
    <3>6. content' = content
      BY <2>1
    <3>. QED  BY <2>4, <2>6, <2>7, <3>2, <3>3, <3>4, <3>5, <3>6 DEF TransferInv
  <2>. QED
    <3>1. content' \in Seq(Bytes) /\ Len(content') <= MaxSize
      BY <2>1 DEF SdInv, Typed
    <3>2. /\ c \in Call /\ call' = c /\ c.on /\ c.op = call.op /\ c.dev = call.dev
          /\ c.obj = call.obj /\ v \in File
      BY <1>1, <2>6, <2>7, <2>9
    <3>3. UNCHANGED <<table, priv, iter, fault>> /\ file' = [file EXCEPT ![call.obj] = v]
      BY <2>1, <2>8
    <3>. QED  BY <1>1, <2>10, <2>11, <3>1, <3>2, <3>3, MovingStep
<1>. QED  BY <1>4, <1>5

(* What FSWriteFile() makes of the file.                                   *)
LEMMA StoredIs ==
  ASSUME SdInv, call.on, call.op = "write", NEW p \in Nat, p <= MaxSize, NEW r \in Nat,
         call.done + r <= call.len, p + r <= MaxSize,
         NEW s, s = Stored(p, r)
  PROVE  /\ s \in Seq(Bytes) /\ Len(s) <= MaxSize /\ p + r <= Len(s) /\ Len(s) \in Nat
         /\ p = Len(content) => Len(s) = p + r
         /\ \A i \in 1..p : i <= Len(content) => s[i] = content[i]
         /\ \A i \in p + 1..p + r : s[i] = call.done + (i - p)
<1>. PICK m, done : m = Len(content) /\ done = call.done
  OBVIOUS
<1>1. m \in Nat /\ m <= MaxSize /\ MaxSize \in Nat
  <2>1. m \in 0..MaxSize /\ MaxSize \in Nat
    BY ContentIs DEF SdInv
  <2>. QED  BY <2>1
<1>2. \A x \in 0..(MaxLen + MaxSize) : x \in Bytes
  BY DEF Bytes
<1>3. done \in Nat /\ done + r \in 0..(MaxLen + MaxSize) /\ MaxLen \in Nat
  <2>1. done \in 0..call.len /\ call.len \in Nat /\ call.len <= Longest
    BY TransferIs DEF Transfers
  <2>2. MaxLen \in Nat
    BY SdFatAssumption
  <2>. QED  BY <1>1, <2>1, <2>2, LongestIs
<1>4. PICK n : n = IF p + r > m THEN p + r ELSE m
  OBVIOUS
<1>5. n \in Nat /\ n <= MaxSize /\ p + r <= n /\ m <= n /\ (p = m => n = p + r)
  BY <1>1, <1>4
<1>6. s = [i \in 1..n |->
             IF i - p \in 1..r THEN done + (i - p) ELSE IF i <= m THEN content[i] ELSE Garbage]
  BY <1>4 DEF Stored, Source
<1>7. ASSUME NEW i \in 1..n
      PROVE  s[i] \in Bytes
  <2>1. CASE i - p \in 1..r
    <3>1. s[i] = done + (i - p) /\ done + (i - p) \in 0..(MaxLen + MaxSize)
      BY <1>1, <1>3, <1>6, <2>1
    <3>. QED  BY <1>2, <3>1
  <2>2. CASE i - p \notin 1..r /\ i <= m
    <3>1. s[i] = content[i] /\ i \in 1..m
      BY <1>1, <1>6, <2>2
    <3>. QED  BY <3>1, ContentIs DEF SdInv
  <2>3. CASE i - p \notin 1..r /\ ~(i <= m)
    <3>1. s[i] = Garbage
      BY <1>6, <2>3
    <3>. QED  BY <3>1, ContentIs DEF SdInv
  <2>. QED  BY <2>1, <2>2, <2>3
<1>8. s \in [1..n -> Bytes]
  BY <1>6, <1>7
<1>9. s \in Seq(Bytes) /\ Len(s) = n
  BY <1>5, <1>8, SeqIs
<1>10. ASSUME NEW i \in 1..p, i <= m
       PROVE  s[i] = content[i]
  <2>1. i \in 1..n /\ i - p \notin 1..r
    BY <1>5
  <2>. QED  BY <1>6, <1>10, <2>1
<1>11. ASSUME NEW i \in p + 1..p + r
       PROVE  s[i] = done + (i - p)
  <2>1. i \in 1..n /\ i - p \in 1..r
    BY <1>5
  <2>. QED  BY <1>6, <2>1
<1>. QED  BY <1>5, <1>9, <1>10, <1>11

LEMMA WriteSomeStep ==
  ASSUME SdInv, WriteSome
  PROVE  SdInv'
<1>. PICK f, len, done, from, m :
        /\ f = file[call.obj] /\ len = call.len /\ done = call.done /\ from = call.from
        /\ m = Len(content)
  OBVIOUS
<1>. PICK p : p = WritesAt(f)
  OBVIOUS
<1>1. call.on /\ call.op = "write" /\ call.op \in Transfers /\ call.done < call.len
  BY DEF WriteSome, Running, Transfers
<1>2. /\ call.obj \in Files /\ f \in File /\ len \in Nat /\ len <= Longest /\ from \in Nat
      /\ done \in 0..len /\ done < len /\ call.buf \in [1..call.len -> Bytes]
      /\ \A k \in 1..done : from + k <= m /\ content[from + k] = k
      /\ p = from + done
  BY <1>1, TransferIs
<1>3. m \in Nat /\ m <= MaxSize /\ MaxSize \in Nat /\ MaxPos \in Nat
  <2>1. m \in 0..MaxSize /\ MaxSize \in Nat
    BY ContentIs DEF SdInv
  <2>. QED  BY <2>1 DEF MaxPos
<1>4. p \in Nat /\ p <= MaxSize
  <2>1. f.cpos \in 0..MaxSize
    BY <1>2, FieldsAre
  <2>2. p = m \/ p = f.cpos
    BY DEF WritesAt
  <2>. QED  BY <1>3, <2>1, <2>2
<1>5. PICK r \in 0..Smaller(Block, MaxSize - p) :
         \/ r = 0 /\ Leave(0)
         \/ /\ r > 0 /\ f.pos + r <= MaxPos
            /\ call' = [call EXCEPT !.done = call.done + r]
            /\ content' = Stored(p, r)
            /\ file' = [file EXCEPT ![call.obj] = [f EXCEPT !.pos = f.pos + r, !.cpos = p + r]]
            /\ UNCHANGED <<table, priv, iter, fault>>
  BY DEF WriteSome
<1>6. CASE r = 0 /\ Leave(0)
  BY <1>1, <1>6, TransferEnds DEF Transfers, Running
<1>7. CASE ~(r = 0 /\ Leave(0))
  <2>1. /\ r > 0 /\ f.pos + r <= MaxPos
        /\ call' = [call EXCEPT !.done = done + r]
        /\ content' = Stored(p, r)
        /\ file' = [file EXCEPT ![call.obj] = [f EXCEPT !.pos = f.pos + r, !.cpos = p + r]]
        /\ UNCHANGED <<table, priv, iter, fault>>
    BY <1>5, <1>7
  <2>2. r \in Nat /\ done + r <= len /\ p + r <= MaxSize
    <3>1. Chunk \in Nat
      BY SdFatAssumption
    <3>2. Block = Smaller(Smaller(Chunk, len), len - done)
      BY DEF Block
    <3>3. Block \in Nat /\ Block <= len - done
      BY <1>2, <3>1, <3>2 DEF Smaller
    <3>4. Smaller(Block, MaxSize - p) <= Block /\ Smaller(Block, MaxSize - p) <= MaxSize - p
          /\ Smaller(Block, MaxSize - p) \in Int
      BY <1>3, <1>4, <3>3 DEF Smaller
    <3>5. PICK t : t = Smaller(Block, MaxSize - p)
      OBVIOUS
    <3>6. r \in Nat /\ t \in Int /\ r <= t /\ t <= Block /\ t <= MaxSize - p
      BY <1>4, <3>4, <3>5
    <3>7. done \in Nat /\ len \in Nat /\ p \in Nat /\ MaxSize \in Nat
      BY <1>2, <1>3, <1>4
    <3>8. PICK u : u = Block
      OBVIOUS
    <3>9. u \in Nat /\ u <= len - done /\ t <= u
      BY <3>3, <3>6, <3>8
    <3>10. done + r <= len
      BY <3>6, <3>7, <3>9
    <3>. QED  BY <3>6, <3>7, <3>10
  <2>3. PICK s : s = Stored(p, r)
    OBVIOUS
  <2>4. /\ s \in Seq(Bytes) /\ Len(s) <= MaxSize /\ p + r <= Len(s) /\ Len(s) \in Nat
        /\ p = m => Len(s) = p + r
        /\ \A i \in 1..p : i <= m => s[i] = content[i]
        /\ \A i \in p + 1..p + r : s[i] = done + (i - p)
    BY <1>1, <1>4, <2>2, <2>3, StoredIs
  <2>5. PICK c : c = [call EXCEPT !.done = done + r]
    OBVIOUS
  <2>6. /\ c \in Call /\ c.on /\ c.op = "write" /\ c.dev = call.dev /\ c.obj = call.obj
        /\ c.len = len /\ c.from = from /\ c.done = done + r /\ c.buf = call.buf
    <3>1. done + r \in 0..Longest
      BY <1>2, <2>2, LongestIs
    <3>2. call \in Call
      BY DEF SdInv, Typed
    <3>. QED  BY <1>1, <2>5, <3>1, <3>2 DEF Call
  <2>7. PICK v : v = [f EXCEPT !.pos = f.pos + r, !.cpos = p + r]
    OBVIOUS
  <2>8. v \in File /\ v.cpos = p + r /\ v.pos = f.pos + r /\ v.mode = f.mode /\ v.lost = f.lost
    <3>1. f.pos + r \in 0..MaxPos /\ p + r \in 0..MaxSize
      <4>1. f.pos \in 0..MaxPos
        BY <1>2, FieldsAre
      <4>2. PICK x : x = f.pos
        OBVIOUS
      <4>3. x \in Nat /\ r \in Nat /\ x + r <= MaxPos /\ MaxPos \in Nat
        BY <1>3, <2>1, <2>2, <4>1, <4>2
      <4>4. x + r \in 0..MaxPos
        BY <4>3
      <4>5. p + r \in 0..MaxSize
        BY <1>3, <1>4, <2>2
      <4>. QED  BY <4>2, <4>4, <4>5
    <3>. QED  BY <1>2, <2>7, <3>1 DEF File
  <2>9. Appends(v) \/ v.lost \/ v.pos = v.cpos
    <3>1. Appends(f) \/ f.lost \/ f.pos = f.cpos
      BY <1>1, TransferIs DEF SdInv, PositionKept
    <3>2. ~Appends(f) => p = f.cpos
      BY DEF WritesAt
    <3>. QED  BY <2>8, <3>1, <3>2 DEF Appends
  <2>10. TransferInv'
    <3>1. file'[call'.obj] = v
      <4>1. file \in [Files -> File \union {NoFile}]
        BY DEF SdInv, Typed
      <4>. QED  BY <1>2, <2>1, <2>5, <2>6, <2>7, <4>1, UpdateIs
    <3>2. call'.obj \in Files /\ IsOpen(call.obj)'
      <4>1. NoFile.dev = NoDev /\ v.dev \in Devs
        BY <2>8, FieldsAre DEF NoFile
      <4>2. v # NoFile
        BY <4>1, SdFatAssumption
      <4>3. call' = c
        BY <2>1, <2>5
      <4>. QED  BY <1>2, <2>6, <3>1, <4>2, <4>3, Zenon DEF IsOpen
    <3>3. ASSUME NEW k \in 1..done + r
          PROVE  from + k <= Len(s) /\ s[from + k] = k
      <4>1. CASE k \in 1..done
        <5>1. from + k <= m /\ content[from + k] = k
          BY <1>2, <4>1
        <5>2. from + k \in 1..p
          BY <1>2, <4>1
        <5>3. PICK l : l = Len(s)
          OBVIOUS
        <5>4. from + k <= l
          BY <1>4, <2>2, <2>4, <5>2, <5>3
        <5>. QED  BY <2>4, <5>1, <5>2, <5>3, <5>4
      <4>2. CASE k \notin 1..done
        <5>1. from + k \in p + 1..p + r /\ done + ((from + k) - p) = k
          BY <1>2, <2>2, <4>2
        <5>2. PICK l : l = Len(s)
          OBVIOUS
        <5>3. from + k <= l
          BY <1>4, <2>2, <2>4, <5>1, <5>2
        <5>. QED  BY <2>4, <5>1, <5>2, <5>3
      <4>. QED  BY <4>1, <4>2
    <3>4. done + r \in 0..len
      BY <1>2, <2>2
    <3>5. WritesAt(file[call.obj])' = from + (done + r)
      <4>1. from + (done + r) = p + r
        BY <1>2, <2>2
      <4>2. WritesAt(file[call.obj])' = IF Appends(v) THEN Len(s) ELSE v.cpos
        <5>1. content' = s
          BY <2>1, <2>3
        <5>. QED  BY <3>1, <5>1 DEF WritesAt, Appends
      <4>3. Appends(v) => p = m
        BY <2>8 DEF WritesAt, Appends
      <4>4. Appends(v) => Len(s) = p + r
        BY <2>4, <4>3
      <4>5. WritesAt(file[call.obj])' = p + r
        <5>1. v.cpos = p + r
          BY <2>8
        <5>. QED  BY <4>2, <4>4, <5>1, Zenon
      <4>. QED  BY <4>1, <4>5, Zenon
    <3>6. content' = s /\ call' = c
      BY <2>1, <2>3, <2>5
    <3>. QED  BY <1>2, <2>6, <3>2, <3>3, <3>4, <3>5, <3>6 DEF TransferInv
  <2>11. /\ call' = c /\ content' = s /\ file' = [file EXCEPT ![call.obj] = v]
         /\ UNCHANGED <<table, priv, iter, fault>>
    BY <2>1, <2>3, <2>5, <2>7, Zenon
  <2>12. content' \in Seq(Bytes) /\ Len(content') <= MaxSize
    BY <2>4, <2>11
  <2>13. /\ c \in Call /\ call' = c /\ c.on /\ c.op = call.op /\ c.dev = call.dev
         /\ c.obj = call.obj /\ v \in File
    BY <1>1, <2>6, <2>8, <2>11
  <2>. QED  BY <1>1, <2>9, <2>10, <2>11, <2>12, <2>13, MovingStep
<1>. QED  BY <1>6, <1>7

-----------------------------------------------------------------------------
(***************************************************************************)
(* The driver's invariant is kept by whatever the driver does, and by      *)
(* whatever the C library asks of it.                                      *)
(***************************************************************************)
LEMMA DriverStep ==
  ASSUME SdInv, Driver
  PROVE  SdInv'
<1>1. ASSUME NEW op \in Transfers, Finished(op)
      PROVE  SdInv'
  BY <1>1, TransferEnds DEF Finished
<1>2. CASE ReadFailed
  BY <1>2, TransferEnds DEF ReadFailed, Transfers
<1>3. CASE WriteFailed
  BY <1>3, TransferEnds DEF WriteFailed, Transfers
<1>4. CASE Stat \/ Statvfs \/ (\E op \in ChangeOps : Change(op)) \/ Fstat \/ Fsync \/ DirNext \/ DirReset
  BY <1>4, PlainStep
<1>5. CASE OpenCall \/ Close \/ Ftruncate
  BY <1>5, OpenStep, CloseStep, FtruncateStep
<1>6. CASE ReadSome \/ WriteSome
  BY <1>6, ReadSomeStep, WriteSomeStep
<1>7. CASE DirOpen \/ DirClose
  BY <1>7, DirStep
<1>. QED  BY <1>1, <1>2, <1>3, <1>4, <1>5, <1>6, <1>7 DEF Driver, Transfers

LEMMA ApplicationStep ==
  ASSUME SdInv, Application
  PROVE  SdInv'
<1>1. CASE Mount \/ Unmount
  BY <1>1, MountStep, UnmountStep
<1>2. ASSUME NEW op \in PathOps, EnterPath(op)
      PROVE  SdInv'
  BY <1>2, EnterPathStep
<1>3. ASSUME NEW f \in Files, NEW m, EnterOpen(f, m)
      PROVE  SdInv'
  BY <1>3, EnterOpenStep
<1>4. ASSUME NEW f \in Files, NEW op \in FileOps, EnterFile(op, f)
      PROVE  SdInv'
  BY <1>4, EnterFileStep
<1>5. ASSUME NEW f \in Files, NEW w \in Whences, NEW off \in -1..MaxSize, Seek(f, w, off)
      PROVE  SdInv'
  BY <1>5, SeekStep
<1>6. ASSUME NEW f \in Files, SeekUnknown(f)
      PROVE  SdInv'
  BY <1>6, SeekUnknownStep
<1>7. ASSUME NEW f \in Files, NEW n \in 0..MaxLen, Read(f, n) \/ Write(f, n)
      PROVE  SdInv'
  <2>1. n \in 0..Longest
    BY SdFatAssumption DEF Longest
  <2>2. "read" \in Transfers /\ "write" \in Transfers
    BY DEF Transfers
  <2>3. CanRead(file[f]) \in BOOLEAN /\ CanWrite(file[f]) \in BOOLEAN
    BY DEF CanRead, CanWrite
  <2>4. CASE Read(f, n)
    BY <2>1, <2>2, <2>3, <2>4, TransferStep DEF Read
  <2>5. CASE Write(f, n)
    BY <2>1, <2>2, <2>3, <2>5, TransferStep DEF Write
  <2>. QED  BY <1>7, <2>4, <2>5
<1>8. ASSUME NEW i \in Iters, EnterDirOpen(i) \/ \E op \in DirOps : EnterDir(op, i)
      PROVE  SdInv'
  BY <1>8, EnterDirOpenStep, EnterDirStep
<1>. QED  BY <1>1, <1>2, <1>3, <1>4, <1>5, <1>6, <1>7, <1>8 DEF Application

LEMMA SdInitInv ==
  ASSUME SdInit
  PROVE  SdInv
<1>1. /\ \A i \in 1..Rows : table[i] \in {NoDev, Other}
      /\ table \in [1..Rows -> Devs \union {NoDev, Other}]
  BY DEF SdInit
<1>2. priv \in [Devs -> Private] /\ \A d \in Devs : ~Live(d)
  <2>1. Fresh("free") \in Private /\ Fresh("free").state = "free"
    BY FreshIs
  <2>. QED  BY <2>1 DEF SdInit, Live
<1>3. file \in [Files -> File \union {NoFile}] /\ \A f \in Files : ~IsOpen(f)
  BY DEF SdInit, IsOpen
<1>4. iter \in [Iters -> Devs \union {NoDev}]
  BY DEF SdInit
<1>5. content \in Seq(Bytes) /\ Len(content) <= MaxSize
  <2>1. MaxSize \in Nat /\ MaxLen \in Nat
    BY SdFatAssumption
  <2>2. PICK n \in 0..MaxSize : content = [i \in 1..n |-> MaxLen + i]
    BY DEF SdInit
  <2>3. n \in Nat /\ content \in [1..n -> Bytes]
    BY <2>1, <2>2 DEF Bytes
  <2>4. content \in Seq(Bytes) /\ Len(content) = n
    BY <2>3, SeqIs
  <2>. QED  BY <2>1, <2>4
<1>6. call = NoCall /\ call \in Call /\ ~call.on /\ call.op \notin Transfers /\ fault = "none"
  <2>1. call = NoCall /\ fault = "none"
    BY DEF SdInit
  <2>2. NoCall \in Call /\ ~NoCall.on /\ NoCall.op = "none"
    BY NothingYet DEF NoCall, Call, OK
  <2>. QED  BY <2>1, <2>2 DEF Transfers
<1>7. Typed
  BY <1>1, <1>2, <1>3, <1>4, <1>5, <1>6 DEF Typed
<1>8. RowsInv
  BY <1>1, <1>2, SdFatAssumption DEF RowsInv
<1>. QED
  BY <1>2, <1>3, <1>6, <1>7, <1>8 DEF SdInv, CallInv, MutexReturned, TransferInv, PositionKept

-----------------------------------------------------------------------------
(***************************************************************************)
(* The invariant of the functions that load a file.                        *)
(***************************************************************************)
Buffered == ld.buf \in [1..ld.size -> Bytes]

(* What the loader's place says of its data and of the call it makes.      *)
StageInv ==
  /\ ld.pc \in {"open", "end", "start"} => ld.done = 0
  /\ ld.pc \in {"open", "end"} => ~ld.known /\ ld.size = 0
  /\ ld.pc = "close" => ld.by = "LoadFileToMem"
  /\ ld.pc \in {"read", "size", "copy"} => Buffered /\ ld.done <= ld.size
  /\ ld.pc \in {"end", "start", "read", "copy", "close"} => ~call.on
  /\ fault = "none" =>
       /\ ld.pc = "open" /\ call.on => call.op = "open"
       /\ ld.pc = "end" => call.ret \in -1..MaxSize
       /\ ld.pc = "size" /\ (call.on \/ call.ret > 0) =>
            call.op = "read" /\ call.len <= ld.size - ld.done

(* The card stands where the loader has read to, or at the end of the file *)
(* when the seek back to its start has failed.                             *)
At(p) == p \in {ld.done, Len(content)}

(* The loader has the size of what there is to load, and its bytes so far. *)
WholeInv ==
  fault = "none" =>
    /\ ld.pc = "open" =>
         /\ call.on => call.obj = ld.f /\ call.mode = "r"
         /\ ~call.on /\ call.ret = OK => IsOpen(ld.f) /\ file[ld.f].len = Len(content)
    /\ ld.pc = "end" /\ call.ret # Error =>
         call.ret = Len(content) /\ IsOpen(ld.f) /\ At(file[ld.f].cpos)
    /\ ld.pc \in {"start", "read", "size"} =>
         /\ ld.size = Len(Wanted)
         /\ \A k \in 1..ld.done : ld.buf[k] = Wanted[k]
    /\ ld.pc \in {"start", "read"} /\ ld.known => IsOpen(ld.f) /\ At(file[ld.f].cpos)
    /\ ld.pc = "read" => Holdable
    /\ ld.pc = "size" =>
         /\ ld.known
         /\ call.on => call.obj = ld.f
         /\ (call.on \/ call.ret > 0) => At(call.from)
         /\ ~call.on /\ call.ret > 0 =>
              IsOpen(ld.f) /\ file[ld.f].cpos = call.from + call.ret

LoadInv == SdInv /\ ld \in Loader /\ StageInv /\ WholeInv /\ LoadedIsFile

(* What a loader has accepted stays what there was to load: it makes no    *)
(* more calls.                                                             *)
HeldInv ==
  /\ ElfHoldsFile
  /\ ld.rpx => ld.buf = Wanted
  /\ ld.rpx \/ Accepted => ~call.on

(* The pieces, up to the place where the copying is.                       *)
CutOf(l, cut) ==
  /\ cut \in [1..Ends -> 0..l.size] /\ cut[1] = 0
  /\ \A a \in 1..Len(Areas) : l.placed[a] = SubSeq(l.buf, cut[a] + 1, cut[a + 1])
  /\ \A a \in 1..(l.area - 1) : cut[a + 1] = cut[a] + Areas[a]
  /\ cut[l.area + 1] = cut[l.area] + l.map /\ l.map <= Areas[l.area]
  /\ \A a \in (l.area + 1)..Ends : cut[a] = l.done

Untouched ==
  ld.area = 1 /\ ld.map = 0 /\ ld.placed = [a \in 1..Len(Areas) |-> <<>>]

(* Nothing is copied of a file that is no RPX; of one that is, the pieces  *)
(* so far, which are all of it, or fill all the areas, at the end.         *)
CopyInv ==
  /\ ~ld.rpx => ld.pc # "copy" /\ Untouched
  /\ ld.rpx =>
       /\ ld.pc \in {"copy", "done"} /\ Buffered /\ ld.done <= ld.size
       /\ \E cut : CutOf(ld, cut)
       /\ ld.pc = "done" /\ ld.ret >= 0 => ld.done = ld.size
       /\ ld.pc = "done" /\ ld.ret < 0 =>
            ld.done # ld.size /\ ld.area = Len(Areas) /\ ld.map = Areas[ld.area]

-----------------------------------------------------------------------------
(***************************************************************************)
(* What the calls a loader makes leave behind, unless the program halts.   *)
(***************************************************************************)
(* A seek leads to its target, or fails and leaves the card where it was.  *)
LEMMA SeekAnswers ==
  ASSUME SdInv, NEW f \in Files, NEW w \in Whences, NEW off \in Int, Seek(f, w, off),
         NEW t, t = Target(file[f], w, off)
  PROVE  /\ content' = content /\ ~call'.on /\ t \in 0..MaxSize
         /\ fault' = "none" =>
              /\ IsOpen(f)'
              /\ \/ call'.ret = t /\ t <= Len(content) /\ file'[f].cpos = t
                 \/ call'.ret = Error /\ file'[f].cpos = file[f].cpos
<1>1. PICK k : k = file[f]
  OBVIOUS
<1>2. ~call.on /\ IsOpen(f) /\ t \in 0..MaxSize /\ k \in File /\ t \in 0..MaxPos
  <2>1. ~call.on /\ IsOpen(f) /\ t \in 0..MaxSize /\ k \in File
    BY <1>1, FileIs DEF Seek, SdInv
  <2>2. MaxSize \in Nat
    BY SdFatAssumption
  <2>. QED  BY <2>1, <2>2 DEF MaxPos
<1>3. CASE ~Live(file[f].dev)
  BY <1>2, <1>3 DEF Seek, Crash
<1>4. CASE Live(file[f].dev)
  <2>1. PICK v, r :
           /\ \/ /\ v = [[k EXCEPT !.pos = t] EXCEPT !.cpos = t, !.lost = FALSE] /\ r = t
                 /\ t <= Len(content)
              \/ v = [[k EXCEPT !.pos = t] EXCEPT !.lost = TRUE] /\ r = Error
           /\ file' = [file EXCEPT ![f] = v]
           /\ call' = [NoCall EXCEPT !.ret = r]
           /\ UNCHANGED <<table, priv, iter, content, fault>>
    <3>1. SeekTo(file[f], Target(file[f], w, off)) = [k EXCEPT !.pos = t]
      BY <1>1 DEF SeekTo
    <3>2. [k EXCEPT !.pos = t].pos = t
      BY <1>2, FieldsAre
    <3>. QED  BY <1>1, <1>4, <3>1, <3>2, Zenon DEF Seek
  <2>2. /\ v.dev \in Devs
        /\ \/ v.cpos = t /\ r = t /\ t <= Len(content)
           \/ v.cpos = k.cpos /\ r = Error
    <3>1. ASSUME v = [[k EXCEPT !.pos = t] EXCEPT !.cpos = t, !.lost = FALSE]
          PROVE  v.dev \in Devs /\ v.cpos = t
      BY <1>2, <3>1 DEF File
    <3>2. ASSUME v = [[k EXCEPT !.pos = t] EXCEPT !.lost = TRUE]
          PROVE  v.dev \in Devs /\ v.cpos = k.cpos
      BY <1>2, <3>2 DEF File
    <3>. QED  BY <2>1, <3>1, <3>2
  <2>3. v # NoFile
    <3>1. NoFile.dev = NoDev
      BY DEF NoFile
    <3>. QED  BY <2>2, <3>1, SdFatAssumption
  <2>4. file'[f] = v
    BY <2>1 DEF SdInv, Typed
  <2>5. r \in Answers
    BY <1>2, <2>2, AnswersAre, SdFatAssumption DEF Answers
  <2>6. ~call'.on /\ call'.ret = r
    BY <2>1, <2>5, NoCallIs
  <2>. QED  BY <1>1, <1>2, <2>1, <2>2, <2>3, <2>4, <2>6 DEF IsOpen
<1>. QED  BY <1>3, <1>4

(* A read() begins, or answers that nothing was read.                      *)
LEMMA ReadBegins ==
  ASSUME SdInv, NEW f \in Files, NEW n \in 0..Longest, Read(f, n)
  PROVE  /\ content' = content
         /\ fault' = "none" =>
              \/ ~call'.on /\ call'.ret = 0
              \/ /\ call'.on /\ call'.op = "read" /\ call'.obj = f /\ call'.len = n
                 /\ call'.from = file[f].cpos
<1>. DEFINE start == IF "read" = "write" /\ Appends(file[f]) THEN Len(content) ELSE file[f].cpos
            c == [NoCall EXCEPT !.op = "read", !.obj = f, !.len = n, !.from = start,
                                !.buf = [i \in 1..n |-> Garbage]]
<1>1. CASE Refused(0)
  <2>1. content' = content /\ call' = [NoCall EXCEPT !.ret = 0] /\ 0 \in Answers
    BY <1>1, AnswersAre DEF Refused, OK
  <2>. QED  BY <2>1, NoCallIs
<1>2. CASE Crash("use after free")
  BY <1>2 DEF Crash
<1>3. CASE Entered(file[f].dev, c)
  <2>1. PICK d, b, s : d = file[f].dev /\ b = [i \in 1..n |-> Garbage] /\ s = file[f].cpos
    OBVIOUS
  <2>2. content' = content /\ call' = [c EXCEPT !.on = TRUE, !.dev = d]
    BY <1>3, <2>1 DEF Entered
  <2>3. c = [NoCall EXCEPT !.op = "read", !.obj = f, !.len = n, !.from = s, !.buf = b]
    BY <2>1
  <2>4. /\ call'.on /\ call'.op = "read" /\ call'.obj = f /\ call'.len = n /\ call'.from = s
    BY <2>2, <2>3 DEF NoCall
  <2>. QED  BY <2>1, <2>2, <2>4
<1>. QED  BY <1>1, <1>2, <1>3 DEF Read, Transfer

(* An open() begins, or answers that there is no device.                   *)
LEMMA OpenBegins ==
  ASSUME SdInv, NEW f \in Files, EnterOpen(f, "r")
  PROVE  \/ ~call'.on /\ call'.ret = Error
         \/ call'.on /\ call'.op = "open" /\ call'.obj = f /\ call'.mode = "r"
<1>1. CASE Refused(Error)
  BY <1>1, AnswersAre, NoCallIs DEF Refused
<1>2. CASE Entered(Device, [NoCall EXCEPT !.op = "open", !.obj = f, !.mode = "r"])
  <2>1. PICK d : d = Device
    OBVIOUS
  <2>2. call' = [[NoCall EXCEPT !.op = "open", !.obj = f, !.mode = "r"] EXCEPT !.on = TRUE, !.dev = d]
    BY <1>2, <2>1 DEF Entered
  <2>. QED  BY <2>2 DEF NoCall
<1>. QED  BY <1>1, <1>2 DEF EnterOpen, Modes

(* The file open() has opened for reading has the length of the card's.    *)
LEMMA OpenEnds ==
  ASSUME SdInv, OpenCall, call.mode = "r", NEW f, f = call.obj
  PROVE  /\ content' = content
         /\ fault' = "none" =>
              /\ ~call'.on
              /\ call'.ret = OK => IsOpen(f)' /\ file'[f].len = Len(content)
<1>1. call.on /\ call.op = "open" /\ call.obj \in Files
  BY DEF OpenCall, Running, SdInv, CallInv
<1>2. OpenedContent(call.mode) = content
  BY DEF OpenedContent
<1>3. ASSUME NEW v \in {OK, Error}, call' = Returned(v)
      PROVE  ~call'.on /\ call'.ret = v
  BY <1>3, ReturnedIs, AnswersAre DEF SdInv, Typed
<1>4. CASE Leave(Error)
  BY <1>3, <1>4 DEF Leave, OK, Error
<1>5. CASE Crash("null deref")
  BY <1>5 DEF Crash
<1>6. CASE content' = OpenedContent(call.mode) /\ call' = Returned(Error)
  BY <1>2, <1>3, <1>6 DEF OK, Error
<1>7. CASE /\ content' = OpenedContent(call.mode) /\ call' = Returned(OK)
           /\ file' = [file EXCEPT ![call.obj] = NewFile(call.dev, call.mode)]
  <2>1. PICK w : w = NewFile(call.dev, call.mode)
    OBVIOUS
  <2>2. w.len = Len(content) /\ w.dev = call.dev
    BY <1>2, <2>1 DEF NewFile
  <2>3. w # NoFile
    <3>1. NoFile.dev = NoDev /\ call.dev \in Devs
      BY <1>1 DEF NoFile, SdInv, CallInv
    <3>. QED  BY <2>2, <3>1, SdFatAssumption
  <2>4. file'[call.obj] = w
    BY <1>1, <1>7, <2>1 DEF SdInv, Typed
  <2>. QED  BY <1>2, <1>3, <1>7, <2>2, <2>3, <2>4, Zenon DEF IsOpen
<1>. QED  BY <1>4, <1>5, <1>6, <1>7 DEF OpenCall

-----------------------------------------------------------------------------
(***************************************************************************)
(* The steps of a loader.                                                  *)
(***************************************************************************)
LEMMA Sizes ==
  ASSUME ld \in Loader
  PROVE  /\ ld.size \in 0..MaxSize /\ ld.done \in 0..MaxSize /\ ld.f \in Files
         /\ ld.size \in Nat /\ ld.done \in Nat /\ ld.buf \in Seq(Bytes)
         /\ MaxSize \in Nat /\ -1 \in -3..MaxSize /\ -2 \in -3..MaxSize /\ -3 \in -3..MaxSize
         /\ 0 \in 0..MaxSize /\ 0 \in -3..MaxSize
<1>1. MaxSize \in Nat
  BY SdFatAssumption
<1>. QED  BY <1>1 DEF Loader

LEMMA IdleStep ==
  ASSUME SdInv, DeviceIdle
  PROVE  SdInv'
<1>1. /\ table' = table /\ priv' = priv /\ file' = file /\ iter' = iter /\ content' = content
      /\ call' = call /\ fault' = fault
  BY DEF DeviceIdle
<1>2. Typed' /\ CallInv' /\ RowsInv' /\ MutexReturned' /\ TransferInv' /\ PositionKept'
  BY <1>1 DEF SdInv, Typed, CallInv, RowsInv, MutexReturned, TransferInv, PositionKept,
              Live, IsOpen, WritesAt
<1>. QED  BY <1>2 DEF SdInv

LEMMA EndedInv ==
  ASSUME SdInv', ld' \in Loader, ld'.pc \in {"idle", "done"}
  PROVE  LoadInv'
BY DEF LoadInv, StageInv, WholeInv, LoadedIsFile

LEMMA ClosingInv ==
  ASSUME SdInv', ld' \in Loader, ld'.pc = "close", ld'.by = "LoadFileToMem", ~call'.on,
         ld'.ret \in {-2, -3}
  PROVE  LoadInv'
<1>1. ~(ld'.ret >= 0)
  OBVIOUS
<1>. QED  BY <1>1 DEF LoadInv, StageInv, WholeInv, LoadedIsFile

LEMMA NotLoadingIs == NotLoading \in Loader /\ NotLoading.pc = "idle"
<1>1. PICK p : p = [a \in 1..Len(Areas) |-> <<>>]
  OBVIOUS
<1>2. p \in [1..Len(Areas) -> Seq(Bytes)] /\ <<>> \in Seq(Bytes)
  BY <1>1, EmptySeq
<1>3. 1 \in 1..Len(Areas)
  BY LoaderAssumption, EmptySeq
<1>4. PICK g \in Files : g = CHOOSE h \in Files : TRUE
  BY LoaderAssumption
<1>5. NotLoading =
        [by |-> "LoadFileToMem", pc |-> "idle", f |-> g, known |-> FALSE, size |-> 0, done |-> 0,
         buf |-> <<>>, elf |-> <<>>, rpx |-> FALSE, area |-> 1, map |-> 0, placed |-> p, ret |-> 0]
  BY <1>1, <1>4 DEF NotLoading
<1>6. 0 \in 0..MaxSize /\ 0 \in -3..MaxSize /\ 0 \in Nat
  BY SdFatAssumption
<1>. QED  BY <1>2, <1>3, <1>5, <1>6 DEF Loader

LEMMA LoadStep ==
  ASSUME LoadInv, fault = "none",
         NEW by \in {"LoadFileToMem", "HBL_loadToMemory"}, NEW f \in Files, Load(by, f)
  PROVE  LoadInv'
<1>1. SdInv'
  BY EnterOpenStep DEF Load, LoadInv
<1>2. /\ ld' \in Loader /\ ld'.pc = "open" /\ ld'.by = by /\ ld'.f = f /\ ld'.done = 0
      /\ ~ld'.known /\ ld'.size = 0
  <2>1. NotLoading.done = 0 /\ ~NotLoading.known /\ NotLoading.size = 0
    BY DEF NotLoading
  <2>2. ld' = [NotLoading EXCEPT !.by = by, !.pc = "open", !.f = f]
    BY DEF Load
  <2>. QED  BY <2>1, <2>2, NotLoadingIs DEF Loader
<1>3. \/ ~call'.on /\ call'.ret = Error
      \/ call'.on /\ call'.op = "open" /\ call'.obj = f /\ call'.mode = "r"
  BY OpenBegins DEF Load, LoadInv
<1>4. StageInv'
  BY <1>2, <1>3 DEF StageInv
<1>5. WholeInv'
  BY <1>2, <1>3 DEF WholeInv, OK, Error
<1>. QED  BY <1>1, <1>2, <1>4, <1>5 DEF LoadInv, LoadedIsFile

LEMMA OpenFailedStep ==
  ASSUME LoadInv, OpenFailed
  PROVE  LoadInv'
<1>1. ld' \in Loader /\ ld'.pc = "done"
  <2>1. ld \in Loader /\ ld' = [ld EXCEPT !.pc = "done", !.ret = -1]
    BY DEF OpenFailed, LoadInv
  <2>. QED  BY <2>1, Sizes DEF Loader
<1>. QED  BY <1>1, IdleStep, EndedInv DEF OpenFailed, LoadInv

LEMMA SeekEndStep ==
  ASSUME LoadInv, fault = "none", SeekEnd
  PROVE  LoadInv'
<1>1. /\ ld.pc = "open" /\ ~call.on /\ call.ret = OK /\ Seek(ld.f, "END", 0)
      /\ ld' = [ld EXCEPT !.pc = "end"] /\ SdInv
  BY DEF SeekEnd, Answered, Step, LoadInv
<1>2. PICK t : t = Target(file[ld.f], "END", 0)
  OBVIOUS
<1>3. ld.f \in Files /\ "END" \in Whences /\ 0 \in Int
  BY Sizes DEF LoadInv, Whences
<1>4. SdInv'
  BY <1>1, <1>3, SeekStep
<1>5. /\ ld' \in Loader /\ ld'.pc = "end" /\ ld'.by = ld.by /\ ld'.f = ld.f /\ ld'.done = 0
      /\ ~ld'.known /\ ld'.size = 0
  <2>1. ld.done = 0 /\ ld \in Loader /\ ~ld.known /\ ld.size = 0
    BY <1>1 DEF LoadInv, StageInv
  <2>. QED  BY <1>1, <2>1 DEF Loader
<1>6. /\ content' = content /\ ~call'.on /\ t \in 0..MaxSize
      /\ fault' = "none" =>
           /\ IsOpen(ld.f)'
           /\ \/ call'.ret = t /\ t <= Len(content) /\ file'[ld.f].cpos = t
              \/ call'.ret = Error /\ file'[ld.f].cpos = file[ld.f].cpos
  <2>1. PICK f : f = ld.f
    OBVIOUS
  <2>2. /\ content' = content /\ ~call'.on /\ t \in 0..MaxSize
        /\ fault' = "none" =>
             /\ IsOpen(f)'
             /\ \/ call'.ret = t /\ t <= Len(content) /\ file'[f].cpos = t
                \/ call'.ret = Error /\ file'[f].cpos = file[f].cpos
    BY <1>1, <1>2, <1>3, <2>1, SeekAnswers
  <2>3. IsOpen(f)' <=> file'[ld.f] # NoFile
    BY <2>1 DEF IsOpen
  <2>. QED  BY <1>5, <2>1, <2>2, <2>3 DEF IsOpen
<1>7. StageInv'
  <2>1. fault' = "none" => call'.ret \in -1..MaxSize
    BY <1>6, SdFatAssumption DEF Error
  <2>. QED  BY <1>5, <1>6, <2>1 DEF StageInv
<1>8. WholeInv'
  <2>. SUFFICES ASSUME fault' = "none", call'.ret # Error
                PROVE  call'.ret = Len(content)' /\ IsOpen(ld.f)' /\ At(file[ld.f].cpos)'
    BY <1>5 DEF WholeInv
  <2>1. IsOpen(ld.f) /\ file[ld.f].len = Len(content)
    BY <1>1 DEF LoadInv, WholeInv
  <2>2. t = Len(content)
    <3>1. t = 0 + file[ld.f].len
      BY <1>2 DEF Target
    <3>. QED  BY <2>1, <3>1, ContentIs DEF LoadInv, SdInv
  <2>. QED  BY <1>5, <1>6, <2>2 DEF At, IsOpen
<1>. QED  BY <1>4, <1>5, <1>7, <1>8 DEF LoadInv, LoadedIsFile

LEMMA SeekStartStep ==
  ASSUME LoadInv, fault = "none", SeekStart
  PROVE  LoadInv'
<1>1. /\ ld.pc = "end" /\ ~call.on /\ Seek(ld.f, "SET", 0) /\ SdInv /\ ld \in Loader
      /\ ld.done = 0 /\ ~ld.known /\ ld.size = 0 /\ call.ret \in -1..MaxSize
  BY DEF SeekStart, Answered, LoadInv, StageInv
<1>2. PICK f \in Files : f = ld.f
  BY <1>1, Sizes
<1>3. "SET" \in Whences /\ 0 \in Int
  BY DEF Whences
<1>4. SdInv'
  BY <1>1, <1>2, <1>3, SeekStep
<1>5. /\ ld' \in Loader /\ ld'.pc = "start" /\ ld'.by = ld.by /\ ld'.f = f /\ ld'.done = 0
      /\ \/ call.ret = Error /\ ~ld'.known /\ ld'.size = 0
         \/ call.ret # Error /\ ld'.known /\ ld'.size = call.ret
  <2>1. CASE call.ret = Error
    <3>1. ld' = [ld EXCEPT !.pc = "start"]
      BY <2>1 DEF SeekStart
    <3>. QED  BY <1>1, <1>2, <2>1, <3>1 DEF Loader
  <2>2. CASE call.ret # Error
    <3>1. ld' = [ld EXCEPT !.pc = "start", !.known = TRUE, !.size = call.ret]
      BY <2>2 DEF SeekStart
    <3>2. call.ret \in 0..MaxSize
      BY <1>1, <2>2, SdFatAssumption DEF Error
    <3>. QED  BY <1>1, <1>2, <2>2, <3>1, <3>2 DEF Loader
  <2>. QED  BY <2>1, <2>2
<1>6. 0 = Target(file[f], "SET", 0)
  BY DEF Target
<1>7. /\ content' = content /\ ~call'.on
      /\ fault' = "none" =>
           /\ IsOpen(f)'
           /\ \/ call'.ret = 0 /\ 0 <= Len(content) /\ file'[f].cpos = 0
              \/ call'.ret = Error /\ file'[f].cpos = file[f].cpos
  BY <1>1, <1>2, <1>3, <1>6, SeekAnswers
<1>8. StageInv'
  BY <1>5, <1>7 DEF StageInv
<1>9. WholeInv'
  <2>. SUFFICES ASSUME fault' = "none"
                PROVE  /\ ld'.size = Len(Wanted)'
                       /\ ld'.known => IsOpen(ld.f)' /\ At(file[ld.f].cpos)'
                       /\ \A k \in 1..ld'.done : ld'.buf[k] = Wanted'[k]
    BY <1>5 DEF WholeInv
  <2>1. CASE call.ret = Error
    <3>1. Wanted' = <<>> /\ ~ld'.known /\ ld'.size = 0 /\ ld'.done = 0
      BY <1>5, <2>1 DEF Wanted
    <3>. QED  BY <3>1, EmptySeq
  <2>2. CASE call.ret # Error
    <3>1. call.ret = Len(content) /\ file[f].cpos \in {0, Len(content)}
      BY <1>1, <1>2, <2>2 DEF LoadInv, WholeInv, At
    <3>2. file'[f].cpos \in {0, Len(content)}
      BY <1>7, <3>1
    <3>3. Wanted' = content /\ ld'.size = call.ret /\ ld'.done = 0 /\ ld'.f = f
      BY <1>5, <1>7, <2>2 DEF Wanted
    <3>4. IsOpen(ld.f)' /\ At(file[ld.f].cpos)'
      BY <1>7, <3>2, <3>3 DEF At, IsOpen
    <3>. QED  BY <3>1, <3>3, <3>4
  <2>. QED  BY <2>1, <2>2
<1>. QED  BY <1>4, <1>5, <1>8, <1>9 DEF LoadInv, LoadedIsFile

LEMMA AllocateStep ==
  ASSUME LoadInv, fault = "none", Allocate
  PROVE  LoadInv'
<1>1. /\ ld.pc = "start" /\ ~call.on /\ DeviceIdle /\ SdInv /\ ld \in Loader /\ SdInv'
      /\ ld.done = 0 /\ ld.size \in Nat /\ MaxSize \in Nat
  BY IdleStep, Sizes DEF Allocate, Answered, LoadInv, StageInv
<1>2. ~call'.on /\ content' = content /\ file' = file
  BY <1>1 DEF DeviceIdle
<1>3. CASE ld.by = "LoadFileToMem" /\ ld' = [ld EXCEPT !.pc = "close", !.ret = -2]
  <2>1. ld' \in Loader /\ ld'.pc = "close" /\ ld'.ret = -2 /\ ld'.by = "LoadFileToMem"
    BY <1>1, <1>3, Sizes DEF Loader
  <2>. QED  BY <1>1, <1>2, <2>1, ClosingInv
<1>4. CASE ld' = [ld EXCEPT !.pc = "done", !.ret = -1]
  <2>1. ld' \in Loader /\ ld'.pc = "done"
    BY <1>1, <1>4, Sizes DEF Loader
  <2>. QED  BY <1>1, <2>1, EndedInv
<1>5. CASE Holdable /\ ld' = [ld EXCEPT !.pc = "read", !.buf = [i \in 1..ld.size |-> Garbage]]
  <2>1. PICK b : b = [i \in 1..ld.size |-> Garbage]
    OBVIOUS
  <2>2. b \in [1..ld.size -> Bytes]
    BY <1>1, <2>1, ContentIs DEF SdInv
  <2>3. b \in Seq(Bytes)
    BY <1>1, <2>2, SeqIs
  <2>4. /\ ld' \in Loader /\ ld'.pc = "read" /\ ld'.by = ld.by /\ ld'.f = ld.f
        /\ ld'.size = ld.size /\ ld'.done = 0 /\ ld'.buf = b /\ ld'.known = ld.known
    BY <1>1, <1>5, <2>1, <2>3 DEF Loader
  <2>5. StageInv'
    BY <1>1, <1>2, <2>2, <2>4 DEF StageInv, Buffered
  <2>6. WholeInv'
    <3>1. Wanted' = Wanted /\ Holdable'
      BY <1>2, <1>5, <2>4 DEF Wanted, Holdable
    <3>2. ld.size = Len(Wanted) /\ (ld.known => IsOpen(ld.f) /\ At(file[ld.f].cpos))
      BY <1>1 DEF LoadInv, WholeInv
    <3>. QED  BY <1>1, <1>2, <2>4, <3>1, <3>2 DEF WholeInv, IsOpen, At
  <2>. QED  BY <1>1, <2>4, <2>5, <2>6 DEF LoadInv, LoadedIsFile
<1>. QED  BY <1>3, <1>4, <1>5 DEF Allocate

LEMMA ReadBlockStep ==
  ASSUME LoadInv, fault = "none", ReadBlock
  PROVE  LoadInv'
<1>1. PICK n : n = Smaller(LoadBlock, ld.size - ld.done)
  OBVIOUS
<1>2. /\ ld.pc = "read" /\ ~call.on /\ ld.done < ld.size /\ Read(ld.f, n)
      /\ ld' = [ld EXCEPT !.pc = "size"] /\ SdInv /\ ld \in Loader
      /\ Buffered /\ ld.done <= ld.size
  BY <1>1 DEF ReadBlock, Answered, Step, LoadInv, StageInv
<1>3. PICK f \in Files : f = ld.f
  BY <1>2, Sizes
<1>4. n \in 0..Longest /\ n <= ld.size - ld.done
  <2>1. ld.size \in 0..MaxSize /\ ld.done \in 0..MaxSize
    BY <1>2, Sizes
  <2>2. PICK m : m = LoadBlock
    OBVIOUS
  <2>3. m \in Nat
    BY <2>2, SdFatAssumption DEF LoadBlock
  <2>4. MaxSize \in Nat /\ MaxLen \in Nat
    BY SdFatAssumption
  <2>5. n = IF m < ld.size - ld.done THEN m ELSE ld.size - ld.done
    BY <1>1, <2>2 DEF Smaller
  <2>. QED  BY <1>2, <2>1, <2>3, <2>4, <2>5 DEF Longest
<1>5. SdInv'
  <2>1. "read" \in Transfers /\ CanRead(file[f]) \in BOOLEAN
    BY DEF Transfers, CanRead
  <2>. QED  BY <1>2, <1>3, <1>4, <2>1, TransferStep DEF Read
<1>6. /\ ld' \in Loader /\ ld'.pc = "size" /\ ld'.by = ld.by /\ ld'.f = f
      /\ ld'.size = ld.size /\ ld'.done = ld.done /\ ld'.buf = ld.buf /\ ld'.known = ld.known
  BY <1>2, <1>3 DEF Loader
<1>7. /\ content' = content
      /\ fault' = "none" =>
           \/ ~call'.on /\ call'.ret = 0
           \/ /\ call'.on /\ call'.op = "read" /\ call'.obj = f /\ call'.len = n
              /\ call'.from = file[f].cpos
  BY <1>2, <1>3, <1>4, ReadBegins
<1>8. StageInv'
  BY <1>2, <1>4, <1>6, <1>7 DEF StageInv, Buffered
<1>9. WholeInv'
  <2>. SUFFICES ASSUME fault' = "none"
                PROVE  /\ ld'.size = Len(Wanted)' /\ ld'.known
                       /\ \A k \in 1..ld'.done : ld'.buf[k] = Wanted'[k]
                       /\ call'.on => call'.obj = f /\ At(call.from)'
                       /\ ~call'.on => ~(call'.ret > 0)
    BY <1>6 DEF WholeInv
  <2>1. ld.size = Len(Wanted) /\ \A k \in 1..ld.done : ld.buf[k] = Wanted[k]
    BY <1>2, <1>3 DEF LoadInv, WholeInv
  <2>2. ld.known
    <3>1. ld.size # 0
      BY <1>2, Sizes
    <3>2. Len(<<>>) = 0
      BY EmptySeq
    <3>. QED  BY <2>1, <3>1, <3>2 DEF Wanted
  <2>3. At(file[f].cpos)
    BY <1>2, <1>3, <2>2 DEF LoadInv, WholeInv
  <2>4. Wanted' = Wanted
    BY <1>6, <1>7 DEF Wanted
  <2>. QED  BY <1>6, <1>7, <2>1, <2>2, <2>3, <2>4 DEF At
<1>. QED  BY <1>5, <1>6, <1>8, <1>9 DEF LoadInv, LoadedIsFile

LEMMA TakenStep ==
  ASSUME LoadInv, fault = "none", Taken
  PROVE  LoadInv'
<1>1. PICK s, d, n, r, from, cb, b, f :
        /\ s = ld.size /\ d = ld.done /\ n = call.len /\ r = call.ret /\ from = call.from
        /\ cb = call.buf /\ f = ld.f
        /\ b = [i \in 1..ld.size |-> IF i - ld.done \in 1..call.len THEN call.buf[i - ld.done]
                                                                    ELSE ld.buf[i]]
  OBVIOUS
<1>2. /\ ld.pc = "size" /\ ~call.on /\ r > 0 /\ DeviceIdle /\ SdInv /\ ld \in Loader /\ SdInv'
      /\ ld' = [ld EXCEPT !.pc = "read", !.done = d + r, !.buf = b]
  BY <1>1, IdleStep DEF Taken, Answered, LoadInv
<1>3. /\ s \in 0..MaxSize /\ d \in Nat /\ n \in Nat /\ from \in Nat /\ MaxSize \in Nat /\ r \in Int
      /\ f \in Files /\ s \in Nat
  <2>1. call \in Call
    BY <1>2 DEF SdInv, Typed
  <2>2. call.len \in Nat /\ call.from \in Nat
    BY <2>1, CallLengths
  <2>3. call.ret \in Int
    BY <2>1, SdFatAssumption DEF Call
  <2>. QED  BY <1>1, <1>2, <2>2, <2>3, Sizes
<1>4. /\ call.op = "read" /\ n <= s - d /\ d <= s /\ ld.buf \in [1..s -> Bytes]
  BY <1>1, <1>2 DEF LoadInv, StageInv, Buffered
<1>5. /\ r \in 0..n /\ cb \in [1..n -> Bytes]
      /\ \A k \in 1..r : from + k <= Len(content) /\ cb[k] = content[from + k]
  BY <1>1, <1>2, <1>4 DEF SdInv, TransferInv, Transfers
<1>6. /\ b \in [1..s -> Bytes]
      /\ \A i \in 1..s : b[i] = IF i - d \in 1..n THEN cb[i - d] ELSE ld.buf[i]
  <2>1. b = [i \in 1..s |-> IF i - d \in 1..n THEN cb[i - d] ELSE ld.buf[i]]
    BY <1>1, Zenon
  <2>. QED  BY <1>3, <1>4, <1>5, <2>1
<1>7. d + r \in 0..s
  BY <1>3, <1>4, <1>5
<1>8. /\ ld' \in Loader /\ ld'.pc = "read" /\ ld'.by = ld.by /\ ld'.f = f /\ ld'.size = s
      /\ ld'.done = d + r /\ ld'.buf = b /\ ld'.known = ld.known
  <2>1. b \in Seq(Bytes)
    BY <1>3, <1>6, SeqIs
  <2>2. d + r \in 0..MaxSize
    BY <1>3, <1>7
  <2>. QED  BY <1>1, <1>2, <2>1, <2>2 DEF Loader
<1>9. ~call'.on /\ content' = content /\ file' = file /\ fault' = "none"
  BY <1>2 DEF DeviceIdle
<1>10. StageInv'
  BY <1>3, <1>6, <1>7, <1>8, <1>9 DEF StageInv, Buffered
<1>11. WholeInv'
  <2>0. ld.known /\ Wanted = content /\ Wanted' = content /\ Holdable'
    BY <1>2, <1>8, <1>9 DEF LoadInv, WholeInv, Wanted, Holdable
  <2>. SUFFICES /\ s = Len(content) /\ IsOpen(f) /\ file[f].cpos \in {d + r, Len(content)}
                /\ \A k \in 1..(d + r) : b[k] = content[k]
    BY <1>8, <1>9, <2>0 DEF WholeInv, IsOpen, At
  <2>1. /\ s = Len(content) /\ \A k \in 1..d : ld.buf[k] = content[k]
        /\ from \in {d, Len(content)} /\ IsOpen(f) /\ file[f].cpos = from + r
    BY <1>1, <1>2, <2>0 DEF LoadInv, WholeInv, At
  <2>2. from = d
    <3>1. PICK m : m = Len(content)
      OBVIOUS
    <3>2. m = s /\ 1 \in 1..r /\ from + 1 <= m
      BY <1>2, <1>3, <1>5, <2>1, <3>1
    <3>. QED  BY <1>3, <2>1, <3>1, <3>2
  <2>3. ASSUME NEW k \in 1..(d + r)
        PROVE  b[k] = content[k]
    <3>1. k \in 1..s
      BY <1>3, <1>7
    <3>2. CASE k <= d
      <4>1. k \in 1..d /\ k - d \notin 1..n
        BY <1>3, <3>2
      <4>. QED  BY <1>6, <2>1, <3>1, <4>1
    <3>3. CASE k > d
      <4>1. PICK e : e = k - d
        OBVIOUS
      <4>2. e \in 1..r /\ e \in 1..n /\ k = d + e
        BY <1>3, <1>5, <3>3, <4>1
      <4>3. b[k] = cb[e] /\ cb[e] = content[from + e]
        BY <1>5, <1>6, <3>1, <4>1, <4>2
      <4>. QED  BY <2>2, <4>2, <4>3
    <3>. QED  BY <1>3, <3>2, <3>3
  <2>. QED  BY <2>1, <2>2, <2>3
<1>. QED  BY <1>2, <1>8, <1>10, <1>11 DEF LoadInv, LoadedIsFile

LEMMA ReadStoppedStep ==
  ASSUME LoadInv, ReadStopped
  PROVE  LoadInv'
<1>1. /\ ~call.on /\ DeviceIdle /\ ld \in Loader /\ SdInv'
  BY IdleStep DEF ReadStopped, Answered, LoadInv
<1>2. ~call'.on
  BY <1>1 DEF DeviceIdle
<1>3. CASE ld.by = "LoadFileToMem" /\ ld' = [ld EXCEPT !.pc = "close", !.ret = -3]
  <2>1. ld' \in Loader /\ ld'.pc = "close" /\ ld'.ret = -3 /\ ld'.by = "LoadFileToMem"
    BY <1>1, <1>3, Sizes DEF Loader
  <2>. QED  BY <1>1, <1>2, <2>1, ClosingInv
<1>4. CASE ld' = [ld EXCEPT !.pc = "done", !.ret = -1]
  <2>1. ld' \in Loader /\ ld'.pc = "done"
    BY <1>1, <1>4, Sizes DEF Loader
  <2>. QED  BY <1>1, <2>1, EndedInv
<1>. QED  BY <1>3, <1>4 DEF ReadStopped

(* When the loop has ended, the buffer holds what there was to load.       *)
LEMMA AllReadHolds ==
  ASSUME LoadInv, fault = "none", ld.pc = "read", ld.done = ld.size
  PROVE  ld.buf = Wanted
<1>1. Buffered /\ ld.size = Len(Wanted) /\ \A k \in 1..ld.size : ld.buf[k] = Wanted[k]
  BY DEF LoadInv, StageInv, WholeInv
<1>2. Wanted \in Seq(Bytes)
  BY EmptySeq DEF LoadInv, SdInv, Typed, Wanted
<1>3. Wanted \in [1..ld.size -> Bytes]
  BY <1>1, <1>2
<1>. QED  BY <1>1, <1>3 DEF Buffered

LEMMA AllReadStep ==
  ASSUME LoadInv, fault = "none", AllRead
  PROVE  LoadInv'
<1>1. /\ ld.pc = "read" /\ ~call.on /\ DeviceIdle /\ ld \in Loader /\ SdInv /\ SdInv'
      /\ ld.done = ld.size /\ Buffered /\ ld.size \in 0..MaxSize /\ ld.size \in Nat
      /\ MaxSize \in Nat
  BY IdleStep, Sizes DEF AllRead, Answered, LoadInv, StageInv
<1>2. ~call'.on /\ content' = content
  BY <1>1 DEF DeviceIdle
<1>3. CASE ld.by = "LoadFileToMem" /\ ld' = [ld EXCEPT !.pc = "close", !.ret = ld.size]
  <2>1. ld' \in Loader /\ ld'.pc = "close" /\ ld'.buf = ld.buf /\ ld'.by = "LoadFileToMem"
    <3>1. ld.size \in -3..MaxSize
      BY <1>1
    <3>. QED  BY <1>1, <1>3, <3>1 DEF Loader
  <2>2. Holdable
    BY <1>1 DEF LoadInv, WholeInv
  <2>3. ld.buf = content
    BY <1>1, <1>3, <2>2, AllReadHolds DEF Holdable, Wanted
  <2>4. StageInv' /\ WholeInv' /\ LoadedIsFile'
    BY <1>2, <2>1, <2>3 DEF StageInv, WholeInv, LoadedIsFile
  <2>. QED  BY <1>1, <2>1, <2>4 DEF LoadInv
<1>4. CASE \/ ld' = [ld EXCEPT !.pc = "done", !.elf = ld.buf, !.ret = ld.size]
           \/ ld' = [ld EXCEPT !.pc = "done", !.ret = -1]
  <2>1. ld.size \in -3..MaxSize /\ -1 \in -3..MaxSize /\ ld.buf \in Seq(Bytes)
    BY <1>1, Sizes
  <2>2. ld' \in Loader /\ ld'.pc = "done"
    BY <1>1, <1>4, <2>1 DEF Loader
  <2>. QED  BY <1>1, <2>2, EndedInv
<1>5. CASE ld.by = "HBL_loadToMemory" /\ ld' = [ld EXCEPT !.pc = "copy", !.rpx = TRUE, !.done = 0]
  <2>1. /\ ld' \in Loader /\ ld'.pc = "copy" /\ ld'.by = "HBL_loadToMemory" /\ ld'.done = 0
        /\ ld'.size = ld.size /\ ld'.buf = ld.buf
    BY <1>1, <1>5, Sizes DEF Loader
  <2>2. StageInv' /\ WholeInv' /\ LoadedIsFile'
    BY <1>1, <1>2, <2>1 DEF StageInv, Buffered, WholeInv, LoadedIsFile
  <2>. QED  BY <1>1, <2>1, <2>2 DEF LoadInv
<1>. QED  BY <1>3, <1>4, <1>5 DEF AllRead

LEMMA CloseFileStep ==
  ASSUME LoadInv, CloseFile
  PROVE  LoadInv'
<1>1. ld \in Loader /\ ld' = [ld EXCEPT !.pc = "done"] /\ EnterFile("close", ld.f) /\ SdInv
  BY DEF CloseFile, Step, LoadInv
<1>2. ld' \in Loader /\ ld'.pc = "done"
  BY <1>1 DEF Loader
<1>3. SdInv'
  BY <1>1, Sizes, EnterFileStep DEF FileOps
<1>. QED  BY <1>2, <1>3, EndedInv

LEMMA PlacedIs ==
  ASSUME NEW l \in Loader, l.buf \in [1..l.size -> Bytes], l.done <= l.size,
         l.map <= Areas[l.area]
  PROVE  /\ Placed(l) \in Loader /\ Placed(l).pc = l.pc /\ Placed(l).by = l.by
         /\ Placed(l).buf = l.buf /\ Placed(l).size = l.size /\ Placed(l).done <= l.size
         /\ Placed(l).rpx = l.rpx /\ Placed(l).area = l.area
         /\ \E n \in Nat :
              /\ l.done + n <= l.size /\ l.map + n <= Areas[l.area]
              /\ Placed(l).map = l.map + n /\ Placed(l).done = l.done + n
              /\ Placed(l).placed =
                   [l.placed EXCEPT ![l.area] = @ \o SubSeq(l.buf, l.done + 1, l.done + n)]
<1>1. PICK n, s, d, m, a, x :
        /\ n = Smaller(l.size - l.done, Areas[l.area] - l.map) /\ s = l.size /\ d = l.done
        /\ m = l.map /\ a = l.area /\ x = Areas[l.area]
  OBVIOUS
<1>2. /\ s \in 0..MaxSize /\ d \in 0..MaxSize /\ m \in Nat /\ a \in 1..Len(Areas)
      /\ l.buf \in Seq(Bytes) /\ l.placed \in [1..Len(Areas) -> Seq(Bytes)]
  BY <1>1 DEF Loader
<1>3. x \in Nat /\ MaxSize \in Nat /\ s \in Nat /\ d \in Nat
  <2>1. Areas \in Seq(Nat) /\ MaxSize \in Nat
    BY LoaderAssumption, SdFatAssumption
  <2>. QED  BY <1>1, <1>2, <2>1
<1>4. n \in Nat /\ d + n <= s /\ m + n <= x
  <2>1. n = IF s - d < x - m THEN s - d ELSE x - m
    BY <1>1 DEF Smaller
  <2>2. d <= s /\ m <= x
    BY <1>1
  <2>. QED  BY <1>2, <1>3, <2>1, <2>2
<1>5. PICK q : q = l.placed[a] \o SubSeq(l.buf, d + 1, d + n)
  OBVIOUS
<1>6. q \in Seq(Bytes)
  <2>1. d + 1 \in Int /\ d + n \in Int
    BY <1>3, <1>4
  <2>2. \A i \in d + 1..d + n : l.buf[i] \in Bytes
    <3>1. \A i \in d + 1..d + n : i \in 1..s
      BY <1>3, <1>4
    <3>. QED  BY <1>1, <3>1
  <2>3. SubSeq(l.buf, d + 1, d + n) \in Seq(Bytes)
    BY <2>1, <2>2, SubSeqProperties
  <2>. QED  BY <1>2, <1>5, <2>3, ConcatProperties
<1>7. PICK p : p = [l.placed EXCEPT ![a] = q]
  OBVIOUS
<1>8. p \in [1..Len(Areas) -> Seq(Bytes)]
  BY <1>2, <1>6, <1>7
<1>9. Placed(l) = [l EXCEPT !.placed = p, !.map = m + n, !.done = d + n]
  BY <1>1, <1>5, <1>7, Zenon DEF Placed
<1>10. m + n \in Nat /\ d + n \in 0..MaxSize
  BY <1>2, <1>3, <1>4
<1>11. PICK w : w = Placed(l) /\ w = [l EXCEPT !.placed = p, !.map = m + n, !.done = d + n]
  BY <1>9
<1>12. /\ w \in Loader /\ w.pc = l.pc /\ w.by = l.by /\ w.buf = l.buf /\ w.size = l.size
       /\ w.rpx = l.rpx /\ w.area = l.area /\ w.map = m + n /\ w.done = d + n /\ w.placed = p
  BY <1>8, <1>10, <1>11 DEF Loader
<1>13. p = [l.placed EXCEPT ![l.area] = @ \o SubSeq(l.buf, l.done + 1, l.done + n)]
  BY <1>1, <1>5, <1>7, Zenon
<1>14. /\ n \in Nat /\ l.done + n <= l.size /\ l.map + n <= Areas[l.area]
       /\ w.map = l.map + n /\ w.done = l.done + n /\ w.done <= l.size
  BY <1>1, <1>4, <1>12
<1>. QED  BY <1>11, <1>12, <1>13, <1>14, Zenon

LEMMA NextAreaIs ==
  ASSUME NEW l \in Loader, l.area # Len(Areas)
  PROVE  /\ NextArea(l) \in Loader /\ NextArea(l).pc = l.pc /\ NextArea(l).by = l.by
         /\ NextArea(l).buf = l.buf /\ NextArea(l).size = l.size /\ NextArea(l).done = l.done
         /\ NextArea(l).map = 0 /\ NextArea(l).area = l.area + 1
         /\ NextArea(l).rpx = l.rpx /\ NextArea(l).placed = l.placed
<1>1. PICK a : a = l.area + 1
  OBVIOUS
<1>2. a \in 1..Len(Areas)
  <2>1. l.area \in 1..Len(Areas) /\ Len(Areas) \in Nat
    BY LoaderAssumption DEF Loader
  <2>. QED  BY <1>1, <2>1
<1>3. PICK m : m = NextArea(l) /\ m = [l EXCEPT !.area = a, !.map = 0]
  BY <1>1, Zenon DEF NextArea
<1>4. 0 \in Nat
  OBVIOUS
<1>5. /\ m \in Loader /\ m.pc = l.pc /\ m.by = l.by /\ m.buf = l.buf /\ m.size = l.size
      /\ m.done = l.done /\ m.map = 0 /\ m.area = a /\ m.rpx = l.rpx /\ m.placed = l.placed
  BY <1>2, <1>3, <1>4 DEF Loader
<1>. QED  BY <1>1, <1>3, <1>5, Zenon

LEMMA CopyBlockStep ==
  ASSUME LoadInv, CopyBlock
  PROVE  LoadInv'
<1>1. /\ ld.pc = "copy" /\ ~call.on /\ DeviceIdle /\ ld \in Loader /\ SdInv /\ SdInv'
      /\ ld.done <= ld.size /\ ld.buf \in [1..ld.size -> Bytes]
  BY IdleStep DEF CopyBlock, LoadInv, StageInv, Buffered
<1>2. ~call'.on
  BY <1>1 DEF DeviceIdle
<1>3. ASSUME NEW r \in -3..MaxSize, ld' = [ld EXCEPT !.pc = "done", !.ret = r]
      PROVE  LoadInv'
  <2>1. ld' \in Loader /\ ld'.pc = "done"
    BY <1>1, <1>3 DEF Loader
  <2>. QED  BY <1>1, <2>1, EndedInv
<1>4. ASSUME NEW l \in Loader, l.pc = "copy", l.buf = ld.buf, l.size = ld.size, l.done = ld.done,
             l.map <= Areas[l.area], ld' = Placed(l)
      PROVE  LoadInv'
  <2>1. /\ ld' \in Loader /\ ld'.pc = "copy" /\ ld'.buf = ld.buf /\ ld'.size = ld.size
        /\ ld'.done <= ld'.size
    BY <1>1, <1>4, PlacedIs
  <2>2. StageInv' /\ WholeInv' /\ LoadedIsFile'
    BY <1>1, <1>2, <2>1 DEF StageInv, Buffered, WholeInv, LoadedIsFile
  <2>. QED  BY <1>1, <2>1, <2>2 DEF LoadInv
<1>5. \A a \in 1..Len(Areas) : Areas[a] \in Nat
  BY LoaderAssumption
<1>6. CASE ld.done = ld.size \/ (ld.map >= Areas[ld.area] /\ ld.area = Len(Areas))
  <2>1. PICK r : ld' = [ld EXCEPT !.pc = "done", !.ret = r] /\ r \in {ld.size, -1}
    BY <1>6 DEF CopyBlock
  <2>2. r \in -3..MaxSize
    BY <1>1, <2>1, Sizes
  <2>. QED  BY <1>3, <2>1, <2>2
<1>7. CASE ld.done # ld.size /\ ld.map >= Areas[ld.area] /\ ld.area # Len(Areas)
  <2>1. ld' = Placed(NextArea(ld))
    BY <1>7 DEF CopyBlock
  <2>2. PICK l : l = NextArea(ld)
    OBVIOUS
  <2>3. /\ l \in Loader /\ l.pc = "copy" /\ l.buf = ld.buf /\ l.size = ld.size
        /\ l.done = ld.done /\ l.map = 0
    BY <1>1, <1>7, <2>2, NextAreaIs
  <2>4. Areas[l.area] \in Nat
    BY <1>5, <2>3 DEF Loader
  <2>5. l.map <= Areas[l.area]
    BY <2>3, <2>4
  <2>. QED  BY <1>4, <2>1, <2>2, <2>3, <2>5
<1>8. CASE ld.done # ld.size /\ ~(ld.map >= Areas[ld.area])
  <2>1. ld' = Placed(ld)
    BY <1>8 DEF CopyBlock
  <2>2. Areas[ld.area] \in Nat /\ ld.map \in Nat
    BY <1>1, <1>5 DEF Loader
  <2>3. ld.map <= Areas[ld.area]
    BY <1>8, <2>2
  <2>. QED  BY <1>1, <1>4, <2>1, <2>3
<1>. QED  BY <1>6, <1>7, <1>8

-----------------------------------------------------------------------------
(***************************************************************************)
(* The calls of a loader in the driver.                                    *)
(***************************************************************************)
LEMMA DriverOf ==
  ASSUME Driver
  PROVE  /\ call.on
         /\ call.op = "open" => OpenCall
         /\ call.op = "read" => Finished("read") \/ ReadFailed \/ ReadSome
BY DEF Driver, Running, Stat, Statvfs, Change, ChangeOps, OpenCall, Fstat, Fsync, Close, Ftruncate,
       Finished, ReadFailed, ReadSome, WriteFailed, WriteSome, DirOpen, DirNext, DirReset, DirClose

LEMMA ReadGoesOn ==
  ASSUME SdInv, Finished("read") \/ ReadFailed \/ ReadSome
  PROVE  /\ content' = content /\ call'.op = "read" /\ call'.len = call.len
         /\ call'.from = call.from
         /\ call'.on => call'.obj = call.obj
         /\ ~call'.on /\ call'.ret > 0 => file' = file /\ call'.ret = call.done
<1>1. call.on /\ call.op = "read" /\ call \in Call /\ call.op \in Transfers
  BY DEF Finished, ReadFailed, ReadSome, Running, SdInv, Typed, Transfers
<1>2. ASSUME NEW v \in {0, call.done}, Leave(v)
      PROVE  /\ content' = content /\ file' = file /\ ~call'.on /\ call'.op = "read"
             /\ call'.len = call.len /\ call'.from = call.from /\ call'.ret = v
  <2>1. call.done \in Answers /\ 0 \in Answers
    <3>1. call.done \in 0..Longest
      BY <1>1 DEF Call
    <3>. QED  BY <3>1, LongestIs, SdFatAssumption DEF Answers
  <2>2. content' = content /\ file' = file /\ call' = Returned(v)
    BY <1>2 DEF Leave
  <2>3. PICK c : c = Returned(v)
    OBVIOUS
  <2>4. /\ c.on = FALSE /\ c.op = "read" /\ c.len = call.len /\ c.from = call.from /\ c.ret = v
    <3>1. c = [call EXCEPT !.on = FALSE, !.dev = NoDev, !.ret = v]
      BY <1>1, <2>3 DEF Returned
    <3>. QED  BY <1>1, <3>1 DEF Call
  <2>. QED  BY <2>2, <2>3, <2>4
<1>3. CASE Leave(call.done) \/ Leave(0)
  <2>1. ~(0 > 0)
    OBVIOUS
  <2>. QED  BY <1>2, <1>3, <2>1
<1>4. ASSUME NEW r, call' = [call EXCEPT !.done = @ + r, !.buf = Delivered(r)], content' = content
      PROVE  /\ content' = content /\ call'.on /\ call'.op = "read" /\ call'.len = call.len
             /\ call'.from = call.from /\ call'.obj = call.obj
  <2>1. PICK d, b : d = call.done + r /\ b = Delivered(r)
    OBVIOUS
  <2>2. call' = [call EXCEPT !.done = d, !.buf = b]
    BY <1>4, <2>1, Zenon
  <2>. QED  BY <1>1, <1>4, <2>2 DEF Call
<1>5. CASE ReadSome
  <2>1. \/ Leave(call.done)
        \/ \E r : call' = [call EXCEPT !.done = @ + r, !.buf = Delivered(r)] /\ content' = content
    BY <1>5 DEF ReadSome
  <2>. QED  BY <1>3, <1>4, <2>1
<1>. QED  BY <1>3, <1>5 DEF Finished, ReadFailed

LEMMA CardStep ==
  ASSUME LoadInv, fault = "none", Driver, ld' = ld
  PROVE  LoadInv'
<1>1. /\ SdInv /\ SdInv' /\ call.on /\ ld \in Loader
      /\ ld.pc \in {"idle", "open", "size", "done"}
  BY DriverStep, DriverOf DEF LoadInv, StageInv, Loader
<1>2. LoadedIsFile' /\ ld' \in Loader
  BY <1>1 DEF LoadedIsFile
<1>3. CASE ld.pc \in {"idle", "done"}
  BY <1>1, <1>3, EndedInv
<1>4. CASE ld.pc = "open"
  <2>1. call.op = "open" /\ OpenCall /\ ld.done = 0 /\ ~ld.known /\ ld.size = 0
    BY <1>1, <1>4, DriverOf DEF LoadInv, StageInv
  <2>2. StageInv'
    <3>1. fault' = "none" => ~call'.on
      <4>1. CASE Leave(Error)
        BY <4>1, AnswersAre, ReturnedIs, <1>1 DEF Leave, SdInv, Typed
      <4>2. CASE Crash("null deref")
        BY <4>2 DEF Crash
      <4>3. ASSUME NEW v \in {OK, Error}, call' = Returned(v)
            PROVE  ~call'.on
        BY <1>1, <4>3, AnswersAre, ReturnedIs DEF SdInv, Typed
      <4>. QED  BY <2>1, <4>1, <4>2, <4>3 DEF OpenCall
    <3>. QED  BY <1>4, <2>1, <3>1 DEF StageInv
  <2>3. WholeInv'
    <3>. SUFFICES ASSUME fault' = "none"
                  PROVE  /\ ~call'.on
                         /\ call'.ret = OK =>
                              file'[ld.f] # NoFile /\ file'[ld.f].len = Len(content')
      BY <1>4 DEF WholeInv, IsOpen
    <3>1. PICK f : f = ld.f
      OBVIOUS
    <3>2. f = call.obj /\ call.mode = "r"
      BY <1>1, <1>4, <3>1 DEF LoadInv, WholeInv
    <3>3. /\ content' = content /\ ~call'.on
          /\ call'.ret = OK => IsOpen(f)' /\ file'[f].len = Len(content)
      BY <1>1, <2>1, <3>2, OpenEnds
    <3>. QED  BY <3>1, <3>3 DEF IsOpen
  <2>. QED  BY <1>1, <1>2, <2>2, <2>3 DEF LoadInv
<1>5. CASE ld.pc = "size"
  <2>1. call.op = "read" /\ call.len <= ld.size - ld.done /\ Buffered /\ ld.done <= ld.size
    BY <1>1, <1>5 DEF LoadInv, StageInv
  <2>2. /\ content' = content /\ call'.op = "read" /\ call'.len = call.len
        /\ call'.from = call.from
        /\ call'.on => call'.obj = call.obj
        /\ ~call'.on /\ call'.ret > 0 => file' = file /\ call'.ret = call.done
    BY <1>1, <2>1, DriverOf, ReadGoesOn
  <2>3. StageInv'
    BY <1>5, <2>1, <2>2 DEF StageInv, Buffered
  <2>4. WholeInv'
    <3>0. Wanted' = Wanted
      BY <1>1, <2>2 DEF Wanted
    <3>. SUFFICES ASSUME fault' = "none"
                  PROVE  /\ ld.size = Len(Wanted) /\ ld.known
                         /\ \A k \in 1..ld.done : ld.buf[k] = Wanted[k]
                         /\ call'.on => call'.obj = ld.f
                         /\ call.from \in {ld.done, Len(content)}
                         /\ ~call'.on /\ call'.ret > 0 =>
                              file'[ld.f] # NoFile /\ file'[ld.f].cpos = call.from + call'.ret
      BY <1>5, <2>2, <3>0 DEF WholeInv, At, IsOpen
    <3>1. /\ ld.size = Len(Wanted) /\ ld.known /\ \A k \in 1..ld.done : ld.buf[k] = Wanted[k]
          /\ call.obj = ld.f /\ call.from \in {ld.done, Len(content)}
      BY <1>1, <1>5 DEF LoadInv, WholeInv, At
    <3>2. IsOpen(ld.f) /\ file[ld.f].cpos = call.from + call.done
      BY <1>1, <2>1, <3>1, TransferIs DEF Transfers
    <3>. QED  BY <2>2, <3>1, <3>2 DEF IsOpen
  <2>. QED  BY <1>1, <1>2, <2>3, <2>4 DEF LoadInv
<1>. QED  BY <1>1, <1>3, <1>4, <1>5

-----------------------------------------------------------------------------
(***************************************************************************)
(* The pieces HomebrewCopyMemory() cuts.                                   *)
(***************************************************************************)
LEMMA SubSeqJoin ==
  ASSUME NEW s, NEW p \in Nat, NEW m \in Nat, NEW n \in Nat, p <= m, m <= n,
         \A i \in p + 1..n : s[i] \in Bytes
  PROVE  SubSeq(s, p + 1, m) \o SubSeq(s, m + 1, n) = SubSeq(s, p + 1, n)
<1>1. ASSUME NEW u \in Nat, NEW v \in Nat, p <= u, u <= v, v <= n
      PROVE  /\ SubSeq(s, u + 1, v) \in Seq(Bytes) /\ Len(SubSeq(s, u + 1, v)) = v - u
             /\ \A i \in 1..(v - u) : SubSeq(s, u + 1, v)[i] = s[u + i]
  <2>1. PICK w : w = u + 1
    OBVIOUS
  <2>2. /\ w \in Int /\ v \in Int /\ v - w + 1 = v - u /\ (w <= v \/ v - u = 0)
        /\ (IF w <= v THEN v - w + 1 ELSE 0) = v - u
        /\ \A i \in 1..(v - u) : w + i - 1 = u + i
        /\ \A i \in w..v : i \in p + 1..n
    BY <1>1, <2>1
  <2>3. \A i \in w..v : s[i] \in Bytes
    BY <2>2
  <2>4. /\ SubSeq(s, w, v) \in Seq(Bytes)
        /\ Len(SubSeq(s, w, v)) = IF w <= v THEN v - w + 1 ELSE 0
        /\ \A i \in 1..v - w + 1 : SubSeq(s, w, v)[i] = s[w + i - 1]
    BY <2>2, <2>3, SubSeqProperties
  <2>. QED  BY <2>1, <2>2, <2>4
<1>2. PICK x, y, z : /\ x = SubSeq(s, p + 1, m) /\ y = SubSeq(s, m + 1, n)
                     /\ z = SubSeq(s, p + 1, n)
  OBVIOUS
<1>3. /\ x \in Seq(Bytes) /\ Len(x) = m - p /\ \A i \in 1..(m - p) : x[i] = s[p + i]
      /\ y \in Seq(Bytes) /\ Len(y) = n - m /\ \A i \in 1..(n - m) : y[i] = s[m + i]
      /\ z \in Seq(Bytes) /\ Len(z) = n - p /\ \A i \in 1..(n - p) : z[i] = s[p + i]
  <2>1. p <= p /\ p <= n /\ n <= n
    OBVIOUS
  <2>2. x \in Seq(Bytes) /\ Len(x) = m - p /\ \A i \in 1..(m - p) : x[i] = s[p + i]
    BY <1>1, <1>2, <2>1, Zenon
  <2>3. y \in Seq(Bytes) /\ Len(y) = n - m /\ \A i \in 1..(n - m) : y[i] = s[m + i]
    BY <1>1, <1>2, <2>1, Zenon
  <2>4. z \in Seq(Bytes) /\ Len(z) = n - p /\ \A i \in 1..(n - p) : z[i] = s[p + i]
    BY <1>1, <1>2, <2>1, Zenon
  <2>. QED  BY <2>2, <2>3, <2>4
<1>4. PICK c : c = x \o y
  OBVIOUS
<1>5. /\ c \in Seq(Bytes) /\ Len(c) = n - p
      /\ \A i \in 1..(n - p) : c[i] = IF i <= m - p THEN x[i] ELSE y[i - (m - p)]
  <2>1. /\ c \in Seq(Bytes) /\ Len(c) = (m - p) + (n - m)
        /\ \A i \in 1..(m - p) + (n - m) : c[i] = IF i <= m - p THEN x[i] ELSE y[i - (m - p)]
    <3>1. x \in Seq(Bytes) /\ y \in Seq(Bytes) /\ Len(x) = m - p /\ Len(y) = n - m
      BY <1>3
    <3>2. /\ c \in Seq(Bytes) /\ Len(c) = Len(x) + Len(y)
          /\ \A i \in 1..Len(x) + Len(y) : c[i] = IF i <= Len(x) THEN x[i] ELSE y[i - Len(x)]
      BY <1>4, <3>1, ConcatProperties
    <3>. QED  BY <3>1, <3>2
  <2>2. (m - p) + (n - m) = n - p
    OBVIOUS
  <2>. QED  BY <2>1, <2>2
<1>6. ASSUME NEW i \in 1..(n - p)
      PROVE  c[i] = z[i]
  <2>1. CASE i <= m - p
    BY <1>3, <1>5, <2>1
  <2>2. CASE i > m - p
    <3>1. PICK e : e = i - (m - p)
      OBVIOUS
    <3>2. e \in 1..(n - m) /\ m + e = p + i
      BY <2>2, <3>1
    <3>. QED  BY <1>3, <1>5, <2>2, <3>1, <3>2
  <2>. QED  BY <2>1, <2>2
<1>7. c = z
  BY <1>3, <1>5, <1>6, SeqEqual
<1>. QED  BY <1>2, <1>4, <1>7

LEMMA AreasAre ==
  /\ Len(Areas) \in Nat /\ Len(Areas) >= 1 /\ Ends \in Nat
  /\ \A a \in 1..Len(Areas) : Areas[a] \in Nat
<1>1. Len(Areas) \in Nat /\ Len(Areas) # 0
  BY LoaderAssumption, EmptySeq
<1>. QED  BY <1>1, LoaderAssumption DEF Ends

(* The cut stays as it is when the copying goes on to the next area.       *)
LEMMA NextCut ==
  ASSUME NEW l \in Loader, NEW cut, CutOf(l, cut), l.map >= Areas[l.area], l.area # Len(Areas)
  PROVE  CutOf(NextArea(l), cut)
<1>1. PICK m, a, n : m = NextArea(l) /\ a = l.area /\ n = Len(Areas)
  OBVIOUS
<1>2. /\ m \in Loader /\ m.buf = l.buf /\ m.size = l.size /\ m.done = l.done /\ m.map = 0
      /\ m.area = a + 1 /\ m.placed = l.placed
  BY <1>1, NextAreaIs
<1>3. n \in Nat /\ a \in 1..n /\ a # n /\ Areas[a] \in Nat /\ Areas[a + 1] \in Nat /\ l.map \in Nat
  <2>1. n \in Nat /\ a \in 1..n /\ a # n /\ l.map \in Nat
    BY <1>1, AreasAre DEF Loader
  <2>2. a + 1 \in 1..n
    BY <2>1
  <2>. QED  BY <1>1, <2>1, <2>2, AreasAre
<1>4. /\ cut \in [1..Ends -> 0..m.size] /\ cut[1] = 0
      /\ \A x \in 1..n : m.placed[x] = SubSeq(m.buf, cut[x] + 1, cut[x + 1])
  BY <1>1, <1>2 DEF CutOf
<1>5. cut[a + 1] = cut[a] + Areas[a] /\ \A x \in 1..(a - 1) : cut[x + 1] = cut[x] + Areas[x]
  <2>1. l.map = Areas[a]
    BY <1>1, <1>3 DEF CutOf
  <2>. QED  BY <1>1, <2>1 DEF CutOf
<1>6. \A x \in 1..((a + 1) - 1) : cut[x + 1] = cut[x] + Areas[x]
  <2>1. \A x \in 1..((a + 1) - 1) : x = a \/ x \in 1..(a - 1)
    BY <1>3
  <2>. QED  BY <1>5, <2>1
<1>7. \A x \in (a + 1)..Ends : cut[x] = l.done
  BY <1>1 DEF CutOf
<1>8. /\ cut[(a + 1) + 1] = cut[a + 1] + 0
      /\ \A x \in ((a + 1) + 1)..Ends : cut[x] = l.done
  <2>1. /\ a + 1 \in (a + 1)..Ends /\ (a + 1) + 1 \in (a + 1)..Ends
        /\ \A x \in ((a + 1) + 1)..Ends : x \in (a + 1)..Ends
    BY <1>1, <1>3 DEF Ends
  <2>2. cut[a + 1] \in 0..l.size /\ l.size \in Nat
    <3>1. a + 1 \in 1..Ends
      BY <1>1, <1>3 DEF Ends
    <3>. QED  BY <3>1, SdFatAssumption DEF CutOf, Loader
  <2>. QED  BY <1>7, <2>1, <2>2
<1>9. m.map <= Areas[m.area]
  <2>1. Areas[m.area] \in Nat
    BY <1>2, <1>3
  <2>. QED  BY <1>2, <2>1
<1>10. CutOf(m, cut)
  BY <1>1, <1>2, <1>4, <1>6, <1>8, <1>9 DEF CutOf
<1>. QED  BY <1>1, <1>10

(* The piece of the area grows by what is copied into it.                  *)
LEMMA PlacedCut ==
  ASSUME NEW l \in Loader, NEW cut, CutOf(l, cut), l.buf \in [1..l.size -> Bytes],
         l.done <= l.size
  PROVE  \E c : CutOf(Placed(l), c)
<1>1. PICK w, s, d, a, e :
        w = Placed(l) /\ s = l.size /\ d = l.done /\ a = l.area /\ e = Len(Areas)
  OBVIOUS
<1>2. /\ w \in Loader /\ w.buf = l.buf /\ w.size = s /\ w.area = a
      /\ \E n \in Nat :
           /\ d + n <= s /\ l.map + n <= Areas[a] /\ w.map = l.map + n /\ w.done = d + n
           /\ w.placed = [l.placed EXCEPT ![a] = @ \o SubSeq(l.buf, d + 1, d + n)]
  <2>1. l.map <= Areas[l.area]
    BY DEF CutOf
  <2>. QED  BY <1>1, <2>1, PlacedIs
<1>3. PICK n \in Nat :
        /\ d + n <= s /\ l.map + n <= Areas[a] /\ w.map = l.map + n /\ w.done = d + n
        /\ w.placed = [l.placed EXCEPT ![a] = @ \o SubSeq(l.buf, d + 1, d + n)]
  BY <1>2
<1>4. /\ s \in Nat /\ d \in Nat /\ e \in Nat /\ a \in 1..e /\ l.map \in Nat /\ Ends = e + 1
      /\ l.placed \in [1..e -> Seq(Bytes)]
  BY <1>1, AreasAre, SdFatAssumption DEF Loader, Ends
<1>5. /\ cut \in [1..(e + 1) -> 0..s] /\ cut[1] = 0
      /\ \A x \in 1..e : l.placed[x] = SubSeq(l.buf, cut[x] + 1, cut[x + 1])
      /\ \A x \in 1..(a - 1) : cut[x + 1] = cut[x] + Areas[x]
      /\ cut[a + 1] = cut[a] + l.map
      /\ \A x \in (a + 1)..(e + 1) : cut[x] = d
  BY <1>1, <1>4 DEF CutOf
<1>6. PICK c : c = [x \in 1..(e + 1) |-> IF x <= a THEN cut[x] ELSE d + n]
  OBVIOUS
<1>7. /\ c \in [1..(e + 1) -> 0..s]
      /\ \A x \in 1..a : c[x] = cut[x]
      /\ \A x \in (a + 1)..(e + 1) : c[x] = d + n
  <2>1. d + n \in 0..s
    BY <1>3, <1>4
  <2>2. /\ \A x \in 1..a : x \in 1..(e + 1) /\ x <= a
        /\ \A x \in (a + 1)..(e + 1) : x \in 1..(e + 1) /\ ~(x <= a)
    BY <1>4
  <2>. QED  BY <1>5, <1>6, <2>1, <2>2
<1>8. c[1] = 0
  BY <1>4, <1>5, <1>7
<1>9. cut[a + 1] = d /\ c[a + 1] = d + n /\ c[a] = cut[a] /\ cut[a] \in 0..s
  <2>1. a + 1 \in (a + 1)..(e + 1) /\ a \in 1..a /\ a \in 1..(e + 1)
    BY <1>4
  <2>. QED  BY <1>5, <1>7, <2>1
<1>10. c[a + 1] = c[a] + (l.map + n)
  <2>1. PICK k, m : k = cut[a] /\ m = l.map
    OBVIOUS
  <2>2. k \in Nat /\ m \in Nat /\ d = k + m
    BY <1>4, <1>5, <1>9, <2>1
  <2>3. d + n = k + (m + n)
    BY <2>2
  <2>. QED  BY <1>9, <2>1, <2>3
<1>11. \A x \in 1..(a - 1) : c[x + 1] = c[x] + Areas[x]
  <2>1. \A x \in 1..(a - 1) : x \in 1..a /\ x + 1 \in 1..a
    BY <1>4
  <2>. QED  BY <1>5, <1>7, <2>1
<1>12. ASSUME NEW x \in 1..e
       PROVE  w.placed[x] = SubSeq(l.buf, c[x] + 1, c[x + 1])
  <2>1. CASE x < a
    <3>1. x \in 1..a /\ x + 1 \in 1..a /\ x # a
      BY <1>4, <2>1
    <3>2. w.placed[x] = l.placed[x]
      BY <1>3, <1>4, <3>1
    <3>. QED  BY <1>5, <1>7, <3>1, <3>2
  <2>2. CASE x = a
    <3>1. w.placed[a] = l.placed[a] \o SubSeq(l.buf, d + 1, d + n)
      BY <1>3, <1>4
    <3>2. l.placed[a] = SubSeq(l.buf, cut[a] + 1, d)
      BY <1>4, <1>5, <1>9
    <3>3. SubSeq(l.buf, cut[a] + 1, d) \o SubSeq(l.buf, d + 1, d + n)
            = SubSeq(l.buf, cut[a] + 1, d + n)
      <4>1. PICK p, q : p = cut[a] /\ q = d + n
        OBVIOUS
      <4>2. p \in Nat /\ q \in Nat /\ p <= d /\ d <= q
        <5>1. PICK k : k = l.map
          OBVIOUS
        <5>2. p \in Nat /\ k \in Nat /\ d = p + k /\ n \in Nat
          BY <1>3, <1>4, <1>5, <1>9, <4>1, <5>1
        <5>. QED  BY <4>1, <5>2
      <4>3. \A i \in p + 1..q : l.buf[i] \in Bytes
        <5>1. \A i \in p + 1..q : i \in 1..s
          BY <1>3, <1>4, <4>1, <4>2
        <5>. QED  BY <1>1, <5>1
      <4>4. SubSeq(l.buf, p + 1, d) \o SubSeq(l.buf, d + 1, q) = SubSeq(l.buf, p + 1, q)
        <5>1. d \in Nat
          BY <1>4
        <5>. QED  BY <4>2, <4>3, <5>1, SubSeqJoin, Zenon
      <4>. QED  BY <4>1, <4>4
    <3>. QED  BY <1>9, <2>2, <3>1, <3>2, <3>3
  <2>3. CASE x > a
    <3>1. x \in (a + 1)..(e + 1) /\ x + 1 \in (a + 1)..(e + 1) /\ x # a
      BY <1>4, <2>3
    <3>2. w.placed[x] = l.placed[x]
      BY <1>3, <1>4, <3>1
    <3>3. l.placed[x] = SubSeq(l.buf, d + 1, d)
      BY <1>5, <3>1
    <3>4. \A k \in Nat : SubSeq(l.buf, k + 1, k) = <<>>
      <4>1. ASSUME NEW k \in Nat
            PROVE  SubSeq(l.buf, k + 1, k) = <<>>
        <5>1. k + 1 \in Int /\ k \in Int /\ k < k + 1
          OBVIOUS
        <5>. QED  BY <5>1, SubSeqEmpty
      <4>. QED  BY <4>1
    <3>5. d + n \in Nat
      BY <1>4
    <3>6. c[x] = d + n /\ c[x + 1] = d + n
      BY <1>7, <3>1
    <3>. QED  BY <1>4, <3>2, <3>3, <3>4, <3>5, <3>6
  <2>. QED  BY <1>4, <2>1, <2>2, <2>3
<1>13. w.map <= Areas[w.area]
  BY <1>2, <1>3
<1>14. CutOf(w, c)
  BY <1>1, <1>2, <1>3, <1>4, <1>7, <1>8, <1>10, <1>11, <1>12, <1>13 DEF CutOf
<1>. QED  BY <1>1, <1>14

(* Outside the copying nothing of the areas changes.                       *)
LEMMA SameCopy ==
  ASSUME CopyInv, ~ld.rpx, ld'.rpx = ld.rpx, ld'.area = ld.area, ld'.map = ld.map,
         ld'.placed = ld.placed, ld'.pc # "copy"
  PROVE  CopyInv'
BY DEF CopyInv, Untouched

LEMMA CopyBegins ==
  ASSUME LoadInv, CopyInv, ld.pc = "read",
         ld' = [ld EXCEPT !.pc = "copy", !.rpx = TRUE, !.done = 0]
  PROVE  CopyInv'
<1>1. ld \in Loader /\ Buffered /\ Untouched /\ ld.size \in Nat
  BY Sizes DEF LoadInv, StageInv, CopyInv
<1>2. /\ ld'.pc = "copy" /\ ld'.rpx = TRUE /\ ld'.done = 0 /\ ld'.size = ld.size /\ ld'.buf = ld.buf
      /\ ld'.area = 1 /\ ld'.map = 0 /\ ld'.placed = [a \in 1..Len(Areas) |-> <<>>]
  <2>1. /\ ld'.pc = "copy" /\ ld'.rpx = TRUE /\ ld'.done = 0 /\ ld'.size = ld.size
        /\ ld'.buf = ld.buf /\ ld'.area = ld.area /\ ld'.map = ld.map /\ ld'.placed = ld.placed
    BY <1>1 DEF Loader
  <2>. QED  BY <1>1, <2>1 DEF Untouched
<1>3. PICK c : c = [a \in 1..Ends |-> 0]
  OBVIOUS
<1>4. \A a \in 1..Ends : c[a] = 0
  BY <1>3
<1>5. c \in [1..Ends -> 0..ld'.size] /\ c[1] = 0
  <2>1. 0 \in 0..ld.size /\ 1 \in 1..Ends
    BY <1>1, AreasAre DEF Ends
  <2>. QED  BY <1>2, <1>3, <2>1
<1>6. ASSUME NEW a \in 1..Len(Areas)
      PROVE  ld'.placed[a] = SubSeq(ld'.buf, c[a] + 1, c[a + 1])
  <2>1. a \in 1..Ends /\ a + 1 \in 1..Ends
    BY AreasAre DEF Ends
  <2>2. SubSeq(ld'.buf, 0 + 1, 0) = <<>>
    BY SubSeqEmpty
  <2>3. ld'.placed[a] = <<>>
    BY <1>2
  <2>4. c[a] = 0 /\ c[a + 1] = 0
    BY <1>4, <2>1
  <2>. QED  BY <2>2, <2>3, <2>4, Zenon
<1>7. 1 + 1 \in 1..Ends /\ 1 \in 1..Ends /\ Areas[1] \in Nat
  BY AreasAre DEF Ends
<1>8. CutOf(ld', c)
  <2>1. \A a \in 1..(ld'.area - 1) : c[a + 1] = c[a] + Areas[a]
    BY <1>2
  <2>2. c[ld'.area + 1] = c[ld'.area] + ld'.map /\ ld'.map <= Areas[ld'.area]
    BY <1>2, <1>4, <1>7
  <2>3. \A a \in (ld'.area + 1)..Ends : c[a] = ld'.done
    BY <1>2, <1>4, AreasAre
  <2>. QED  BY <1>5, <1>6, <2>1, <2>2, <2>3 DEF CutOf
<1>9. Buffered' /\ ld'.done <= ld'.size
  BY <1>1, <1>2 DEF Buffered
<1>. QED  BY <1>2, <1>8, <1>9 DEF CopyInv

LEMMA CopyGoesOn ==
  ASSUME LoadInv, CopyInv, CopyBlock
  PROVE  CopyInv'
<1>1. /\ ld.pc = "copy" /\ ld \in Loader /\ ld.rpx = TRUE /\ Buffered /\ ld.done <= ld.size
      /\ ld.size \in Nat
  BY Sizes DEF CopyBlock, LoadInv, CopyInv, Loader
<1>2. PICK cut : CutOf(ld, cut)
  BY <1>1 DEF CopyInv
<1>3. /\ ld.map \in Nat /\ Areas[ld.area] \in Nat /\ ld.map <= Areas[ld.area]
      /\ ld.buf \in [1..ld.size -> Bytes]
  BY <1>1, <1>2, AreasAre DEF Loader, CutOf, Buffered
<1>4. ASSUME NEW r \in Int, ld' = [ld EXCEPT !.pc = "done", !.ret = r],
             r >= 0 => ld.done = ld.size,
             r < 0 => ld.done # ld.size /\ ld.area = Len(Areas) /\ ld.map = Areas[ld.area]
      PROVE  CopyInv'
  <2>1. /\ ld'.pc = "done" /\ ld'.ret = r /\ ld'.rpx = TRUE /\ ld'.size = ld.size
        /\ ld'.done = ld.done /\ ld'.buf = ld.buf /\ ld'.area = ld.area /\ ld'.map = ld.map
        /\ ld'.placed = ld.placed
    BY <1>1, <1>4 DEF Loader
  <2>2. CutOf(ld', cut)
    BY <1>2, <2>1 DEF CutOf
  <2>. QED  BY <1>1, <1>4, <2>1, <2>2 DEF CopyInv, Buffered
<1>5. ASSUME NEW l \in Loader, l.pc = "copy", l.rpx = TRUE, l.buf = ld.buf, l.size = ld.size,
             l.done = ld.done, CutOf(l, cut), ld' = Placed(l)
      PROVE  CopyInv'
  <2>1. l.map <= Areas[l.area] /\ l.done <= l.size /\ l.buf \in [1..l.size -> Bytes]
    BY <1>1, <1>3, <1>5 DEF CutOf
  <2>2. /\ ld'.pc = "copy" /\ ld'.rpx = TRUE /\ ld'.buf = ld.buf /\ ld'.size = ld.size
        /\ ld'.done <= ld.size
    BY <1>5, <2>1, PlacedIs
  <2>3. \E c : CutOf(ld', c)
    BY <1>5, <2>1, PlacedCut
  <2>. QED  BY <1>1, <2>2, <2>3 DEF CopyInv, Buffered
<1>6. CASE ld.done = ld.size
  <2>1. ld' = [ld EXCEPT !.pc = "done", !.ret = ld.size]
    BY <1>6 DEF CopyBlock
  <2>2. PICK r : r = ld.size
    OBVIOUS
  <2>3. r \in Int /\ ~(r < 0)
    BY <1>1, <2>2
  <2>. QED  BY <1>4, <1>6, <2>1, <2>2, <2>3
<1>7. CASE ld.done # ld.size /\ ld.map >= Areas[ld.area] /\ ld.area = Len(Areas)
  <2>1. ld' = [ld EXCEPT !.pc = "done", !.ret = -1]
    BY <1>7 DEF CopyBlock
  <2>2. ld.map = Areas[ld.area] /\ -1 \in Int /\ ~(-1 >= 0)
    BY <1>3, <1>7
  <2>. QED  BY <1>4, <1>7, <2>1, <2>2
<1>8. CASE ld.done # ld.size /\ ld.map >= Areas[ld.area] /\ ld.area # Len(Areas)
  <2>1. PICK l : l = NextArea(ld)
    OBVIOUS
  <2>2. ld' = Placed(l)
    BY <1>8, <2>1 DEF CopyBlock
  <2>3. /\ l \in Loader /\ l.pc = "copy" /\ l.rpx = TRUE /\ l.buf = ld.buf /\ l.size = ld.size
        /\ l.done = ld.done
    BY <1>1, <1>8, <2>1, NextAreaIs
  <2>4. CutOf(l, cut)
    BY <1>1, <1>2, <1>8, <2>1, NextCut
  <2>. QED  BY <1>5, <2>2, <2>3, <2>4
<1>9. CASE ld.done # ld.size /\ ~(ld.map >= Areas[ld.area])
  <2>1. ld' = Placed(ld)
    BY <1>9 DEF CopyBlock
  <2>. QED  BY <1>1, <1>2, <1>5, <2>1
<1>. QED  BY <1>6, <1>7, <1>8, <1>9

LEMMA CopyHolds ==
  ASSUME ld \in Loader, CopyInv, HeldInv
  PROVE  AreasHoldFile
<1>. SUFFICES ASSUME ld.rpx
              PROVE  AreasHoldFile
  BY DEF AreasHoldFile
<1>1. PICK cut : CutOf(ld, cut)
  BY DEF CopyInv
<1>2. PICK k, m, e, d, s : k = ld.area /\ m = ld.map /\ e = Len(Areas) /\ d = ld.done /\ s = ld.size
  OBVIOUS
<1>3. /\ e \in Nat /\ k \in 1..e /\ m \in Nat /\ d \in Nat /\ s \in Nat /\ d <= s /\ Ends = e + 1
      /\ \A a \in 1..e : Areas[a] \in Nat
  BY <1>2, AreasAre, Sizes DEF Loader, CopyInv, Ends
<1>4. /\ cut \in [1..(e + 1) -> 0..s] /\ cut[1] = 0
      /\ \A a \in 1..e : ld.placed[a] = SubSeq(ld.buf, cut[a] + 1, cut[a + 1])
      /\ \A a \in 1..(k - 1) : cut[a + 1] = cut[a] + Areas[a]
      /\ cut[k + 1] = cut[k] + m /\ m <= Areas[k]
      /\ \A a \in (k + 1)..(e + 1) : cut[a] = d
  BY <1>1, <1>2, <1>3 DEF CutOf
<1>5. \A a \in 1..(e + 1) : cut[a] \in Nat
  BY <1>3, <1>4
<1>6. ASSUME NEW a \in 1..e
      PROVE  /\ cut[a + 1] - cut[a] \in 0..Areas[a]
             /\ a < k \/ (a = k /\ m = Areas[k]) => cut[a + 1] - cut[a] = Areas[a]
  <2>1. a \in 1..(e + 1) /\ a + 1 \in 1..(e + 1) /\ Areas[a] \in Nat
    BY <1>3
  <2>2. PICK p, q, r : p = cut[a] /\ q = cut[a + 1] /\ r = Areas[a]
    OBVIOUS
  <2>3. p \in Nat /\ q \in Nat /\ r \in Nat
    BY <1>5, <2>1, <2>2
  <2>4. CASE a < k
    <3>1. q = p + r
      <4>1. a \in 1..(k - 1)
        BY <1>3, <2>4
      <4>. QED  BY <1>4, <2>2, <4>1
    <3>2. q - p = r /\ q - p \in 0..r
      BY <2>3, <3>1
    <3>. QED  BY <2>2, <3>2
  <2>5. CASE a = k
    <3>1. q = p + m /\ m <= r
      BY <1>4, <2>2, <2>5
    <3>2. q - p = m /\ q - p \in 0..r
      BY <1>3, <2>3, <3>1
    <3>. QED  BY <1>3, <2>2, <2>5, <3>2
  <2>6. CASE a > k
    <3>1. p = d /\ q = d
      <4>1. a \in (k + 1)..(e + 1) /\ a + 1 \in (k + 1)..(e + 1)
        BY <1>3, <2>6
      <4>. QED  BY <1>4, <2>2, <4>1
    <3>2. q - p \in 0..r /\ ~(a < k) /\ a # k
      BY <1>3, <2>3, <2>6, <3>1
    <3>. QED  BY <2>2, <3>2
  <2>. QED  BY <1>3, <2>4, <2>5, <2>6
<1>7. cut[Ends] = d
  <2>1. e + 1 \in (k + 1)..(e + 1)
    BY <1>3
  <2>. QED  BY <1>3, <1>4, <2>1
<1>0. ld.buf = Wanted /\ Len(Wanted) = s
  <2>1. ld.buf \in [1..s -> Bytes] /\ ld.buf = Wanted
    BY <1>2 DEF CopyInv, HeldInv, Buffered
  <2>. QED  BY <1>3, <2>1, SeqIs
<1>8. ld.pc = "done" /\ ld.ret >= 0 => cut[Ends] = Len(Wanted)
  BY <1>0, <1>2, <1>7 DEF CopyInv
<1>9. ASSUME ld.pc = "done" /\ ld.ret < 0
      PROVE  cut[Ends] < Len(Wanted) /\ \A a \in 1..e : cut[a + 1] - cut[a] = Areas[a]
  <2>1. d # s /\ k = e /\ m = Areas[k]
    BY <1>2, <1>9 DEF CopyInv
  <2>2. d < s
    BY <1>3, <2>1
  <2>3. \A a \in 1..e : a < k \/ a = k
    BY <1>3, <2>1
  <2>. QED  BY <1>0, <1>2, <1>6, <1>7, <2>1, <2>2, <2>3
<1>10. cut \in Cuts /\ \A a \in 1..e : ld.placed[a] = Piece(cut, a)
  BY <1>0, <1>2, <1>3, <1>4 DEF Cuts, Piece
<1>. QED  BY <1>2, <1>4, <1>6, <1>8, <1>9, <1>10 DEF AreasHoldFile

-----------------------------------------------------------------------------
(***************************************************************************)
(* LoadInv and CopyInv hold at first, and every step keeps them.           *)
(***************************************************************************)
LEMMA LoadInitInv ==
  ASSUME Init
  PROVE  LoadInv
<1>1. SdInv
  BY SdInitInv DEF Init
<1>2. ld \in Loader /\ ld.pc = "idle"
  BY NotLoadingIs DEF Init
<1>. QED  BY <1>1, <1>2 DEF LoadInv, StageInv, WholeInv, LoadedIsFile

LEMMA LoadNext ==
  ASSUME LoadInv, [Next]_lvars
  PROVE  LoadInv'
<1>1. CASE UNCHANGED lvars
  <2>1. DeviceIdle /\ ld' = ld
    BY <1>1 DEF lvars, DeviceIdle
  <2>2. SdInv'
    BY <2>1, IdleStep DEF LoadInv
  <2>3. StageInv' /\ WholeInv' /\ LoadedIsFile'
    BY <2>1 DEF LoadInv, DeviceIdle, StageInv, Buffered, WholeInv, At, IsOpen, Wanted, Holdable,
              LoadedIsFile
  <2>. QED  BY <2>1, <2>2, <2>3 DEF LoadInv
<1>2. ASSUME fault = "none", Driver, ld' = ld
      PROVE  LoadInv'
  BY <1>2, CardStep
<1>3. ASSUME Application, ld' = NotLoading
      PROVE  LoadInv'
  BY <1>3, ApplicationStep, NotLoadingIs, EndedInv DEF LoadInv
<1>4. ASSUME fault = "none", NEW by \in {"LoadFileToMem", "HBL_loadToMemory"}, NEW f \in Files,
             Load(by, f)
      PROVE  LoadInv'
  BY <1>4, LoadStep
<1>5. ASSUME fault = "none", LoaderStep
      PROVE  LoadInv'
  BY <1>5, OpenFailedStep, SeekEndStep, SeekStartStep, AllocateStep,
     ReadBlockStep, TakenStep, ReadStoppedStep, AllReadStep, CopyBlockStep, CloseFileStep
     DEF LoaderStep
<1>. QED  BY <1>1, <1>2, <1>3, <1>4, <1>5 DEF Next, Halted

LEMMA CopyNext ==
  ASSUME LoadInv, CopyInv, [Next]_lvars
  PROVE  CopyInv'
<1>0. ld \in Loader /\ (ld.rpx => ld.pc \in {"copy", "done"})
  BY DEF LoadInv, CopyInv
<1>1. ASSUME ld' = ld
      PROVE  CopyInv'
  BY <1>1 DEF CopyInv, Untouched, Buffered, CutOf
<1>2. /\ ~NotLoading.rpx /\ NotLoading.area = 1 /\ NotLoading.map = 0
      /\ NotLoading.placed = [a \in 1..Len(Areas) |-> <<>>] /\ NotLoading.pc = "idle"
  BY DEF NotLoading
<1>3. ASSUME ld' = NotLoading
      PROVE  CopyInv'
  BY <1>2, <1>3 DEF CopyInv, Untouched
<1>4. ASSUME NEW by \in {"LoadFileToMem", "HBL_loadToMemory"}, NEW f \in Files, Load(by, f)
      PROVE  CopyInv'
  <2>1. ld' = [NotLoading EXCEPT !.by = by, !.pc = "open", !.f = f]
    BY <1>4 DEF Load
  <2>2. /\ ~ld'.rpx /\ ld'.area = 1 /\ ld'.map = 0
        /\ ld'.placed = [a \in 1..Len(Areas) |-> <<>>] /\ ld'.pc = "open"
    BY <1>2, <2>1, NotLoadingIs DEF Loader
  <2>. QED  BY <2>2 DEF CopyInv, Untouched
<1>5. ASSUME OpenFailed \/ SeekEnd \/ SeekStart \/ Allocate \/ ReadBlock
               \/ Taken \/ ReadStopped \/ CloseFile
      PROVE  CopyInv'
  <2>1. ld.pc \in {"open", "end", "start", "read", "size", "close"}
    BY <1>5 DEF OpenFailed, SeekEnd, SeekStart, Allocate, ReadBlock, Taken,
                ReadStopped, CloseFile, Answered
  <2>2. /\ ld'.rpx = ld.rpx /\ ld'.area = ld.area /\ ld'.map = ld.map /\ ld'.placed = ld.placed
        /\ ld'.pc # "copy"
    <3>1. CASE OpenFailed \/ ReadBlock \/ CloseFile
      BY <1>0, <3>1 DEF OpenFailed, ReadBlock, CloseFile, Step, Loader
    <3>2. CASE SeekEnd \/ SeekStart \/ Allocate
      BY <1>0, <3>2 DEF SeekEnd, SeekStart, Allocate, Step, Loader
    <3>3. CASE Taken \/ ReadStopped
      BY <1>0, <3>3 DEF Taken, ReadStopped, Step, Loader
    <3>. QED  BY <1>5, <3>1, <3>2, <3>3, Zenon
  <2>. QED  BY <1>0, <2>1, <2>2, SameCopy
<1>6. ASSUME AllRead
      PROVE  CopyInv'
  <2>1. ld.pc = "read" /\ ~ld.rpx
    BY <1>0, <1>6 DEF AllRead, Answered
  <2>2. CASE ld' = [ld EXCEPT !.pc = "copy", !.rpx = TRUE, !.done = 0]
    BY <2>1, <2>2, CopyBegins
  <2>3. ASSUME NEW p \in {"close", "done"}, NEW r, NEW b,
               \/ ld' = [ld EXCEPT !.pc = p, !.ret = r]
               \/ ld' = [ld EXCEPT !.pc = p, !.elf = b, !.ret = r]
        PROVE  CopyInv'
    <3>1. /\ ld'.rpx = ld.rpx /\ ld'.area = ld.area /\ ld'.map = ld.map
          /\ ld'.placed = ld.placed /\ ld'.pc # "copy"
      BY <1>0, <2>3 DEF Loader
    <3>. QED  BY <2>1, <3>1, SameCopy
  <2>. QED  BY <1>6, <2>2, <2>3 DEF AllRead
<1>. QED
  BY <1>1, <1>3, <1>4, <1>5, <1>6, CopyGoesOn DEF Next, LoaderStep, lvars

(* A turn of the copying loop leaves the buffer alone.                     *)
LEMMA CopyKeeps ==
  ASSUME ld \in Loader, CopyBlock
  PROVE  ld'.rpx = ld.rpx /\ ld'.buf = ld.buf /\ ld'.known = ld.known
<1>1. ASSUME NEW l \in Loader
      PROVE  Placed(l).rpx = l.rpx /\ Placed(l).buf = l.buf /\ Placed(l).known = l.known
  <2>1. PICK a, m, d : Placed(l) = [l EXCEPT !.placed = a, !.map = m, !.done = d]
    BY DEF Placed
  <2>. QED  BY <2>1 DEF Loader
<1>2. ASSUME ld.area # Len(Areas)
      PROVE  NextArea(ld) \in Loader /\ NextArea(ld).rpx = ld.rpx /\ NextArea(ld).buf = ld.buf
             /\ NextArea(ld).known = ld.known
  <2>1. NextArea(ld).known = ld.known
    BY DEF NextArea, Loader
  <2>. QED  BY <1>2, <2>1, NextAreaIs
<1>3. ASSUME NEW r, ld' = [ld EXCEPT !.pc = "done", !.ret = r]
      PROVE  ld'.rpx = ld.rpx /\ ld'.buf = ld.buf /\ ld'.known = ld.known
  BY <1>3 DEF Loader
<1>4. \/ \E r : ld' = [ld EXCEPT !.pc = "done", !.ret = r]
      \/ ld' = Placed(ld)
      \/ ld.area # Len(Areas) /\ ld' = Placed(NextArea(ld))
  BY DEF CopyBlock
<1>. QED  BY <1>1, <1>2, <1>3, <1>4

(* Only reading everything makes a loader accept, and nothing it does      *)
(* afterwards changes what it holds.                                       *)
LEMMA HeldNext ==
  ASSUME LoadInv, CopyInv, HeldInv, [Next]_lvars
  PROVE  HeldInv'
<1>0. ld \in Loader /\ (ld.rpx => ld.pc \in {"copy", "done"})
  BY DEF LoadInv, CopyInv
<1>1. ASSUME ~ld'.rpx, ld'.pc # "done" \/ ld'.by = "LoadFileToMem" \/ ld'.ret = -1
      PROVE  HeldInv'
  <2>1. ~Accepted'
    BY <1>1 DEF Accepted
  <2>. QED  BY <1>1, <2>1 DEF HeldInv, ElfHoldsFile
<1>2. ASSUME ld'.rpx = ld.rpx, ld'.buf = ld.buf, ld'.elf = ld.elf, ld'.known = ld.known,
             Accepted' = Accepted, content' = content, call' = call
      PROVE  HeldInv'
  BY <1>2 DEF HeldInv, ElfHoldsFile, Wanted
<1>3. CASE UNCHANGED lvars
  <2>1. ld' = ld /\ content' = content /\ call' = call
    BY <1>3 DEF lvars
  <2>2. Accepted' = Accepted
    BY <2>1 DEF Accepted
  <2>. QED  BY <1>2, <2>1, <2>2
<1>4. ASSUME Driver, ld' = ld
      PROVE  HeldInv'
  <2>1. ~ld.rpx /\ ~Accepted
    BY <1>4, DriverOf DEF HeldInv
  <2>2. ~ld'.rpx /\ ~Accepted'
    BY <1>4, <2>1 DEF Accepted
  <2>. QED  BY <2>2 DEF HeldInv, ElfHoldsFile
<1>5. ASSUME ld' = NotLoading
      PROVE  HeldInv'
  <2>1. ~NotLoading.rpx /\ NotLoading.pc = "idle"
    BY DEF NotLoading
  <2>. QED  BY <1>1, <1>5, <2>1
<1>6. ASSUME NEW by \in {"LoadFileToMem", "HBL_loadToMemory"}, NEW f \in Files, Load(by, f)
      PROVE  HeldInv'
  <2>1. ld' = [NotLoading EXCEPT !.by = by, !.pc = "open", !.f = f]
    BY <1>6 DEF Load
  <2>2. ~NotLoading.rpx
    BY DEF NotLoading
  <2>3. ~ld'.rpx /\ ld'.pc = "open"
    BY <2>1, <2>2, NotLoadingIs DEF Loader
  <2>. QED  BY <1>1, <2>3
<1>7. ASSUME OpenFailed \/ SeekEnd \/ SeekStart \/ Allocate \/ ReadBlock \/ Taken \/ ReadStopped
               \/ CloseFile
      PROVE  HeldInv'
  <2>1. ~ld.rpx /\ (ld.pc = "close" => ld.by = "LoadFileToMem")
    <3>1. ld.pc \in {"open", "end", "start", "read", "size", "close"}
      BY <1>7 DEF OpenFailed, SeekEnd, SeekStart, Allocate, ReadBlock, Taken, ReadStopped,
                  CloseFile, Answered
    <3>. QED  BY <1>0, <3>1 DEF LoadInv, StageInv
  <2>2. ld'.rpx = ld.rpx /\ (ld'.pc # "done" \/ ld'.by = "LoadFileToMem" \/ ld'.ret = -1)
    <3>1. CASE OpenFailed \/ ReadBlock \/ CloseFile
      BY <1>0, <2>1, <3>1 DEF OpenFailed, ReadBlock, CloseFile, Answered, Step, Loader
    <3>2. CASE SeekEnd \/ SeekStart \/ Allocate
      BY <1>0, <3>2 DEF SeekEnd, SeekStart, Allocate, Step, Loader
    <3>3. CASE Taken \/ ReadStopped
      BY <1>0, <3>3 DEF Taken, ReadStopped, Step, Loader
    <3>. QED  BY <1>7, <3>1, <3>2, <3>3, Zenon
  <2>. QED  BY <1>1, <2>1, <2>2
<1>8. ASSUME fault = "none", AllRead
      PROVE  HeldInv'
  <2>1. /\ ld.pc = "read" /\ ~ld.rpx /\ ld.done = ld.size /\ ~call.on
        /\ content' = content /\ call' = call
    BY <1>0, <1>8 DEF AllRead, Answered, DeviceIdle
  <2>2. ld.buf = Wanted
    BY <1>8, <2>1, AllReadHolds
  <2>3. CASE ld.by = "LoadFileToMem" /\ ld' = [ld EXCEPT !.pc = "close", !.ret = ld.size]
    <3>1. ~ld'.rpx /\ ld'.pc = "close"
      BY <1>0, <2>1, <2>3 DEF Loader
    <3>. QED  BY <1>1, <3>1
  <2>4. CASE ld' = [ld EXCEPT !.pc = "done", !.ret = -1]
    <3>1. ~ld'.rpx /\ ld'.ret = -1
      BY <1>0, <2>1, <2>4 DEF Loader
    <3>. QED  BY <1>1, <3>1
  <2>5. CASE ld.size <= ElfRoom /\ ld' = [ld EXCEPT !.pc = "done", !.elf = ld.buf, !.ret = ld.size]
    <3>1. ~ld'.rpx /\ ld'.elf = ld.buf /\ ld'.known = ld.known
      BY <1>0, <2>1, <2>5 DEF Loader
    <3>2. ld'.elf = Wanted'
      BY <2>1, <2>2, <3>1 DEF Wanted
    <3>3. Len(ld.buf) = ld.size
      <4>1. Buffered /\ ld.size \in Nat
        BY <1>0, <2>1, Sizes DEF LoadInv, StageInv
      <4>. QED  BY <4>1, SeqIs DEF Buffered
    <3>. QED  BY <2>1, <2>5, <3>1, <3>2, <3>3 DEF HeldInv, ElfHoldsFile
  <2>6. CASE ld' = [ld EXCEPT !.pc = "copy", !.rpx = TRUE, !.done = 0]
    <3>1. ld'.pc = "copy" /\ ld'.rpx /\ ld'.buf = ld.buf /\ ld'.known = ld.known
      BY <1>0, <2>6 DEF Loader
    <3>2. ld'.buf = Wanted'
      BY <2>1, <2>2, <3>1 DEF Wanted
    <3>. QED  BY <2>1, <3>1, <3>2 DEF HeldInv, ElfHoldsFile
  <2>. QED  BY <1>8, <2>3, <2>4, <2>5, <2>6 DEF AllRead
<1>9. ASSUME CopyBlock
      PROVE  HeldInv'
  <2>1. /\ ld.pc = "copy" /\ ld.rpx /\ ~call.on /\ ld.buf = Wanted
        /\ content' = content /\ call' = call
    BY <1>9 DEF CopyBlock, CopyInv, HeldInv, DeviceIdle
  <2>2. ld'.rpx = ld.rpx /\ ld'.buf = ld.buf /\ ld'.known = ld.known
    BY <1>0, <1>9, CopyKeeps
  <2>3. ld'.buf = Wanted'
    BY <2>1, <2>2 DEF Wanted
  <2>. QED  BY <2>1, <2>2, <2>3 DEF HeldInv, ElfHoldsFile
<1>. QED
  BY <1>3, <1>4, <1>5, <1>6, <1>7, <1>8, <1>9 DEF Next, LoaderStep, Halted

LEMMA LoadAlways == Spec => [](LoadInv /\ CopyInv /\ HeldInv)
<1>1. Init => LoadInv /\ CopyInv /\ HeldInv
  <2>1. NotLoading.rpx = FALSE
    BY DEF NotLoading
  <2>2. /\ NotLoading.area = 1 /\ NotLoading.map = 0
        /\ NotLoading.placed = [a \in 1..Len(Areas) |-> <<>>] /\ NotLoading.pc = "idle"
    BY DEF NotLoading
  <2>. QED
    BY <2>1, <2>2, LoadInitInv DEF Init, CopyInv, Untouched, HeldInv, ElfHoldsFile, Accepted
<1>2. LoadInv /\ CopyInv /\ HeldInv /\ [Next]_lvars => (LoadInv /\ CopyInv /\ HeldInv)'
  BY LoadNext, CopyNext, HeldNext
<1>. QED  BY <1>1, <1>2, PTL DEF Spec

-----------------------------------------------------------------------------
(***************************************************************************)
(* Every variable of the driver and the loader keeps its type: no transfer *)
(* overruns its buffer, no position its file, no copy its memory area's    *)
(* number, whatever the card answers.                                      *)
(***************************************************************************)
THEOREM LoaderTyped == Spec => []TypeOK
<1>1. LoadInv => TypeOK
  BY FileIs DEF LoadInv, SdInv, Typed, TypeOK, SdTypeOK
<1>. QED  BY <1>1, LoadAlways, PTL

(***************************************************************************)
(* Every path through every call of the device, its error returns          *)
(* included, gives back the mutex it took, exactly once: between two calls *)
(* the mutex is free, but for the seek with an unknown whence.             *)
(***************************************************************************)
THEOREM MutexesReturned == Spec => []MutexReturned
<1>1. LoadInv => MutexReturned
  BY DEF LoadInv, SdInv
<1>. QED  BY <1>1, LoadAlways, PTL

(***************************************************************************)
(* However devices are mounted and unmounted, among the rows of other      *)
(* drivers, a row of devoptab_list leads to private data that exists, and  *)
(* private data has exactly one row.                                       *)
(***************************************************************************)
THEOREM RowsLead == Spec => []RowsLive
<1>1. ASSUME LoadInv
      PROVE  RowsLive
  <2>1. RowsInv
    BY <1>1 DEF LoadInv, SdInv
  <2>2. \A i \in Mounted : Live(table[i])
    BY <2>1 DEF RowsInv, Mounted
  <2>3. ASSUME NEW d \in Devs, Live(d)
        PROVE  Cardinality({i \in Mounted : table[i] = d}) = 1
    <3>1. PICK i \in 1..Rows : table[i] = d
      BY <2>1, <2>3 DEF RowsInv
    <3>2. {j \in Mounted : table[j] = d} = {i}
      BY <2>1, <3>1 DEF RowsInv, Mounted
    <3>. QED  BY <3>2, FS_Singleton
  <2>. QED  BY <2>2, <2>3 DEF RowsLive
<1>. QED  BY <1>1, LoadAlways, PTL

(***************************************************************************)
(* However the card cuts a transfer into blocks and wherever it stops, the *)
(* bytes it has moved are the right ones, from the place where it stood,   *)
(* and it stands behind them; and the answer is their number, or 0 for a   *)
(* transfer the card has stopped before its end.                           *)
(***************************************************************************)
THEOREM CountsAreTrue == Spec => []CountsTrue
<1>1. ASSUME LoadInv, call.op = "read"
      PROVE  SubSeq(call.buf, 1, call.done) = SubSeq(content, call.from + 1, call.from + call.done)
  <2>1. PICK n, r, p, b :
          n = call.len /\ r = call.done /\ p = call.from /\ b = call.buf
    OBVIOUS
  <2>2. /\ b \in [1..n -> Bytes] /\ r \in 0..n
        /\ \A k \in 1..r : p + k <= Len(content)
        /\ \A k \in 1..r : b[k] = content[p + k]
    BY <1>1, <2>1 DEF LoadInv, SdInv, TransferInv, Transfers
  <2>3. n \in Nat /\ p \in Nat /\ r \in Nat
    <3>1. n \in Nat /\ p \in Nat
      BY <1>1, <2>1, CallLengths DEF LoadInv, SdInv, Typed
    <3>. QED  BY <2>2, <3>1
  <2>4. SubSeq(b, 1, r) = SubSeq(content, p + 1, p + r)
    <3>1. CASE r = 0
      <4>1. SubSeq(b, 1, 0) = <<>>
        BY SubSeqEmpty
      <4>2. PICK u, v : u = p + 1 /\ v = p + r
        OBVIOUS
      <4>3. u \in Int /\ v \in Int /\ v < u
        BY <2>3, <3>1, <4>2
      <4>4. SubSeq(content, u, v) = <<>>
        BY <4>3, SubSeqEmpty
      <4>. QED  BY <3>1, <4>1, <4>2, <4>4, Zenon
    <3>2. CASE r > 0
      <4>1. \A k \in 1..r : b[k] \in Bytes
        BY <2>2, <2>3
      <4>2. /\ SubSeq(b, 1, r) \in Seq(Bytes) /\ Len(SubSeq(b, 1, r)) = r
            /\ \A k \in 1..r : SubSeq(b, 1, r)[k] = b[k]
        <5>1. 1 \in Int /\ r \in Int /\ 1 <= r
          BY <2>3, <3>2
        <5>2. /\ SubSeq(b, 1, r) \in Seq(Bytes)
              /\ Len(SubSeq(b, 1, r)) = IF 1 <= r THEN r - 1 + 1 ELSE 0
              /\ \A i \in 1..r - 1 + 1 : SubSeq(b, 1, r)[i] = b[1 + i - 1]
          BY <4>1, <5>1, SubSeqProperties
        <5>3. r - 1 + 1 = r /\ \A i \in 1..r : 1 + i - 1 = i
          BY <2>3, <3>2
        <5>. QED  BY <5>1, <5>2, <5>3
      <4>3. /\ SubSeq(content, p + 1, p + r) \in Seq(Bytes)
            /\ Len(SubSeq(content, p + 1, p + r)) = r
            /\ \A k \in 1..r : SubSeq(content, p + 1, p + r)[k] = content[p + k]
        <5>1. PICK u, v : u = p + 1 /\ v = p + r
          OBVIOUS
        <5>2. /\ u \in Int /\ v \in Int /\ u <= v /\ v - u + 1 = r
              /\ \A i \in 1..r : u + i - 1 = p + i
              /\ \A i \in u..v : i - p \in 1..r /\ p + (i - p) = i
          BY <2>3, <3>2, <5>1
        <5>3. \A i \in u..v : content[i] \in Bytes
          <6>1. \A k \in 1..r : content[p + k] \in Bytes
            BY <2>2, <4>1
          <6>. QED  BY <5>2, <6>1
        <5>4. /\ SubSeq(content, u, v) \in Seq(Bytes)
              /\ Len(SubSeq(content, u, v)) = IF u <= v THEN v - u + 1 ELSE 0
              /\ \A i \in 1..v - u + 1 : SubSeq(content, u, v)[i] = content[u + i - 1]
          BY <5>2, <5>3, SubSeqProperties
        <5>5. /\ Len(SubSeq(content, u, v)) = r
              /\ \A k \in 1..r : SubSeq(content, u, v)[k] = content[p + k]
          BY <5>2, <5>4
        <5>. QED  BY <5>1, <5>4, <5>5, Zenon
      <4>4. PICK x, y : x = SubSeq(b, 1, r) /\ y = SubSeq(content, p + 1, p + r)
        OBVIOUS
      <4>5. \A k \in 1..r : x[k] = y[k]
        BY <2>2, <4>2, <4>3, <4>4
      <4>6. x \in Seq(Bytes) /\ y \in Seq(Bytes) /\ Len(x) = r /\ Len(y) = r
        BY <4>2, <4>3, <4>4, Zenon
      <4>7. x = y
        BY <4>5, <4>6, SeqEqual
      <4>. QED  BY <4>4, <4>7
    <3>. QED  BY <2>3, <3>1, <3>2
  <2>. QED  BY <2>1, <2>4
<1>2. LoadInv => CountsTrue
  <2>. SUFFICES ASSUME LoadInv, ~call.on, call.op \in Transfers
                PROVE  CountsTrue
    BY DEF CountsTrue, Transfers
  <2>1. TransferInv
    BY DEF LoadInv, SdInv
  <2>2. /\ call.op = "read" => file[call.obj].cpos = call.from + call.done
        /\ call.op = "write" => \A k \in 1..call.done : content[call.from + k] = k
        /\ call.op = "write" => WritesAt(file[call.obj]) = call.from + call.done
        /\ call.ret = call.done \/ (call.ret = 0 /\ call.done < call.len)
    BY <2>1 DEF TransferInv
  <2>3. ReadIsFile
    BY <1>1, <2>2 DEF ReadIsFile
  <2>4. WriteIsStored
    BY <2>2 DEF WriteIsStored
  <2>. QED  BY <2>2, <2>3, <2>4 DEF CountsTrue
<1>. QED  BY <1>2, LoadAlways, PTL

(***************************************************************************)
(* Whatever sequence of reads, writes, seeks and truncations an            *)
(* application makes, the driver's position is the card's for a file that  *)
(* does not append and whose last seek the card did not refuse.            *)
(***************************************************************************)
THEOREM PositionsKept == Spec => []PositionKept
<1>1. LoadInv => PositionKept
  BY DEF LoadInv, SdInv
<1>. QED  BY <1>1, LoadAlways, PTL

(***************************************************************************)
(* What a loader leaves in memory is the file on the card, of whatever     *)
(* size, in blocks of whatever size that the card cuts as it likes:        *)
(* LoadFileToMem() never answers a size without the bytes;                 *)
(* HBL_loadToMemory() puts all of an ELF file behind the program, and lays *)
(* an RPX file into memory areas of whatever sizes in order, overrunning   *)
(* none, and refuses it only when all of them are full.  Where the card    *)
(* has not said where the file ends, HBL_loadToMemory() takes it for an    *)
(* empty one.                                                              *)
(***************************************************************************)
THEOREM FilesLoadedWhole == Spec => []BuffersHoldFile
<1>1. LoadInv /\ CopyInv /\ HeldInv => BuffersHoldFile
  BY CopyHolds DEF LoadInv, HeldInv, BuffersHoldFile
<1>. QED  BY <1>1, LoadAlways, PTL
=============================================================================
