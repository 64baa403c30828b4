------------------------------- MODULE SdFat -------------------------------
(***************************************************************************)
(* The SD card device of src/src/fs/sd_fat_devoptab.c: the rows it owns in *)
(* the C library's devoptab_list, the private data and the mutex of each   *)
(* mounted device, and the files and directories open on it.               *)
(*                                                                         *)
(* A call of the C library takes the device's mutex, makes one or more     *)
(* calls to the card (the FS functions of the console) and returns; each   *)
(* call to the card is one step, whose result the environment chooses.     *)
(* The program has one thread, so that calls follow each other.            *)
(*                                                                         *)
(* The card is one file, `content', reached through any number of handles. *)
(* Paths and errno values are left out.  Bytes are small numbers: what a   *)
(* write() stores are the indices of its buffer.                           *)
(***************************************************************************)
EXTENDS Integers, Sequences, FiniteSets

CONSTANTS
  Devs,     (* heap blocks for a device's private data and its FS client   *)
  NoDev,    (* a free row: devoptab_list[i] == devoptab_list[0]            *)
  Other,    (* a row taken by another driver                               *)
  Rows,     (* how many rows devoptab_list has from 3 on                   *)
  Foreign,  (* those another driver has                                    *)
  Files,    (* file structs of the C library                               *)
  Iters,    (* DIR_ITERs of the C library                                  *)
  Chunk,    (* 0x4000: the size of the bounce buffer                       *)
  MaxLen,   (* bound: bytes an application asks of one read() or write()   *)
  MaxSize   (* bound: bytes in the file                                    *)

(* Bound: the driver's position, which may run ahead of the card's.        *)
MaxPos == 2 * MaxSize + 1

ASSUME SdFatAssumption ==
  /\ NoDev \notin Devs /\ Other \notin Devs /\ NoDev # Other
  /\ Rows \in Nat \ {0} /\ Foreign \subseteq 1..Rows /\ Chunk \in Nat \ {0}
  /\ MaxLen \in Nat \ {0} /\ MaxSize \in Nat \ {0}

VARIABLES
  table,    (* devoptab_list from row 3 on                                 *)
  priv,     (* sd_fat_private_t, with its mutex and its FS client          *)
  file,     (* sd_fat_file_state_t                                         *)
  iter,     (* sd_fat_dir_entry_t                                          *)
  content,  (* the bytes of the file on the card                           *)
  call,     (* the call in progress, or the result of the last one         *)
  fault     (* "none", or why the program halted                           *)

sdvars == <<table, priv, file, iter, content, call, fault>>

Garbage == 0          (* a byte the driver does not own                    *)

Bytes == 0..(MaxLen + MaxSize)

(* The longest read() or write(); a loader may ask for the whole file.     *)
Longest == IF MaxLen > MaxSize THEN MaxLen ELSE MaxSize

(***************************************************************************)
(* A block is free, or the device of a row ("device"), or what a mount     *)
(* that failed left behind: an FS client that nobody can delete ("orphan").*)
(* locks counts the OSLockMutex() calls without their OSUnlockMutex();     *)
(* stuck remembers that a seek with an unknown whence kept the mutex.      *)
(***************************************************************************)
Private == [state : {"free", "orphan", "device"}, locks : 0..2, stuck : BOOLEAN]

Fresh(s) == [state |-> s, locks |-> 0, stuck |-> FALSE]

Modes == {"r", "w", "a", "r+", "a+"}

Unknown == "unknown"  (* access flags that stand for none of them          *)

(* cpos is where the card will read or write next; lost remembers that a   *)
(* seek failed on this file.                                               *)
File == [dev : Devs, mode : Modes, pos : 0..MaxPos, len : 0..MaxSize,
         cpos : 0..MaxSize, lost : BOOLEAN]

CanRead(f)  == f.mode \in {"r", "r+", "a+"}
CanWrite(f) == f.mode \in {"w", "a", "r+", "a+"}
Appends(f)  == f.mode \in {"a", "a+"}

ChangeOps == {"unlink", "chdir", "rename", "mkdir"}
PathOps == ChangeOps \union {"stat", "statvfs"}
FileOps == {"close", "fstat", "fsync", "ftruncate"}
DirOps  == {"dirclose", "dirreset", "dirnext"}

(* What a call answers when it answers no count.                           *)
Error == -1
OK == 0
Directory == 1
Regular == 2

(* on: the call has not returned.  dev is the device it locked, obj the    *)
(* file or iterator, mode what open() asked for; len and buf belong to     *)
(* read() and write(), from is where the card started, and done how many   *)
(* bytes the card has moved since, whatever the call answers.              *)
Call == [on : BOOLEAN, op : PathOps \union FileOps \union DirOps
                            \union {"none", "open", "diropen", "read", "write"},
         dev : Devs \union {NoDev}, obj : Files \union Iters \union {NoDev},
         mode : Modes, len : 0..Longest, done : 0..Longest,
         from : 0..MaxSize, buf : Seq(Bytes), ret : -1..(MaxSize + MaxLen)]

NoCall == [on |-> FALSE, op |-> "none", dev |-> NoDev, obj |-> NoDev, mode |-> "r",
           len |-> 0, done |-> 0, from |-> 0, buf |-> <<>>, ret |-> OK]

NoFile == [dev |-> NoDev]

IsOpen(f)   == file[f] # NoFile
Open(i)     == iter[i] # NoDev
Live(d)     == priv[d].state = "device"

Smaller(a, b) == IF a < b THEN a ELSE b

-----------------------------------------------------------------------------
(* sd_fat_get_device_data(): the first row with the name.                  *)
Mounted == {i \in 1..Rows : table[i] \in Devs}
FirstRow == CHOOSE i \in Mounted : \A j \in Mounted : i <= j
Device == IF Mounted = {} THEN NoDev ELSE table[FirstRow]

Crash(why) ==
  /\ fault' = why
  /\ UNCHANGED <<table, priv, file, iter, content, call>>

Locked(d)   == [priv EXCEPT ![d].locks = @ + 1]
Unlocked(d) == [priv EXCEPT ![d].locks = @ - 1]

(* The end of a call: only its answer remains, and what a transfer moved.  *)
Returned(v) ==
  IF call.op \in {"read", "write"}
    THEN [call EXCEPT !.on = FALSE, !.dev = NoDev, !.ret = v]
    ELSE [NoCall EXCEPT !.ret = v]

(* A call that returns before it takes the mutex.                          *)
Refused(v) ==
  /\ call' = [NoCall EXCEPT !.ret = v]
  /\ UNCHANGED <<table, priv, file, iter, content, fault>>

(* A call that has taken the mutex of d.                                   *)
Entered(d, c) ==
  /\ priv' = Locked(d)
  /\ call' = [c EXCEPT !.on = TRUE, !.dev = d]
  /\ UNCHANGED <<table, file, iter, content, fault>>

(* Bug: an error return forgets the mutex.                                 *)
LeaveLocked(v) ==
  /\ priv' = IF v = Error THEN priv ELSE Unlocked(call.dev)
  /\ call' = Returned(v)
  /\ UNCHANGED <<table, file, iter, content, fault>>

(* OSUnlockMutex() and return, with nothing else changed.                  *)
Leave(v) ==
  /\ priv' = Unlocked(call.dev)
  /\ call' = Returned(v)
  /\ UNCHANGED <<table, file, iter, content, fault>>

Running(op) == call.on /\ call.op = op

-----------------------------------------------------------------------------
(* mount_sd_fat(): no memory; a client but no volume, or no memory or row  *)
(* for the device, where the client is forgotten; a volume whose name      *)
(* MountFS() could not copy; a device.                                     *)
Mount ==
  /\ ~call.on
  /\ \/ UNCHANGED sdvars
     \/ \E d \in Devs :
          /\ priv[d].state = "free"
          /\ \/ Crash("null deref")
             \/ /\ priv' = [priv EXCEPT ![d].state = "orphan"]
                /\ UNCHANGED <<table, file, iter, content, call, fault>>
             \/ \E i \in 1..Rows :
                  /\ table[i] = NoDev
                  /\ \A j \in 1..(i - 1) : table[j] # NoDev
                  /\ table' = [table EXCEPT ![i] = d]
                  /\ priv' = [priv EXCEPT ![d] = Fresh("device")]
                  /\ UNCHANGED <<file, iter, content, call, fault>>

(* Bug: the row keeps pointing at the device.                              *)
UnmountKeepsRow ==
  /\ ~call.on /\ Device # NoDev
  /\ priv' = [priv EXCEPT ![Device] = Fresh("free")]
  /\ UNCHANGED <<table, file, iter, content, call, fault>>

(* unmount_sd_fat(): the open files and directories stay as they are.      *)
Unmount ==
  /\ ~call.on /\ Device # NoDev
  /\ table' = [table EXCEPT ![FirstRow] = NoDev]
  /\ priv' = [priv EXCEPT ![Device] = Fresh("free")]
  /\ UNCHANGED <<file, iter, content, call, fault>>

-----------------------------------------------------------------------------
(* The calls that name a path take the mutex of the device they find.      *)
EnterPath(op) ==
  /\ ~call.on
  /\ \/ Device = NoDev /\ Refused(Error)
     \/ Device # NoDev /\ Entered(Device, [NoCall EXCEPT !.op = op])

(* sd_fat_stat_r() tells the root by the length of a path it has freed, so *)
(* that any entry may come out as a directory, and the root as none.       *)
Stat == Running("stat") /\ \E v \in {Error, Directory, Regular} : Leave(v)

(* The path cannot be copied, the card refuses, or it obeys.               *)
Change(op) == Running(op) /\ \E v \in {OK, Error} : Leave(v)

Statvfs == Running("statvfs") /\ \E v \in {OK, Error} : Leave(v)

(* No device, or access flags that are no mode; else open() goes on.       *)
EnterOpen(f, m) ==
  /\ ~call.on /\ ~IsOpen(f)
  /\ \/ (Device = NoDev \/ m \notin Modes) /\ Refused(Error)
     \/ /\ Device # NoDev /\ m \in Modes
        /\ Entered(Device, [NoCall EXCEPT !.op = "open", !.obj = f, !.mode = m])

(* The file as FSOpenFile() finds it, or leaves it.                        *)
OpenedContent(m) == IF m = "w" THEN <<>> ELSE content

NewFile(d, m) ==
  [dev |-> d, mode |-> m, pos |-> 0, len |-> Len(OpenedContent(m)), cpos |-> 0,
   lost |-> FALSE]

(* sd_fat_open_r(): without memory for the path the card is given NULL.  A *)
(* file whose size cannot be read is closed again, but may be truncated.   *)
OpenCall ==
  /\ Running("open")
  /\ \/ Leave(Error)
     \/ Crash("null deref")
     \/ /\ content' = OpenedContent(call.mode)
        /\ priv' = Unlocked(call.dev)
        /\ \/ /\ call' = Returned(Error)
              /\ UNCHANGED file
           \/ /\ call' = Returned(OK)
              /\ file' = [file EXCEPT ![call.obj] = NewFile(call.dev, call.mode)]
        /\ UNCHANGED <<table, iter, fault>>

(* The calls on a file take the mutex of the device the file points to,    *)
(* whether or not that is still a device.                                  *)
EnterFile(op, f) ==
  /\ ~call.on /\ IsOpen(f)
  /\ IF Live(file[f].dev)
       THEN Entered(file[f].dev, [NoCall EXCEPT !.op = op, !.obj = f])
       ELSE Crash("use after free")

Fstat == Running("fstat") /\ \E v \in {OK, Error} : Leave(v)

Fsync == Running("fsync") /\ \E v \in {OK, Error} : Leave(v)

(* The C library gives up the file struct whatever close() answers.        *)
Close ==
  /\ Running("close")
  /\ \E v \in {OK, Error} : call' = Returned(v)
  /\ priv' = Unlocked(call.dev)
  /\ file' = [file EXCEPT ![call.obj] = NoFile]
  /\ UNCHANGED <<table, iter, content, fault>>

(* The first n bytes, and what the card makes up if it has less of them.   *)
Resized(n) == [i \in 1..n |-> IF i <= Len(content) THEN content[i] ELSE Garbage]

(* The file ends where the card stands, whatever length was asked for; that *)
(* is behind its end if another file has made it shorter since.            *)
Ftruncate ==
  /\ Running("ftruncate")
  /\ \/ Leave(Error)
     \/ /\ content' = Resized(file[call.obj].cpos)
        /\ priv' = Unlocked(call.dev)
        /\ call' = Returned(OK)
        /\ UNCHANGED <<table, file, iter, fault>>

-----------------------------------------------------------------------------
Whences == {"SET", "CUR", "END"}

(* Where a seek leads.                                                     *)
Target(f, whence, off) ==
  off + CASE whence = "SET" -> 0
          [] whence = "CUR" -> f.pos
          [] whence = "END" -> f.len

(* Bug: the position is left to the next transfer to set.                  *)
SeekForgets(f, p) == f

SeekTo(f, p) == [f EXCEPT !.pos = p]

(* sd_fat_seek_r().  A seek before the start of the file, or past the      *)
(* bound, is left out: the card refuses it, as it may refuse any other.    *)
Seek(f, whence, off) ==
  /\ ~call.on /\ IsOpen(f)
  /\ Target(file[f], whence, off) \in 0..MaxSize
  /\ IF ~Live(file[f].dev)
       THEN Crash("use after free")
       ELSE LET to == SeekTo(file[f], Target(file[f], whence, off))
            IN  \/ /\ Target(file[f], whence, off) <= Len(content)
                   /\ file' = [file EXCEPT ![f] = [to EXCEPT !.cpos = Target(file[f], whence, off),
                                                            !.lost = FALSE]]
                   /\ call' = [NoCall EXCEPT !.ret = to.pos]
                   /\ UNCHANGED <<table, priv, iter, content, fault>>
                \/ /\ file' = [file EXCEPT ![f] = [to EXCEPT !.lost = TRUE]]
                   /\ call' = [NoCall EXCEPT !.ret = Error]
                   /\ UNCHANGED <<table, priv, iter, content, fault>>

(* A whence the switch does not know: the mutex stays locked.              *)
SeekUnknown(f) ==
  /\ ~call.on /\ IsOpen(f)
  /\ IF ~Live(file[f].dev)
       THEN Crash("use after free")
       ELSE /\ ~priv[file[f].dev].stuck
            /\ priv' = [Locked(file[f].dev) EXCEPT ![file[f].dev].stuck = TRUE]
            /\ call' = [NoCall EXCEPT !.ret = Error]
            /\ UNCHANGED <<table, file, iter, content, fault>>

-----------------------------------------------------------------------------
(* read() and write() up to the first call to the card: no permission, no  *)
(* bounce buffer, or the loop.                                             *)
Transfer(op, f, n, allowed) ==
  /\ ~call.on /\ IsOpen(f)
  /\ LET start == IF op = "write" /\ Appends(file[f]) THEN Len(content) ELSE file[f].cpos
         c == [NoCall EXCEPT !.op = op, !.obj = f, !.len = n, !.from = start,
                             !.buf = [i \in 1..n |-> Garbage]]
     IN  \/ ~allowed /\ Refused(0)
         \/ /\ allowed /\ ~Live(file[f].dev)
            /\ Crash("use after free")
         \/ /\ allowed /\ Live(file[f].dev)
            /\ \/ Entered(file[f].dev, c)
               \/ Refused(0)

Read(f, n)  == Transfer("read", f, n, CanRead(file[f]))
Write(f, n) == Transfer("write", f, n, CanWrite(file[f]))

(* What the next call to the card is asked for.                            *)
Block == Smaller(Smaller(Chunk, call.len), call.len - call.done)

Finished(op) == Running(op) /\ call.done = call.len /\ Leave(call.done)

ReadFailed == Running("read") /\ call.done < call.len /\ Leave(0)

(* Moved on by r bytes, in the driver's count and in the card's.           *)
Advanced(f, r) == [f EXCEPT !.pos = @ + r, !.cpos = @ + r]

(* Bug: the block is copied to the start of the caller's buffer.           *)
DeliveredToStart(r) ==
  [i \in 1..call.len |->
     IF i \in 1..r THEN content[file[call.obj].cpos + i] ELSE call.buf[i]]

(* The whole block is copied to the caller, whatever the card delivered.   *)
Delivered(r) ==
  [i \in 1..call.len |->
     IF i - call.done \in 1..r THEN content[file[call.obj].cpos + i - call.done]
     ELSE IF i - call.done \in 1..Block THEN Garbage
     ELSE call.buf[i]]

ReadSome ==
  /\ Running("read") /\ call.done < call.len
  /\ LET f == file[call.obj]
     IN  \E r \in 0..Block :
           /\ r > 0 => f.cpos + r <= Len(content) /\ f.pos + r <= MaxPos
           /\ \/ r = 0 /\ Leave(call.done)
              \/ /\ r > 0
                 /\ call' = [call EXCEPT !.done = @ + r, !.buf = Delivered(r)]
                 /\ file' = [file EXCEPT ![call.obj] = Advanced(f, r)]
                 /\ UNCHANGED <<table, priv, iter, content, fault>>

WriteFailed == Running("write") /\ call.done < call.len /\ Leave(call.done)

(* The byte of the caller's buffer that is the k-th of the block.          *)
Source(k) == call.done + k

(* FSWriteFile() of r bytes at p.                                          *)
Stored(p, r) ==
  [i \in 1..(IF p + r > Len(content) THEN p + r ELSE Len(content)) |->
     IF i - p \in 1..r THEN Source(i - p)
     ELSE IF i <= Len(content) THEN content[i] ELSE Garbage]

WritesAt(f) == IF Appends(f) THEN Len(content) ELSE f.cpos

(* A block of which the card takes nothing makes write() answer 0, however *)
(* much was written before.                                                *)
WriteSome ==
  /\ Running("write") /\ call.done < call.len
  /\ LET f == file[call.obj]
         p == WritesAt(f)
     IN  \E r \in 0..Smaller(Block, MaxSize - p) :
           \/ r = 0 /\ Leave(0)
           \/ /\ r > 0
              /\ f.pos + r <= MaxPos
              /\ call' = [call EXCEPT !.done = @ + r]
              /\ content' = Stored(p, r)
              /\ file' = [file EXCEPT ![call.obj] = [f EXCEPT !.pos = @ + r, !.cpos = p + r]]
              /\ UNCHANGED <<table, priv, iter, fault>>

-----------------------------------------------------------------------------
EnterDirOpen(i) ==
  /\ ~call.on /\ ~Open(i)
  /\ \/ Device = NoDev /\ Refused(Error)
     \/ Device # NoDev /\ Entered(Device, [NoCall EXCEPT !.op = "diropen", !.obj = i])

DirOpen ==
  /\ Running("diropen")
  /\ \/ Leave(Error)
     \/ /\ priv' = Unlocked(call.dev)
        /\ call' = Returned(OK)
        /\ iter' = [iter EXCEPT ![call.obj] = call.dev]
        /\ UNCHANGED <<table, file, content, fault>>

EnterDir(op, i) ==
  /\ ~call.on /\ Open(i)
  /\ IF Live(iter[i])
       THEN Entered(iter[i], [NoCall EXCEPT !.op = op, !.obj = i])
       ELSE Crash("use after free")

(* dirnext has nowhere to put the entry when malloc() fails.               *)
DirNext ==
  /\ Running("dirnext")
  /\ Crash("null deref") \/ \E v \in {OK, Error} : Leave(v)

DirReset == Running("dirreset") /\ \E v \in {OK, Error} : Leave(v)

DirClose ==
  /\ Running("dirclose")
  /\ \E v \in {OK, Error} : call' = Returned(v)
  /\ priv' = Unlocked(call.dev)
  /\ iter' = [iter EXCEPT ![call.obj] = NoDev]
  /\ UNCHANGED <<table, file, content, fault>>

-----------------------------------------------------------------------------
(* What the C library may call.                                            *)
Application ==
  \/ Mount \/ Unmount
  \/ \E op \in PathOps : EnterPath(op)
  \/ \E f \in Files :
       \/ \E m \in Modes \union {Unknown} : EnterOpen(f, m)
       \/ \E op \in FileOps : EnterFile(op, f)
       \/ \E w \in Whences, off \in -1..MaxSize : Seek(f, w, off)
       \/ SeekUnknown(f)
       \/ \E n \in 0..MaxLen : Read(f, n) \/ Write(f, n)
  \/ \E i \in Iters : EnterDirOpen(i) \/ \E op \in DirOps : EnterDir(op, i)

(* What the driver does of a call in progress.                             *)
Driver ==
  \/ Stat \/ Statvfs \/ \E op \in ChangeOps : Change(op)
  \/ OpenCall \/ Fstat \/ Fsync \/ Close \/ Ftruncate
  \/ Finished("read") \/ ReadFailed \/ ReadSome
  \/ Finished("write") \/ WriteFailed \/ WriteSome
  \/ DirOpen \/ DirNext \/ DirReset \/ DirClose

SdInit ==
  /\ table = [i \in 1..Rows |-> IF i \in Foreign THEN Other ELSE NoDev]
  /\ priv = [d \in Devs |-> Fresh("free")]
  /\ file = [f \in Files |-> NoFile]
  /\ iter = [i \in Iters |-> NoDev]
  /\ \E n \in 0..MaxSize : content = [i \in 1..n |-> MaxLen + i]
  /\ call = NoCall
  /\ fault = "none"

-----------------------------------------------------------------------------
SdTypeOK ==
  /\ table \in [1..Rows -> Devs \union {NoDev, Other}]
  /\ priv \in [Devs -> Private]
  /\ \A f \in Files : IsOpen(f) => file[f] \in File
  /\ iter \in [Iters -> Devs \union {NoDev}]
  /\ content \in Seq(Bytes) /\ Len(content) <= MaxSize
  /\ call \in Call
  /\ fault \in {"none", "null deref", "use after free"}

(***************************************************************************)
(* Every path through a call gives back the mutex it took: between two     *)
(* calls the mutex of a device is free, unless a seek with an unknown      *)
(* whence has locked it for good, and in the middle of a call it is held.  *)
(***************************************************************************)
MutexReturned ==
  \A d \in Devs : Live(d) =>
    priv[d].locks = (IF priv[d].stuck THEN 1 ELSE 0)
                    + (IF call.on /\ call.dev = d THEN 1 ELSE 0)

(***************************************************************************)
(* A row of devoptab_list leads to a device that exists, and each device   *)
(* has one row: no path leads into private data that unmounting freed.     *)
(***************************************************************************)
RowsLive ==
  /\ \A i \in Mounted : Live(table[i])
  /\ \A d \in Devs : Live(d) => Cardinality({i \in Mounted : table[i] = d}) = 1

(***************************************************************************)
(* What the card has moved for read() is the file, from where the card     *)
(* stood when the call began, however the card cut it into blocks; the     *)
(* card now stands behind it.                                              *)
(***************************************************************************)
ReadIsFile ==
  call.op = "read" =>
     /\ SubSeq(call.buf, 1, call.done) = SubSeq(content, call.from + 1, call.from + call.done)
     /\ file[call.obj].cpos = call.from + call.done

(***************************************************************************)
(* What the card has moved for write() is in the file, in order, and the   *)
(* next write would go behind it.                                          *)
(***************************************************************************)
WriteIsStored ==
  call.op = "write" =>
     /\ \A k \in 1..call.done : content[call.from + k] = k
     /\ WritesAt(file[call.obj]) = call.from + call.done

(***************************************************************************)
(* A transfer answers the number of bytes the card has moved, no more and  *)
(* no fewer; or it answers 0 although bytes were moved, but only when the  *)
(* card has stopped it before its end (a read that fails, a write of which *)
(* a block is not taken).  The bytes that were moved are the right ones    *)
(* either way, and the card stands behind them.                            *)
(***************************************************************************)
CountsTrue ==
  ~call.on /\ call.op \in {"read", "write"} =>
     /\ call.ret = call.done \/ (call.ret = 0 /\ call.done < call.len)
     /\ ReadIsFile
     /\ WriteIsStored

(***************************************************************************)
(* The driver's position is the card's, for a file that does not append    *)
(* and whose last seek the card did not refuse.                            *)
(***************************************************************************)
PositionKept ==
  \A f \in Files : IsOpen(f) /\ ~Appends(file[f]) /\ ~file[f].lost =>
    file[f].pos = file[f].cpos

=============================================================================
