----------------------------- MODULE FileLoader -----------------------------
(***************************************************************************)
(* The two functions that load a whole file: LoadFileToMem() of            *)
(* src/src/fs/fs_utils.c, on the calls of module SdFat, and                *)
(* HBL_loadToMemory() of src/src/hbl.c, which goes on to copy the file     *)
(* into the memory areas of the loader.                                    *)
(*                                                                         *)
(* A loader is a program of its own: each of its steps starts a call of    *)
(* the device or goes on from the result of one.  HBL_loadToMemory() uses  *)
(* the C library's streams: fread() is one read() of the device here.      *)
(***************************************************************************)
EXTENDS SdFat

CONSTANTS
  Areas,    (* the sizes of the memory areas, in the order of the list     *)
  ElfRoom   (* what fits between the end of the program and 0x01000000     *)

ASSUME LoaderAssumption ==
  /\ Areas \in Seq(Nat) /\ Areas # <<>>
  /\ ElfRoom \in Nat
  /\ Files # {}

VARIABLE ld

(***************************************************************************)
(* by     which function                                                   *)
(* pc     where it is; "idle" before it is called, "done" when it returned *)
(* f      its file                                                         *)
(* known             the card has said where the file ends                 *)
(* size, done, buf   filesize, bytes read, the buffer                      *)
(* elf               what has been put behind the program                  *)
(* rpx               the file is an RPX, to be copied into the areas       *)
(* area, map         the memory area and the position in it                *)
(* placed            what has been copied into each area                   *)
(* ret    the result                                                       *)
(***************************************************************************)
Loader ==
  [by : {"LoadFileToMem", "HBL_loadToMemory"},
   pc : {"idle", "open", "end", "start", "size", "read", "copy", "close", "done"},
   f : Files, known : BOOLEAN, size : 0..MaxSize, done : 0..MaxSize, buf : Seq(Bytes),
   elf : Seq(Bytes), rpx : BOOLEAN, area : 1..Len(Areas), map : Nat,
   placed : [1..Len(Areas) -> Seq(Bytes)],
   ret : -3..MaxSize]

NotLoading ==
  [by |-> "LoadFileToMem", pc |-> "idle", f |-> CHOOSE f \in Files : TRUE,
   known |-> FALSE, size |-> 0, done |-> 0, buf |-> <<>>, elf |-> <<>>, rpx |-> FALSE,
   area |-> 1, map |-> 0, placed |-> [a \in 1..Len(Areas) |-> <<>>], ret |-> 0]

lvars == <<table, priv, file, iter, content, call, fault, ld>>

Step(to) == ld' = [ld EXCEPT !.pc = to]
Answered(pc) == ld.pc = pc /\ ~call.on
DeviceIdle == UNCHANGED <<table, priv, file, iter, content, call, fault>>

-----------------------------------------------------------------------------
(* The loader is called; its first call opens the file.                    *)
Load(by, f) ==
  /\ ld.pc \in {"idle", "done"}
  /\ EnterOpen(f, "r")
  /\ ld' = [NotLoading EXCEPT !.by = by, !.pc = "open", !.f = f]

OpenFailed ==
  /\ Answered("open") /\ call.ret = Error
  /\ ld' = [ld EXCEPT !.pc = "done", !.ret = -1]
  /\ DeviceIdle

(* The file's size is where its end is.                                    *)
SeekEnd ==
  /\ Answered("open") /\ call.ret = OK
  /\ Seek(ld.f, "END", 0)
  /\ Step("end")

(* When that seek fails, lseek() says -1, which as a size no memory can    *)
(* hold; the stream of HBL_loadToMemory() then says it is at 0.            *)
SeekStart ==
  /\ Answered("end")
  /\ Seek(ld.f, "SET", 0)
  /\ ld' = IF call.ret = Error
             THEN [ld EXCEPT !.pc = "start"]
             ELSE [ld EXCEPT !.pc = "start", !.known = TRUE, !.size = call.ret]

(* Memory for the buffer can be had.                                       *)
Holdable == ld.known \/ ld.by = "HBL_loadToMemory"

(* Bug: without memory for the buffer LoadFileToMem() returns at once.     *)
AllocateReturns ==
  /\ Answered("start")
  /\ \/ Holdable /\ ld' = [ld EXCEPT !.pc = "read", !.buf = [i \in 1..ld.size |-> Garbage]]
     \/ ld' = [ld EXCEPT !.pc = "done", !.ret = -1]
  /\ DeviceIdle

(* The buffer, or no memory for it.  The result of the seek is not looked  *)
(* at.                                                                     *)
Allocate ==
  /\ Answered("start")
  /\ \/ Holdable /\ ld' = [ld EXCEPT !.pc = "read", !.buf = [i \in 1..ld.size |-> Garbage]]
     \/ ld' = IF ld.by = "LoadFileToMem"
                THEN [ld EXCEPT !.pc = "close", !.ret = -2]
                ELSE [ld EXCEPT !.pc = "done", !.ret = -1]
  /\ DeviceIdle

(* The blocks HBL_loadToMemory() reads are twice as large.                 *)
LoadBlock == IF ld.by = "LoadFileToMem" THEN Chunk ELSE 2 * Chunk

ReadBlock ==
  /\ Answered("read") /\ ld.done < ld.size
  /\ Read(ld.f, Smaller(LoadBlock, ld.size - ld.done))
  /\ Step("size")

(* Bug: the loop counts what it asked for.                                 *)
TakenAsAsked ==
  /\ Answered("size") /\ call.ret > 0
  /\ ld' = [ld EXCEPT !.pc = "read", !.done = @ + call.len,
                      !.buf = [i \in 1..ld.size |->
                                 IF i - ld.done \in 1..call.len THEN call.buf[i - ld.done]
                                                                ELSE ld.buf[i]]]
  /\ DeviceIdle

(* The caller's buffer takes all that the device copied into it, garbage   *)
(* included, and the loop counts what the device says it read.             *)
Taken ==
  /\ Answered("size") /\ call.ret > 0
  /\ ld' = [ld EXCEPT !.pc = "read", !.done = @ + call.ret,
                      !.buf = [i \in 1..ld.size |->
                                 IF i - ld.done \in 1..call.len THEN call.buf[i - ld.done]
                                                                ELSE ld.buf[i]]]
  /\ DeviceIdle

(* Too few bytes: -3, or -1 and the stream stays open.                     *)
ReadStopped ==
  /\ Answered("size") /\ call.ret <= 0
  /\ ld' = IF ld.by = "LoadFileToMem"
             THEN [ld EXCEPT !.pc = "close", !.ret = -3]
             ELSE [ld EXCEPT !.pc = "done", !.ret = -1]
  /\ DeviceIdle

(* All read.  HomebrewCopyMemory() takes an ELF file to the end of the     *)
(* program in one piece, and cuts an RPX file at the memory areas.         *)
AllRead ==
  /\ Answered("read") /\ ld.done = ld.size
  /\ \/ /\ ld.by = "LoadFileToMem"
        /\ ld' = [ld EXCEPT !.pc = "close", !.ret = ld.size]
     \/ /\ ld.by = "HBL_loadToMemory"
        /\ \/ /\ ld.size <= ElfRoom
              /\ ld' = [ld EXCEPT !.pc = "done", !.elf = ld.buf, !.ret = ld.size]
           \/ ld.size > ElfRoom /\ ld' = [ld EXCEPT !.pc = "done", !.ret = -1]
           \/ ld' = [ld EXCEPT !.pc = "copy", !.rpx = TRUE, !.done = 0]
  /\ DeviceIdle

(* The next memory area.                                                   *)
NextArea(l) == [l EXCEPT !.area = @ + 1, !.map = 0]

(* The rest of the buffer, or what fits into the area.                     *)
Placed(l) ==
  LET n == Smaller(l.size - l.done, Areas[l.area] - l.map)
  IN  [l EXCEPT !.placed[l.area] = @ \o SubSeq(l.buf, l.done + 1, l.done + n),
                !.map = @ + n, !.done = @ + n]

(* One turn of the loop of HomebrewCopyMemory().                           *)
CopyBlock ==
  /\ ld.pc = "copy"
  /\ LET full == ld.map >= Areas[ld.area]
     IN  ld' = IF ld.done = ld.size THEN [ld EXCEPT !.pc = "done", !.ret = ld.size]
               ELSE IF full /\ ld.area = Len(Areas) THEN [ld EXCEPT !.pc = "done", !.ret = -1]
               ELSE Placed(IF full THEN NextArea(ld) ELSE ld)
  /\ DeviceIdle

CloseFile ==
  /\ Answered("close")
  /\ EnterFile("close", ld.f)
  /\ Step("done")

-----------------------------------------------------------------------------
LoaderStep ==
  \/ OpenFailed \/ SeekEnd \/ SeekStart \/ Allocate
  \/ ReadBlock \/ Taken \/ ReadStopped \/ AllRead \/ CopyBlock \/ CloseFile

Caller == ld.pc \in {"idle", "done"}

Halted == fault # "none"

Next ==
  \/ /\ ~Halted
     /\ \/ Driver /\ UNCHANGED ld
        \/ Caller /\ Application /\ ld' = NotLoading
        \/ \E by \in {"LoadFileToMem", "HBL_loadToMemory"}, f \in Files : Load(by, f)
        \/ LoaderStep
  \/ Halted /\ UNCHANGED lvars

Init ==
  /\ SdInit
  /\ ld = NotLoading

(* The thread takes its next step; the card always answers.                *)
Spec == Init /\ [][Next]_lvars /\ WF_lvars(~Halted /\ (LoaderStep \/ (Driver /\ UNCHANGED ld)))

-----------------------------------------------------------------------------
TypeOK == SdTypeOK /\ ld \in Loader

(***************************************************************************)
(* What there is to load: the file; but HBL_loadToMemory() takes a file    *)
(* whose end the card refused to seek for an empty one.                    *)
(***************************************************************************)
Wanted == IF ld.known THEN content ELSE <<>>

(***************************************************************************)
(* When LoadFileToMem() is about to answer the size of the file, its       *)
(* buffer holds the file, whatever the seeks answered and however the      *)
(* reads were cut.                                                         *)
(***************************************************************************)
LoadedIsFile ==
  (ld.pc = "close" /\ ld.ret >= 0) => ld.buf = content

(* HBL_loadToMemory() has said that it has loaded the file.                *)
Accepted == ld.by = "HBL_loadToMemory" /\ ld.pc = "done" /\ ld.ret >= 0

(***************************************************************************)
(* Of an ELF file that HBL_loadToMemory() accepts, all is put behind the   *)
(* program, where it fits.                                                 *)
(***************************************************************************)
ElfHoldsFile ==
  (Accepted /\ ~ld.rpx) => ld.elf = Wanted /\ Len(ld.elf) <= ElfRoom

(***************************************************************************)
(* HomebrewCopyMemory() cuts an RPX file into one piece for each memory    *)
(* area, in order and within its size.  What it has copied is the piece of *)
(* the file on the card; a file it accepts ends in the last one, and one   *)
(* it refuses does not fit although every area is full.                    *)
(***************************************************************************)
Ends == Len(Areas) + 1

Cuts == [1..Ends -> 0..Len(Wanted)]

Piece(cut, a) == SubSeq(Wanted, cut[a] + 1, cut[a + 1])

AreasHoldFile ==
  ld.rpx =>
    \E cut \in Cuts :
      /\ cut[1] = 0
      /\ \A a \in 1..Len(Areas) :
           cut[a + 1] - cut[a] \in 0..Areas[a] /\ ld.placed[a] = Piece(cut, a)
      /\ ld.pc = "done" /\ ld.ret >= 0 => cut[Ends] = Len(Wanted)
      /\ ld.pc = "done" /\ ld.ret < 0 =>
           cut[Ends] < Len(Wanted) /\ \A a \in 1..Len(Areas) : cut[a + 1] - cut[a] = Areas[a]

(***************************************************************************)
(* Whichever function loads a file, what it leaves in its buffer, behind   *)
(* the program or in the memory areas is the file on the card, or nothing  *)
(* when the card refused to seek for the end of HBL_loadToMemory()'s file. *)
(***************************************************************************)
BuffersHoldFile == LoadedIsFile /\ ElfHoldsFile /\ AreasHoldFile

(***************************************************************************)
(* A loader returns: each read() that delivers something brings it nearer  *)
(* to the end, and one that delivers nothing ends the loop.                *)
(***************************************************************************)
LoaderReturns == ~Caller ~> (Caller \/ Halted)

(***************************************************************************)
(* LoadFileToMem() leaves no file open, on any of its error paths.         *)
(***************************************************************************)
Loading(f) == ~Caller /\ ld.by = "LoadFileToMem" /\ ld.f = f /\ IsOpen(f)

FileClosed == \A f \in Files : Loading(f) ~> (~IsOpen(f) \/ Halted)

(***************************************************************************)
(* A loader ends, and LoadFileToMem() with its file closed.                *)
(***************************************************************************)
LoaderEnds == LoaderReturns /\ FileClosed

=============================================================================
