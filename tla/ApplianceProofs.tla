-------------------------- MODULE ApplianceProofs --------------------------
(***************************************************************************)
(* What is proved of modules Console and Appliance, for screens, datagrams *)
(* and texts of any length, any memory for lines and any volumes.          *)
(***************************************************************************)
EXTENDS Appliance, FiniteSetTheorems, SequenceTheorems, TLAPS

(***************************************************************************)
(* The invariant of the proof, by the variable it is about.                *)
(***************************************************************************)
Starting == {"import", "iosu"}
Unserved == {"import", "iosu", "mount", "console", "logging", "listen"}
Silent   == {"logging_deinit", "unmount", "iosu_close", "exit", "ended"}
Unlogged == Silent \ {"logging_deinit"}

(* MountsAgree and its like, of any record.                                *)
SystemOk(s) ==
  /\ s \in System
  /\ s.card => s.fs_mounted /\ ~ReadAsInt(s)
  /\ s.fsa => s.fs_mounted /\ ReadAsInt(s) /\ s.iosu # "closed"
  /\ s.vols # {} => s.fsa
  /\ s.mcp <=> s.iosu = "mcp"
  /\ s.iosuhaxMount <=> s.iosu # "closed"

(* The flag that chose the way in agrees with how IOSUHAX is open, nothing *)
(* is mounted before the first call, and all is given back at the end.     *)
SystemInv ==
  /\ SystemOk(sys)
  /\ pc \in Starting => sys.iosu = "closed"
  /\ pc \in Starting \union {"mount", "iosu_close", "exit", "ended"} => ~sys.fs_mounted
  /\ pc \in {"exit", "ended"} => sys.iosu = "closed"

(* Lines in memory and rows go together until console_deinit() freed all.  *)
ConsoleInv ==
  /\ con \in Terminal
  /\ ~con.bad
  /\ pc \notin Closing => RowsOwnLines(con) /\ ShowsLastLines(con)
  /\ pc \in Closing => \A s \in Strings : con.text[s] = NoLine

(* The place in the text is what was sent of it, and the lock is held for  *)
(* as long as there is a text.                                             *)
LoggerInv(l) ==
  /\ l \in Logger
  /\ SentInOrder(l)
  /\ l.ptr = Len(l.sent) /\ l.remaining >= 0
  /\ l.lock <=> Writing(l)
  /\ ~l.cut

LogInv ==
  /\ LoggerInv(log)
  /\ pc \in Silent => log.buffered = 0
  /\ pc \in Unlogged => log.udp # "open" /\ ~Writing(log)
  /\ log.udp = "closed" => pc \in Unlogged
  /\ pc \in Unserved => log.buffered = 0 /\ ~log.dropped
  /\ log.dropped => log.udp = "none"

ButtonsInv ==
  /\ buttons \subseteq Buttons /\ down \in BOOLEAN
  /\ pc \in {"import", "iosu", "mount", "console", "logging", "listen", "serve", "input"} =>
       "HOME" \notin buttons

ApplianceInv == pc \in Calls /\ SystemInv /\ ConsoleInv /\ LogInv /\ ButtonsInv

-----------------------------------------------------------------------------
(***************************************************************************)
(* Mounting and unmounting, of any record.                                 *)
(***************************************************************************)

(* A mount goes the way the flags say, and a second one changes nothing.   *)
LEMMA MountedOk ==
  ASSUME NEW s, SystemOk(s), NEW t \in Mounted(s)
  PROVE  SystemOk(t) /\ t.iosu = s.iosu
<1>1. CASE s.fs_mounted
  BY <1>1 DEF Mounted
<1>2. CASE ~s.fs_mounted
  <2>1. s \in System /\ ~s.card /\ ~s.fsa /\ s.vols = {}
    BY <1>2 DEF SystemOk
  <2>2. CASE ReadAsInt(s)
    <3>1. PICK u \in FatMounted(s) : \E v \in FsaMounted(u) : t = [v EXCEPT !.fs_mounted = TRUE]
      BY <1>2, <2>2 DEF Mounted
    <3>2. PICK v \in FsaMounted(u) : t = [v EXCEPT !.fs_mounted = TRUE]
      BY <3>1
    <3>3. /\ u \in System /\ ReadAsInt(u) /\ ~u.card /\ ~u.fsa /\ u.vols = {}
          /\ u.iosu = s.iosu /\ u.mcp = s.mcp /\ u.iosuhaxMount = s.iosuhaxMount
      BY <2>1, <2>2, <3>1 DEF FatMounted, System, ReadAsInt
    <3>4. /\ v \in System /\ ReadAsInt(v) /\ ~v.card /\ (v.vols # {} => v.fsa)
          /\ v.fsa => v.iosu # "closed"
          /\ v.iosu = s.iosu /\ v.mcp = s.mcp /\ v.iosuhaxMount = s.iosuhaxMount
      <4>1. CASE v = u
        BY <3>3, <4>1
      <4>2. CASE v # u
        <5>1. PICK w \in SUBSET Volumes : v = [u EXCEPT !.fsa = TRUE, !.vols = @ \union w]
          BY <4>2 DEF FsaMounted
        <5>2. u.iosu # "closed"
          BY <4>2 DEF FsaMounted
        <5>3. u.vols \union w \in SUBSET Volumes
          BY <3>3 DEF System
        <5>. QED  BY <3>3, <5>1, <5>2, <5>3 DEF System, ReadAsInt
      <4>. QED  BY <4>1, <4>2
    <3>. QED  BY <3>2, <3>4 DEF SystemOk, System, ReadAsInt
  <2>3. CASE ~ReadAsInt(s)
    <3>1. PICK u \in {s, [s EXCEPT !.card = TRUE]} : t = [u EXCEPT !.fs_mounted = TRUE]
      BY <1>2, <2>3 DEF Mounted
    <3>. QED  BY <2>1, <2>3, <3>1 DEF SystemOk, System, ReadAsInt
  <2>. QED  BY <2>2, <2>3
<1>. QED  BY <1>1, <1>2

(* Unmounting takes away what the same flags have mounted.                 *)
LEMMA UnmountedOk ==
  ASSUME NEW s, SystemOk(s), NEW t \in Unmounted(s)
  PROVE  SystemOk(t) /\ t.iosu = s.iosu /\ ~t.fs_mounted
<1>1. CASE ~s.fs_mounted
  BY <1>1 DEF Unmounted
<1>2. CASE s.fs_mounted /\ ReadAsInt(s)
  <2>1. PICK f \in {FALSE, s.fat} :
           t = [s EXCEPT !.fs_mounted = FALSE, !.fat = f, !.fsa = FALSE,
                         !.vols = IF s.fsa THEN {} ELSE @]
    BY <1>2 DEF Unmounted
  <2>2. s \in System /\ ~s.card /\ (s.vols # {} => s.fsa)
    BY <1>2 DEF SystemOk
  <2>. QED  BY <1>2, <2>1, <2>2 DEF SystemOk, System, ReadAsInt
<1>3. CASE s.fs_mounted /\ ~ReadAsInt(s)
  <2>1. t = [s EXCEPT !.fs_mounted = FALSE, !.card = FALSE]
    BY <1>3 DEF Unmounted
  <2>. QED  BY <1>3, <2>1 DEF SystemOk, System, ReadAsInt
<1>. QED  BY <1>1, <1>2, <1>3

LEMMA RemountedOk ==
  ASSUME NEW s, SystemOk(s), NEW t \in Remounted(s)
  PROVE  SystemOk(t) /\ t.iosu = s.iosu
<1>1. PICK u \in Unmounted(s) : t \in Mounted(u)
  BY DEF Remounted
<1>. QED  BY <1>1, UnmountedOk, MountedOk

-----------------------------------------------------------------------------
LEMMA SystemStep ==
  ASSUME pc \in Calls, SystemInv, [Next]_vars
  PROVE  pc' \in Calls /\ SystemInv'
<1>. USE DEF SystemInv, Starting
<1>1. CASE InitFunctionPointers
  BY <1>1 DEF InitFunctionPointers, From, Calls
<1>2. CASE InitIosuhax
  <2>1. /\ SystemOk(sys) /\ sys.iosu = "closed" /\ ~sys.fs_mounted
        /\ pc' = "mount"
    BY <1>2 DEF InitIosuhax, From
  <2>2. SystemOk(sys') /\ ~sys'.fs_mounted
    <3>1. CASE sys' = sys
      BY <2>1, <3>1
    <3>2. CASE sys' = [sys EXCEPT !.iosu = "mcp", !.mcp = TRUE, !.iosuhaxMount = TRUE]
      BY <2>1, <3>2 DEF SystemOk, System, ReadAsInt
    <3>3. CASE sys' = [sys EXCEPT !.iosu = "own", !.iosuhaxMount = TRUE]
      BY <2>1, <3>3 DEF SystemOk, System, ReadAsInt
    <3>. QED  BY <1>2, <3>1, <3>2, <3>3 DEF InitIosuhax, MCPHookOpen
  <2>. QED  BY <2>1, <2>2 DEF Calls
<1>3. CASE MountFilesystems
  <2>1. SystemOk(sys') /\ pc' = "console"
    BY <1>3, MountedOk DEF MountFilesystems, From
  <2>. QED  BY <2>1 DEF Calls
<1>4. CASE HandleInput
  <2>1. sys' = sys \/ sys' \in Remounted(sys)
    BY <1>4 DEF HandleInput, Command
  <2>2. pc' \in {"shutdown", "serve"}
    BY <1>4 DEF HandleInput, From
  <2>3. SystemOk(sys')
    BY <2>1, RemountedOk
  <2>. QED  BY <2>2, <2>3 DEF Calls
<1>5. CASE UnmountFilesystems
  <2>1. SystemOk(sys') /\ ~sys'.fs_mounted /\ pc' = "iosu_close"
    BY <1>5, UnmountedOk DEF UnmountFilesystems, From
  <2>. QED  BY <2>1 DEF Calls
<1>6. CASE ShutdownIosuhax
  <2>1. SystemOk(sys) /\ ~sys.fs_mounted /\ pc' = "exit"
    BY <1>6 DEF ShutdownIosuhax, From
  <2>2. SystemOk(sys') /\ ~sys'.fs_mounted /\ sys'.iosu = "closed"
    <3>1. CASE sys.iosuhaxMount
      <4>1. sys' = [sys EXCEPT !.iosu = "closed", !.mcp = FALSE, !.iosuhaxMount = FALSE]
        BY <1>6, <3>1 DEF ShutdownIosuhax
      <4>. QED  BY <2>1, <3>1, <4>1 DEF SystemOk, System, ReadAsInt
    <3>2. CASE ~sys.iosuhaxMount
      BY <1>6, <2>1, <3>2 DEF ShutdownIosuhax, SystemOk
    <3>. QED  BY <3>1, <3>2
  <2>. QED  BY <2>1, <2>2 DEF Calls
<1>7. CASE ConsoleInit \/ LoggingInit \/ CreateServerSocket \/ Serve
  BY <1>7 DEF ConsoleInit, LoggingInit, CreateServerSocket, Serve, From, Calls
<1>8. CASE FtpDeinit \/ ConsoleDeinit \/ Fflush \/ LoggingDeinit
  BY <1>8 DEF FtpDeinit, ConsoleDeinit, Fflush, LoggingDeinit, From, Calls
<1>9. CASE Exit
  BY <1>9 DEF Exit, From, Calls
<1>10. CASE Flush \/ SendDatagram \/ UNCHANGED vars
  BY <1>10 DEF Flush, SendDatagram, vars
<1>. QED  BY <1>1, <1>2, <1>3, <1>4, <1>5, <1>6, <1>7, <1>8, <1>9, <1>10 DEF Next

LEMMA ButtonsStep ==
  ASSUME pc \in Calls, ButtonsInv, [Next]_vars
  PROVE  ButtonsInv'
<1>. USE DEF ButtonsInv
<1>1. CASE HandleInput
  <2>1. PICK held \in SUBSET Buttons :
           /\ buttons' \in {held, buttons}
           /\ LET cmd == IF buttons' = held THEN Command(held) ELSE "none"
              IN  /\ pc' = IF GoesDown(cmd) THEN "shutdown" ELSE "serve"
                  /\ down' = GoesDown(cmd)
    BY <1>1 DEF HandleInput, From
  <2>2. "HOME" \notin buttons
    BY <1>1 DEF HandleInput, From
  <2>3. "HOME" \in buttons' => Command(held) = "exit" /\ buttons' = held
    BY <2>1, <2>2 DEF Command, Pressed
  <2>4. "HOME" \in buttons' => pc' = "shutdown"
    BY <2>1, <2>3 DEF GoesDown
  <2>5. buttons' \subseteq Buttons /\ down' \in BOOLEAN
    BY <2>1 DEF GoesDown
  <2>6. pc' \in {"shutdown", "serve"}
    BY <2>1
  <2>. QED  BY <2>4, <2>5, <2>6
<1>2. CASE InitFunctionPointers \/ InitIosuhax \/ MountFilesystems \/ ConsoleInit
  BY <1>2 DEF InitFunctionPointers, InitIosuhax, MountFilesystems, ConsoleInit, From
<1>3. CASE LoggingInit \/ CreateServerSocket \/ Serve \/ Flush \/ SendDatagram
  BY <1>3 DEF LoggingInit, CreateServerSocket, Serve, Flush, SendDatagram, From
<1>4. CASE FtpDeinit \/ ConsoleDeinit \/ Fflush \/ LoggingDeinit
  BY <1>4 DEF FtpDeinit, ConsoleDeinit, Fflush, LoggingDeinit, From
<1>5. CASE UnmountFilesystems \/ ShutdownIosuhax \/ Exit \/ UNCHANGED vars
  BY <1>5 DEF UnmountFilesystems, ShutdownIosuhax, Exit, From, vars
<1>. QED  BY <1>1, <1>2, <1>3, <1>4, <1>5 DEF Next

-----------------------------------------------------------------------------
(***************************************************************************)
(* The logger, of any record.                                              *)
(***************************************************************************)

(* logging_write() starts with a whole text and at its start, or there is  *)
(* nothing to write.                                                       *)
LEMMA WriteOutOk ==
  ASSUME NEW l, LoggerInv(l), ~Writing(l)
  PROVE  /\ LoggerInv(WriteOut(l))
         /\ WriteOut(l).buffered = 0 /\ WriteOut(l).udp = l.udp
         /\ WriteOut(l).dropped => l.dropped \/ l.udp # "open"
         /\ l.udp # "open" => ~Writing(WriteOut(l))
<1>. l \in Logger
  BY DEF LoggerInv
<1>1. CASE l.buffered = 0
  BY <1>1 DEF WriteOut
<1>2. CASE l.buffered # 0 /\ l.udp = "open"
  <2>. PICK k : k = WriteOut(l)
    OBVIOUS
  <2>1. k = [l EXCEPT !.lock = TRUE, !.len = l.buffered, !.remaining = l.buffered, !.ptr = 0,
                      !.sent = <<>>, !.buffered = 0]
    BY <1>2 DEF WriteOut
  <2>2. l.buffered \in 1..MaxText /\ MaxText \in Nat /\ <<>> \in Seq(1..MaxText)
    BY <1>2, ConsoleAssumption DEF Logger
  <2>3. /\ k \in Logger /\ k.lock /\ k.len = l.buffered /\ k.remaining = l.buffered
        /\ k.ptr = 0 /\ k.sent = <<>> /\ k.buffered = 0 /\ k.udp = l.udp
        /\ k.dropped = l.dropped /\ k.cut = l.cut
    <3>1. l.udp \in {"none", "open", "closed"}
      BY DEF LoggerInv, Logger
    <3>2. /\ k.lock = TRUE /\ k.len = l.buffered /\ k.remaining = l.buffered
          /\ k.ptr = 0 /\ k.sent = <<>> /\ k.buffered = 0 /\ k.udp = l.udp
          /\ k.dropped = l.dropped /\ k.cut = l.cut
      BY <2>1, <3>1 DEF Logger
    <3>3. k = [udp |-> k.udp, lock |-> k.lock, buffered |-> k.buffered, len |-> k.len,
               ptr |-> k.ptr, remaining |-> k.remaining, sent |-> k.sent,
               dropped |-> k.dropped, cut |-> k.cut]
      BY <2>1 DEF Logger
    <3>4. l.buffered \in 0..MaxText /\ l.buffered \in -MaxText..MaxText /\ 0 \in 0..MaxText
      BY <2>2
    <3>5. k \in Logger
      BY <2>2, <3>1, <3>2, <3>3, <3>4 DEF Logger
    <3>. QED  BY <3>2, <3>5
  <2>4. SentInOrder(k)
    <3>1. Len(k.sent) = 0 /\ k.sent = [i \in 1..0 |-> i]
      BY <2>3
    <3>. QED  BY <2>2, <2>3, <3>1 DEF SentInOrder
  <2>5. ~l.cut /\ Len(<<>>) = 0
    BY DEF LoggerInv
  <2>. QED  BY <1>2, <2>2, <2>3, <2>4, <2>5 DEF LoggerInv, Writing
<1>3. CASE l.buffered # 0 /\ l.udp # "open"
  <2>. PICK k : k = WriteOut(l)
    OBVIOUS
  <2>1. k = [l EXCEPT !.buffered = 0, !.dropped = TRUE]
    BY <1>3 DEF WriteOut
  <2>2. /\ k \in Logger /\ k.cut = l.cut
        /\ k.buffered = 0 /\ k.udp = l.udp
        /\ k.lock = l.lock /\ k.len = l.len /\ k.remaining = l.remaining /\ k.ptr = l.ptr
        /\ k.sent = l.sent
    <3>1. 0 \in 0..MaxText
      BY ConsoleAssumption
    <3>. QED  BY <2>1, <3>1 DEF Logger
  <2>. QED  BY <1>3, <2>2 DEF LoggerInv, Writing, SentInOrder
<1>. QED  BY <1>1, <1>2, <1>3 DEF Logger

(* A datagram follows where the last one ended.                            *)
LEMMA SentOnOk ==
  ASSUME NEW l, LoggerInv(l), Writing(l), l.remaining > 0, NEW n \in 1..DatagramOf(l)
  PROVE  /\ LoggerInv(SentOn(l, n)) /\ Writing(SentOn(l, n))
         /\ SentOn(l, n).buffered = l.buffered /\ SentOn(l, n).udp = l.udp
         /\ SentOn(l, n).dropped = l.dropped
<1>. DEFINE more == [i \in 1..n |-> l.ptr + i]
<1>. PICK k : k = SentOn(l, n)
  OBVIOUS
<1>1. /\ l \in Logger /\ l.sent \in Seq(1..MaxText) /\ Len(l.sent) \in Nat
      /\ l.ptr = Len(l.sent) /\ l.remaining \in Int /\ l.len \in 1..MaxText
      /\ Len(l.sent) + l.remaining = l.len /\ MaxText \in Nat
      /\ l.lock = TRUE /\ ~l.cut
  BY ConsoleAssumption DEF LoggerInv, Logger, SentInOrder, Writing
<1>2. n \in Nat /\ 1 <= n /\ n <= l.remaining
  BY <1>1, ConsoleAssumption DEF DatagramOf
<1>3. more \in [1..n -> 1..MaxText] /\ more \in Seq(1..MaxText) /\ Len(more) = n
  <2>1. \A i \in 1..n : l.ptr + i \in 1..MaxText
    BY <1>1, <1>2
  <2>2. more \in [1..n -> 1..MaxText]
    BY <2>1
  <2>3. more \in Seq(1..MaxText)
    BY <1>2, <2>2, SeqDef
  <2>. QED  BY <1>2, <2>2, <2>3
<1>. HIDE DEF more
<1>4. /\ k.sent = l.sent \o more /\ k.remaining = l.remaining - n /\ k.ptr = l.ptr + n
      /\ k.len = l.len /\ k.lock = l.lock /\ k.dropped = l.dropped
      /\ k.cut = l.cut
      /\ k.buffered = l.buffered /\ k.udp = l.udp
  BY <1>1 DEF SentOn, Logger, more
<1>5. /\ k.sent \in Seq(1..MaxText) /\ Len(k.sent) = Len(l.sent) + n
      /\ \A i \in 1..Len(l.sent) + n :
           k.sent[i] = IF i <= Len(l.sent) THEN l.sent[i] ELSE more[i - Len(l.sent)]
  <2>1. /\ l.sent \o more \in Seq(1..MaxText)
        /\ Len(l.sent \o more) = Len(l.sent) + Len(more)
        /\ \A i \in 1..Len(l.sent) + Len(more) :
             (l.sent \o more)[i] = IF i <= Len(l.sent) THEN l.sent[i] ELSE more[i - Len(l.sent)]
    <3>1. l.sent \in Seq(1..MaxText) /\ more \in Seq(1..MaxText)
      BY <1>1, <1>3
    <3>. QED  BY <3>1, ConcatProperties, ZenonT(30)
  <2>. QED  BY <1>3, <1>4, <2>1, Zenon
<1>6. k \in Logger
  <2>1. k = [l EXCEPT !.sent = l.sent \o more, !.remaining = l.remaining - n, !.ptr = l.ptr + n]
    BY DEF SentOn, more
  <2>2. l.sent \o more \in Seq(1..MaxText)
    BY <1>4, <1>5
  <2>3. l.remaining - n \in -MaxText..MaxText /\ l.ptr + n \in 0..MaxText
    BY <1>1, <1>2
  <2>. QED  BY <1>1, <2>1, <2>2, <2>3 DEF Logger
<1>7. k.sent = [i \in 1..Len(k.sent) |-> i]
  <2>1. \A i \in 1..Len(l.sent) : l.sent[i] = i
    BY DEF LoggerInv, SentInOrder
  <2>2. ASSUME NEW i \in 1..Len(k.sent)
        PROVE  k.sent[i] = i
    <3>1. i \in 1..Len(l.sent) + n
      BY <1>5
    <3>2. CASE i <= Len(l.sent)
      <4>1. i \in 1..Len(l.sent)
        BY <1>1, <1>2, <3>1, <3>2
      <4>2. k.sent[i] = l.sent[i]
        BY <1>5, <3>1, <3>2
      <4>. QED  BY <2>1, <4>1, <4>2
    <3>3. CASE ~(i <= Len(l.sent))
      <4>1. k.sent[i] = more[i - Len(l.sent)]
        BY <1>5, <3>1, <3>3
      <4>2. i - Len(l.sent) \in 1..n
        BY <1>1, <1>2, <3>1, <3>3
      <4>3. more[i - Len(l.sent)] = l.ptr + (i - Len(l.sent))
        BY <4>2 DEF more
      <4>. QED  BY <1>1, <3>1, <4>1, <4>3
    <3>. QED  BY <3>2, <3>3
  <2>3. k.sent \in [1..Len(k.sent) -> 1..MaxText]
    BY <1>5, LenProperties
  <2>. QED  BY <2>2, <2>3
<1>8. SentInOrder(k)
  <2>1. PICK x, y : x = Len(l.sent) /\ y = l.remaining
    OBVIOUS
  <2>2. x \in Nat /\ y \in Int /\ x + y = k.len
    BY <1>1, <1>4, <2>1
  <2>3. Len(k.sent) = x + n /\ k.remaining = y - n
    BY <1>4, <1>5, <2>1
  <2>4. (x + n) + (y - n) = x + y
    BY <1>2, <2>2
  <2>5. Len(k.sent) + k.remaining = k.len
    BY <2>2, <2>3, <2>4
  <2>. QED  BY <1>7, <2>5, Zenon DEF SentInOrder
<1>. QED  BY <1>1, <1>2, <1>4, <1>5, <1>6, <1>8 DEF LoggerInv, Writing

(* The text ends when nothing of it is left, or else sendto() has failed.  *)
LEMMA WrittenOk ==
  ASSUME NEW l, LoggerInv(l), NEW k,
         (~(l.remaining > 0) /\ k = Written(l)) \/ k = Refused(l)
  PROVE  /\ LoggerInv(k) /\ ~Writing(k)
         /\ k.buffered = l.buffered /\ k.udp = l.udp /\ k.dropped = l.dropped
<1>1. /\ l \in Logger /\ MaxText \in Nat /\ <<>> \in Seq(1..MaxText) /\ Len(<<>>) = 0
      /\ l.cut = FALSE /\ l.remaining >= 0 /\ Len(l.sent) + l.remaining = l.len
  BY ConsoleAssumption DEF LoggerInv, Logger, SentInOrder
<1>2. PICK w : w = Written(l)
  OBVIOUS
<1>3. PICK c \in BOOLEAN : c = (l.cut \/ Len(l.sent) < l.len)
  OBVIOUS
<1>4. /\ w \in Logger
      /\ w.lock = FALSE /\ w.len = 0 /\ w.remaining = 0 /\ w.ptr = 0 /\ w.sent = <<>>
      /\ w.buffered = l.buffered /\ w.udp = l.udp /\ w.dropped = l.dropped /\ w.cut = c
  <2>1. w = [l EXCEPT !.lock = FALSE, !.len = 0, !.remaining = 0, !.ptr = 0, !.sent = <<>>,
                      !.cut = c]
    BY <1>1, <1>2, <1>3 DEF Written, Logger
  <2>2. 0 \in 0..MaxText /\ 0 \in -MaxText..MaxText
    BY <1>1
  <2>. QED  BY <1>1, <2>1, <2>2 DEF Logger
<1>5. /\ k \in Logger
      /\ k.lock = FALSE /\ k.len = 0 /\ k.remaining = 0 /\ k.ptr = 0 /\ k.sent = <<>>
      /\ k.buffered = l.buffered /\ k.udp = l.udp /\ k.dropped = l.dropped /\ k.cut = FALSE
  <2>1. CASE ~(l.remaining > 0) /\ k = Written(l)
    <3>1. PICK x \in Nat, y \in Int, z \in Nat : x = Len(l.sent) /\ y = l.remaining /\ z = l.len
      BY <1>1 DEF Logger
    <3>2. ~(x < z)
      <4>1. ~(y > 0) /\ y >= 0 /\ x + y = z
        BY <1>1, <2>1, <3>1
      <4>. QED  BY <4>1
    <3>3. c = FALSE
      BY <1>1, <1>3, <3>1, <3>2
    <3>. QED  BY <1>2, <1>4, <2>1, <3>3
  <2>2. CASE k = Refused(l)
    <3>1. k = [w EXCEPT !.cut = FALSE]
      BY <1>1, <1>2, <2>2 DEF Refused
    <3>. QED  BY <1>4, <3>1 DEF Logger
  <2>. QED  BY <2>1, <2>2
<1>6. k.sent = [i \in 1..0 |-> i]
  BY <1>5
<1>. QED  BY <1>1, <1>5, <1>6 DEF LoggerInv, SentInOrder, Writing

(* The fields that LoggerInv does not relate may change.                   *)
LEMMA LoggerFrame ==
  ASSUME NEW l, LoggerInv(l), NEW n \in 0..MaxText, NEW u \in {"none", "open", "closed"}
  PROVE  /\ LoggerInv([l EXCEPT !.buffered = n]) /\ LoggerInv([l EXCEPT !.udp = u])
         /\ Writing([l EXCEPT !.buffered = n]) = Writing(l)
         /\ Writing([l EXCEPT !.udp = u]) = Writing(l)
         /\ [l EXCEPT !.buffered = n].dropped = l.dropped
         /\ [l EXCEPT !.udp = u].dropped = l.dropped
<1>1. l \in Logger
  BY DEF LoggerInv
<1>2. [l EXCEPT !.buffered = n] \in Logger /\ [l EXCEPT !.udp = u] \in Logger
  BY <1>1 DEF Logger
<1>. QED  BY <1>1, <1>2 DEF LoggerInv, SentInOrder, Writing, Logger

LEMMA LogStep ==
  ASSUME pc \in Calls, LogInv, [Next]_vars
  PROVE  LogInv'
<1>. USE DEF LogInv, Silent, Unlogged, Unserved
<1>. log \in Logger /\ LoggerInv(log)
  BY DEF LoggerInv
<1>1. CASE LoggingInit
  <2>1. pc = "logging" /\ pc' = "listen" /\ log' \in {log, [log EXCEPT !.udp = "open"]}
    BY <1>1 DEF LoggingInit, From
  <2>2. LoggerInv(log') /\ log'.buffered = log.buffered /\ log'.dropped = log.dropped
        /\ (log'.udp = log.udp \/ log'.udp = "open")
    <3>1. CASE log' = [log EXCEPT !.udp = "open"]
      <4>1. 0 \in 0..MaxText
        BY ConsoleAssumption
      <4>. QED  BY <3>1, <4>1, LoggerFrame DEF Logger
    <3>. QED  BY <2>1, <3>1
  <2>. QED  BY <2>1, <2>2
<1>2. CASE Serve
  <2>1. pc = "serve" /\ pc' = "input"
    BY <1>2 DEF Serve, From
  <2>2. PICK n \in log.buffered..MaxText : log' = [log EXCEPT !.buffered = n]
    BY <1>2 DEF Serve
  <2>3. n \in 0..MaxText
    BY ConsoleAssumption DEF Logger
  <2>4. LoggerInv(log') /\ log'.udp = log.udp /\ log'.dropped = log.dropped
    BY <2>2, <2>3, LoggerFrame DEF Logger
  <2>. QED  BY <2>1, <2>4
<1>3. CASE Flush
  <2>1. pc \in {"serve", "input"} /\ pc' = pc /\ ~Writing(log) /\ log' = WriteOut(log)
    BY <1>3 DEF Flush
  <2>2. /\ LoggerInv(log') /\ log'.udp = log.udp
        /\ log'.dropped => log.dropped \/ log.udp # "open"
    BY <2>1, WriteOutOk
  <2>3. log.udp \in {"none", "open", "closed"}
    BY DEF Logger
  <2>. QED  BY <2>1, <2>2, <2>3
<1>4. CASE SendDatagram
  <2>1. Writing(log) /\ pc' = pc
    BY <1>4 DEF SendDatagram
  <2>2. /\ LoggerInv(log') /\ log'.udp = log.udp /\ log'.buffered = log.buffered
        /\ log'.dropped = log.dropped
    <3>1. CASE (log.remaining > 0 /\ log' = Refused(log)) \/ (~(log.remaining > 0) /\ log' = Written(log))
      BY <3>1, WrittenOk
    <3>2. CASE log.remaining > 0 /\ \E n \in 1..DatagramOf(log) : log' = SentOn(log, n)
      BY <2>1, <3>2, SentOnOk
    <3>. QED  BY <1>4, <3>1, <3>2 DEF SendDatagram
  <2>. QED  BY <2>1, <2>2
<1>5. CASE Fflush
  <2>1. pc = "fflush" /\ pc' = "logging_deinit" /\ ~Writing(log) /\ log' = WriteOut(log)
    BY <1>5 DEF Fflush, From
  <2>2. /\ LoggerInv(log') /\ log'.udp = log.udp /\ log'.buffered = 0
        /\ log'.dropped => log.dropped \/ log.udp # "open"
    BY <2>1, WriteOutOk
  <2>3. log.udp \in {"none", "open", "closed"}
    BY DEF Logger
  <2>. QED  BY <2>1, <2>2, <2>3
<1>6. CASE LoggingDeinit
  <2>1. /\ pc = "logging_deinit" /\ pc' = "unmount" /\ ~Writing(log)
        /\ log' = IF log.udp = "open" THEN [log EXCEPT !.udp = "closed"] ELSE log
    BY <1>6 DEF LoggingDeinit, From
  <2>2. LoggerInv(log') /\ ~Writing(log') /\ log'.udp # "open" /\ log'.buffered = 0
        /\ (log'.dropped => log'.udp = "none")
    BY <2>1, ConsoleAssumption, LoggerFrame DEF Logger
  <2>. QED  BY <2>1, <2>2
<1>7. CASE Exit
  <2>1. pc = "exit" /\ pc' = "ended" /\ log' = WriteOut(log)
    BY <1>7 DEF Exit, From
  <2>2. log.buffered = 0
    BY <2>1
  <2>3. log' = log
    BY <2>1, <2>2 DEF WriteOut
  <2>. QED  BY <2>1, <2>3
<1>8. CASE InitFunctionPointers \/ InitIosuhax \/ MountFilesystems \/ ConsoleInit
  BY <1>8 DEF InitFunctionPointers, InitIosuhax, MountFilesystems, ConsoleInit, From
<1>9. CASE CreateServerSocket \/ HandleInput \/ FtpDeinit \/ ConsoleDeinit
  BY <1>9 DEF CreateServerSocket, HandleInput, FtpDeinit, ConsoleDeinit, From
<1>10. CASE UnmountFilesystems \/ ShutdownIosuhax \/ UNCHANGED vars
  BY <1>10 DEF UnmountFilesystems, ShutdownIosuhax, From, vars
<1>. QED  BY <1>1, <1>2, <1>3, <1>4, <1>5, <1>6, <1>7, <1>8, <1>9, <1>10 DEF Next

-----------------------------------------------------------------------------
(***************************************************************************)
(* The rows and the lines.  RowsOwnLines counts the rows that point at a   *)
(* block; the proofs say the same without a count.                         *)
(***************************************************************************)
RowsApart(c) ==
  /\ \A i \in 1..TvLines, k \in 1..TvLines : c.tv[i] # Null /\ i # k => c.tv[i] # c.tv[k]
  /\ \A i \in 1..PadLines, k \in 1..PadLines : c.pad[i] # Null /\ i # k => c.pad[i] # c.pad[k]
  /\ \A i \in 1..TvLines, k \in 1..PadLines : c.tv[i] # Null => c.tv[i] # c.pad[k]

RowsInMemory(c) ==
  /\ \A i \in 1..TvLines : c.tv[i] # Null => c.text[c.tv[i]] # NoLine
  /\ \A i \in 1..PadLines : c.pad[i] # Null => c.text[c.pad[i]] # NoLine

LinesInRows(c) ==
  \A s \in Strings : c.text[s] # NoLine =>
    (\E i \in 1..TvLines : c.tv[i] = s) \/ (\E i \in 1..PadLines : c.pad[i] = s)

(* The rows of a block are finitely many, and counted by one or by none.   *)
LEMMA UsesCounted ==
  ASSUME NEW c, NEW s
  PROVE  /\ Uses(c, s) = 0 <=> TvRows(c, s) = {} /\ PadRows(c, s) = {}
         /\ Uses(c, s) = 1 <=>
              \/ (\E i : TvRows(c, s) = {i}) /\ PadRows(c, s) = {}
              \/ TvRows(c, s) = {} /\ (\E i : PadRows(c, s) = {i})
         /\ Uses(c, s) \in Nat
<1>1. /\ IsFiniteSet(TvRows(c, s)) /\ IsFiniteSet(PadRows(c, s))
      /\ Cardinality(TvRows(c, s)) \in Nat /\ Cardinality(PadRows(c, s)) \in Nat
  <2>1. IsFiniteSet(1..TvLines) /\ IsFiniteSet(1..PadLines)
    BY ConsoleAssumption, FS_Interval
  <2>2. TvRows(c, s) \in SUBSET (1..TvLines) /\ PadRows(c, s) \in SUBSET (1..PadLines)
    BY DEF TvRows, PadRows
  <2>3. IsFiniteSet(TvRows(c, s)) /\ IsFiniteSet(PadRows(c, s))
    BY <2>1, <2>2, FS_Subset
  <2>. QED  BY <2>3, FS_CardinalityType
<1>2. /\ Cardinality(TvRows(c, s)) = 0 <=> TvRows(c, s) = {}
      /\ Cardinality(PadRows(c, s)) = 0 <=> PadRows(c, s) = {}
  BY <1>1, FS_EmptySet
<1>3. /\ Cardinality(TvRows(c, s)) = 1 <=> \E i : TvRows(c, s) = {i}
      /\ Cardinality(PadRows(c, s)) = 1 <=> \E i : PadRows(c, s) = {i}
  BY <1>1, FS_Singleton
<1>4. /\ Uses(c, s) = 0 <=> Cardinality(TvRows(c, s)) = 0 /\ Cardinality(PadRows(c, s)) = 0
      /\ Uses(c, s) = 1 <=>
           \/ Cardinality(TvRows(c, s)) = 1 /\ Cardinality(PadRows(c, s)) = 0
           \/ Cardinality(TvRows(c, s)) = 0 /\ Cardinality(PadRows(c, s)) = 1
      /\ Uses(c, s) \in Nat
  BY <1>1 DEF Uses
<1>. QED  BY <1>2, <1>3, <1>4, Zenon

LEMMA RowsCounted ==
  ASSUME NEW c \in Terminal
  PROVE  RowsOwnLines(c) <=> ~c.bad /\ RowsApart(c) /\ RowsInMemory(c) /\ LinesInRows(c)
<1>1. /\ c.tv \in [1..TvLines -> Strings \union {Null}]
      /\ c.pad \in [1..PadLines -> Strings \union {Null}]
  BY DEF Terminal
<1>2. ASSUME RowsOwnLines(c)
      PROVE  ~c.bad /\ RowsApart(c) /\ RowsInMemory(c) /\ LinesInRows(c)
  <2>1. ~c.bad
    BY <1>2 DEF RowsOwnLines
  <2>2. ASSUME NEW s \in Strings, c.text[s] = NoLine
        PROVE  TvRows(c, s) = {} /\ PadRows(c, s) = {}
    BY <1>2, <2>2, UsesCounted DEF RowsOwnLines
  <2>3. ASSUME NEW s \in Strings, c.text[s] # NoLine
        PROVE  \/ (\E i : TvRows(c, s) = {i}) /\ PadRows(c, s) = {}
               \/ TvRows(c, s) = {} /\ (\E i : PadRows(c, s) = {i})
    BY <1>2, <2>3, UsesCounted DEF RowsOwnLines
  <2>4. ASSUME NEW s \in Strings
        PROVE  /\ \A i \in TvRows(c, s), k \in TvRows(c, s) : i = k
               /\ \A i \in PadRows(c, s), k \in PadRows(c, s) : i = k
               /\ TvRows(c, s) = {} \/ PadRows(c, s) = {}
    BY <2>2, <2>3
  <2>5. RowsApart(c)
    <3>1. ASSUME NEW i \in 1..TvLines, NEW k \in 1..TvLines, c.tv[i] # Null, i # k,
                 c.tv[i] = c.tv[k]
          PROVE  FALSE
      <4>1. c.tv[i] \in Strings /\ i \in TvRows(c, c.tv[i]) /\ k \in TvRows(c, c.tv[i])
        BY <1>1, <3>1 DEF TvRows
      <4>. QED  BY <2>4, <3>1, <4>1
    <3>2. ASSUME NEW i \in 1..PadLines, NEW k \in 1..PadLines, c.pad[i] # Null, i # k,
                 c.pad[i] = c.pad[k]
          PROVE  FALSE
      <4>1. c.pad[i] \in Strings /\ i \in PadRows(c, c.pad[i]) /\ k \in PadRows(c, c.pad[i])
        BY <1>1, <3>2 DEF PadRows
      <4>. QED  BY <2>4, <3>2, <4>1
    <3>3. ASSUME NEW i \in 1..TvLines, NEW k \in 1..PadLines, c.tv[i] # Null,
                 c.tv[i] = c.pad[k]
          PROVE  FALSE
      <4>1. c.tv[i] \in Strings /\ i \in TvRows(c, c.tv[i]) /\ k \in PadRows(c, c.tv[i])
        BY <1>1, <3>3 DEF TvRows, PadRows
      <4>. QED  BY <2>4, <4>1
    <3>. QED  BY <3>1, <3>2, <3>3, Zenon DEF RowsApart
  <2>6. RowsInMemory(c)
    <3>1. ASSUME NEW i \in 1..TvLines, c.tv[i] # Null
          PROVE  c.text[c.tv[i]] # NoLine
      BY <1>1, <2>2, <3>1 DEF TvRows
    <3>2. ASSUME NEW i \in 1..PadLines, c.pad[i] # Null
          PROVE  c.text[c.pad[i]] # NoLine
      BY <1>1, <2>2, <3>2 DEF PadRows
    <3>. QED  BY <3>1, <3>2 DEF RowsInMemory
  <2>7. LinesInRows(c)
    BY <2>3 DEF LinesInRows, TvRows, PadRows
  <2>. QED  BY <2>1, <2>5, <2>6, <2>7
<1>3. ASSUME ~c.bad, RowsApart(c), RowsInMemory(c), LinesInRows(c)
      PROVE  RowsOwnLines(c)
  <2>1. ASSUME NEW s \in Strings, c.text[s] = NoLine
        PROVE  Uses(c, s) = 0
    <3>1. s # Null
      BY ConsoleAssumption
    <3>2. TvRows(c, s) = {} /\ PadRows(c, s) = {}
      BY <1>3, <2>1, <3>1 DEF RowsInMemory, TvRows, PadRows
    <3>. QED  BY <3>2, UsesCounted
  <2>2. ASSUME NEW s \in Strings, c.text[s] # NoLine
        PROVE  Uses(c, s) = 1
    <3>1. s # Null
      BY ConsoleAssumption
    <3>2. CASE \E i \in 1..TvLines : c.tv[i] = s
      <4>1. PICK i \in 1..TvLines : c.tv[i] = s
        BY <3>2
      <4>2. TvRows(c, s) = {i} /\ PadRows(c, s) = {}
        BY <1>3, <3>1, <4>1 DEF RowsApart, TvRows, PadRows
      <4>. QED  BY <4>2, UsesCounted
    <3>3. CASE \E i \in 1..PadLines : c.pad[i] = s
      <4>1. PICK i \in 1..PadLines : c.pad[i] = s
        BY <3>3
      <4>2. PadRows(c, s) = {i} /\ TvRows(c, s) = {}
        BY <1>3, <3>1, <4>1 DEF RowsApart, TvRows, PadRows
      <4>. QED  BY <4>2, UsesCounted
    <3>. QED  BY <1>3, <2>2, <3>2, <3>3 DEF LinesInRows
  <2>. QED  BY <1>3, <2>1, <2>2, Zenon DEF RowsOwnLines
<1>. QED  BY <1>2, <1>3

-----------------------------------------------------------------------------
(***************************************************************************)
(* console_printf(), field by field.                                       *)
(***************************************************************************)
LEMMA FreeStringView ==
  ASSUME NEW c \in Terminal, NEW s \in Strings \union {Null}
  PROVE  /\ FreeString(c, s) \in Terminal
         /\ FreeString(c, s).tv = c.tv /\ FreeString(c, s).pad = c.pad
         /\ FreeString(c, s).said = c.said
         /\ \A x \in Strings : FreeString(c, s).text[x] = IF x = s THEN NoLine ELSE c.text[x]
         /\ ~c.bad /\ (s # Null => c.text[s] # NoLine) => ~FreeString(c, s).bad
<1>1. CASE s = Null
  BY <1>1, ConsoleAssumption DEF FreeString
<1>2. CASE s # Null
  <2>. PICK k : k = FreeString(c, s)
    OBVIOUS
  <2>1. k = [c EXCEPT !.bad = @ \/ c.text[s] = NoLine, !.text[s] = NoLine]
    BY <1>2 DEF FreeString
  <2>2. s \in Strings /\ c.text \in [Strings -> Lines \union {NoLine}] /\ c.bad \in BOOLEAN
    BY <1>2 DEF Terminal
  <2>3. k.text = [c.text EXCEPT ![s] = NoLine] /\ k.bad = (c.bad \/ c.text[s] = NoLine)
    BY <2>1 DEF Terminal
  <2>4. k.tv = c.tv /\ k.pad = c.pad /\ k.said = c.said
    BY <2>1 DEF Terminal
  <2>5. k.text \in [Strings -> Lines \union {NoLine}] /\ k.bad \in BOOLEAN
    BY <2>2, <2>3
  <2>6. k \in Terminal
    <3>1. k = [tv |-> k.tv, pad |-> k.pad, text |-> k.text, said |-> k.said, bad |-> k.bad]
      BY <2>1 DEF Terminal
    <3>. QED  BY <2>4, <2>5, <3>1 DEF Terminal
  <2>7. \A x \in Strings : k.text[x] = IF x = s THEN NoLine ELSE c.text[x]
    BY <2>2, <2>3
  <2>8. ~c.bad /\ c.text[s] # NoLine => ~k.bad
    BY <2>3
  <2>. QED  BY <1>2, <2>4, <2>6, <2>7, <2>8
<1>. QED  BY <1>1, <1>2

(* A line is said after the others, and the first one is forgotten.        *)
LEMMA SaidView ==
  ASSUME NEW c \in Terminal, NEW t \in Lines
  PROVE  /\ Append(Tail(c.said), t) \in [1..TvLines -> Lines \union {NoLine}]
         /\ \A i \in 1..TvLines :
              Append(Tail(c.said), t)[i] = IF i = TvLines THEN t ELSE c.said[i + 1]
<1>. DEFINE L == Lines \union {NoLine}
            q == Tail(c.said)
<1>1. TvLines \in Nat /\ 1 <= TvLines
  BY ConsoleAssumption
<1>2. c.said \in Seq(L) /\ Len(c.said) = TvLines
  <2>1. c.said \in [1..TvLines -> L]
    BY DEF Terminal
  <2>2. c.said \in Seq(L)
    BY <1>1, <2>1, SeqDef
  <2>. QED  BY <1>1, <2>1, <2>2
<1>3. c.said # <<>>
  BY <1>1, <1>2, EmptySeq
<1>4. q \in Seq(L) /\ Len(q) = TvLines - 1 /\ \A i \in 1..Len(q) : q[i] = c.said[i + 1]
  <2>. HIDE DEF L
  <2>. QED  BY <1>2, <1>3, HeadTailProperties
<1>. HIDE DEF q
<1>5. /\ Append(q, t) \in Seq(L) /\ Len(Append(q, t)) = Len(q) + 1
      /\ \A i \in 1..Len(q) : Append(q, t)[i] = q[i]
      /\ Append(q, t)[Len(q) + 1] = t
  <2>1. t \in L
    OBVIOUS
  <2>. HIDE DEF L
  <2>. QED  BY <1>4, <2>1, AppendProperties
<1>6. Len(Append(q, t)) = TvLines
  BY <1>1, <1>4, <1>5
<1>7. Append(q, t) \in [1..TvLines -> L]
  BY <1>5, <1>6, LenProperties
<1>8. ASSUME NEW i \in 1..TvLines
      PROVE  Append(q, t)[i] = IF i = TvLines THEN t ELSE c.said[i + 1]
  <2>1. CASE i = TvLines
    BY <1>1, <1>4, <1>5, <2>1
  <2>2. CASE i # TvLines
    <3>1. i \in 1..Len(q)
      BY <1>1, <1>4, <2>2
    <3>. QED  BY <1>4, <1>5, <2>2, <3>1
  <2>. QED  BY <2>1, <2>2
<1>. QED  BY <1>7, <1>8 DEF q

LEMMA ShiftedView ==
  ASSUME NEW c \in Terminal
  PROVE  /\ Shifted(c) \in Terminal
         /\ \A i \in 1..TvLines : Shifted(c).tv[i] = c.tv[IF i < TvLines THEN i + 1 ELSE i]
         /\ \A i \in 1..PadLines : Shifted(c).pad[i] = c.pad[IF i < PadLines THEN i + 1 ELSE i]
         /\ Shifted(c).said = c.said
         /\ \A x \in Strings :
              Shifted(c).text[x] = IF x = c.tv[1] \/ x = c.pad[1] THEN NoLine ELSE c.text[x]
         /\ /\ ~c.bad
            /\ c.tv[1] # Null => c.text[c.tv[1]] # NoLine /\ c.tv[1] # c.pad[1]
            /\ c.pad[1] # Null => c.text[c.pad[1]] # NoLine
            => ~Shifted(c).bad
<1>. DEFINE f == FreeString(c, c.tv[1])
            up(rows) == [i \in DOMAIN rows |-> rows[IF i + 1 \in DOMAIN rows THEN i + 1 ELSE i]]
<1>. PICK g : g = FreeString(f, c.pad[1])
  OBVIOUS
<1>. PICK h : h = Shifted(c)
  OBVIOUS
<1>1. /\ TvLines \in Nat /\ PadLines \in Nat /\ 1 <= TvLines /\ 1 <= PadLines
      /\ Null \notin Strings
  BY ConsoleAssumption
<1>2. c.tv[1] \in Strings \union {Null} /\ c.pad[1] \in Strings \union {Null}
  BY <1>1 DEF Terminal
<1>3. f \in Terminal /\ f.tv = c.tv /\ f.pad = c.pad /\ f.said = c.said
  BY <1>2, FreeStringView
<1>4. /\ \A x \in Strings : f.text[x] = IF x = c.tv[1] THEN NoLine ELSE c.text[x]
      /\ ~c.bad /\ (c.tv[1] # Null => c.text[c.tv[1]] # NoLine) => ~f.bad
  BY <1>2, FreeStringView
<1>. HIDE DEF f
<1>5. g \in Terminal /\ g.tv = c.tv /\ g.pad = c.pad /\ g.said = c.said
  BY <1>2, <1>3, FreeStringView
<1>6. /\ \A x \in Strings : g.text[x] = IF x = c.pad[1] THEN NoLine ELSE f.text[x]
      /\ ~f.bad /\ (c.pad[1] # Null => f.text[c.pad[1]] # NoLine) => ~g.bad
  BY <1>2, <1>3, FreeStringView
<1>7. h = [g EXCEPT !.tv = up(g.tv), !.pad = up(g.pad)]
  BY DEF Shifted, f
<1>8. h.tv = up(g.tv) /\ h.pad = up(g.pad) /\ h.said = g.said /\ h.text = g.text /\ h.bad = g.bad
  BY <1>5, <1>7 DEF Terminal
<1>9. g.tv \in [1..TvLines -> Strings \union {Null}] /\ g.pad \in [1..PadLines -> Strings \union {Null}]
  BY <1>5 DEF Terminal
<1>10. /\ h.tv \in [1..TvLines -> Strings \union {Null}]
       /\ \A i \in 1..TvLines : h.tv[i] = g.tv[IF i < TvLines THEN i + 1 ELSE i]
  <2>1. DOMAIN g.tv = 1..TvLines
    BY <1>9
  <2>2. h.tv = [i \in 1..TvLines |-> g.tv[IF i + 1 \in 1..TvLines THEN i + 1 ELSE i]]
    BY <1>8, <2>1
  <2>3. \A i \in 1..TvLines : i + 1 \in 1..TvLines <=> i < TvLines
    BY <1>1
  <2>4. \A i \in 1..TvLines : h.tv[i] = g.tv[IF i < TvLines THEN i + 1 ELSE i]
    BY <2>2, <2>3
  <2>5. \A i \in 1..TvLines : (IF i + 1 \in 1..TvLines THEN i + 1 ELSE i) \in 1..TvLines
    BY <2>3
  <2>6. h.tv \in [1..TvLines -> Strings \union {Null}]
    BY <1>9, <2>2, <2>5
  <2>. QED  BY <2>4, <2>6
<1>11. /\ h.pad \in [1..PadLines -> Strings \union {Null}]
       /\ \A i \in 1..PadLines : h.pad[i] = g.pad[IF i < PadLines THEN i + 1 ELSE i]
  <2>1. DOMAIN g.pad = 1..PadLines
    BY <1>9
  <2>2. h.pad = [i \in 1..PadLines |-> g.pad[IF i + 1 \in 1..PadLines THEN i + 1 ELSE i]]
    BY <1>8, <2>1
  <2>3. \A i \in 1..PadLines : i + 1 \in 1..PadLines <=> i < PadLines
    BY <1>1
  <2>4. \A i \in 1..PadLines : h.pad[i] = g.pad[IF i < PadLines THEN i + 1 ELSE i]
    BY <2>2, <2>3
  <2>5. \A i \in 1..PadLines : (IF i + 1 \in 1..PadLines THEN i + 1 ELSE i) \in 1..PadLines
    BY <2>3
  <2>6. h.pad \in [1..PadLines -> Strings \union {Null}]
    BY <1>9, <2>2, <2>5
  <2>. QED  BY <2>4, <2>6
<1>. HIDE DEF up
<1>12. h \in Terminal
  <2>1. h = [tv |-> h.tv, pad |-> h.pad, text |-> h.text, said |-> h.said, bad |-> h.bad]
    BY <1>5, <1>7 DEF Terminal
  <2>. QED  BY <1>5, <1>8, <1>10, <1>11, <2>1 DEF Terminal
<1>13. \A x \in Strings : h.text[x] = IF x = c.tv[1] \/ x = c.pad[1] THEN NoLine ELSE c.text[x]
  BY <1>4, <1>6, <1>8
<1>14. ASSUME ~c.bad, c.tv[1] # Null => c.text[c.tv[1]] # NoLine /\ c.tv[1] # c.pad[1],
              c.pad[1] # Null => c.text[c.pad[1]] # NoLine
       PROVE  ~h.bad
  <2>1. ~f.bad
    BY <1>4, <1>14
  <2>2. c.pad[1] # Null => f.text[c.pad[1]] # NoLine
    BY <1>2, <1>4, <1>14
  <2>. QED  BY <1>6, <1>8, <2>1, <2>2
<1>. QED  BY <1>5, <1>8, <1>10, <1>11, <1>12, <1>13, <1>14

(* The last rows have the new line in a block that was free, and a copy of *)
(* it in another, free or freed by the shift, or no copy.                  *)
LEMMA ShowsView ==
  ASSUME NEW c \in Terminal, NEW t \in Lines, NEW a \in Strings, NEW e \in Shows(c, t, a)
  PROVE  \E b \in FreeStrings(c) \union {Null} :
           /\ e \in Terminal
           /\ e.bad = c.bad
           /\ \A i \in 1..TvLines : e.tv[i] = IF i = TvLines THEN b ELSE c.tv[i]
           /\ \A i \in 1..PadLines : e.pad[i] = IF i = PadLines THEN a ELSE c.pad[i]
           /\ \A i \in 1..TvLines : e.said[i] = IF i = TvLines THEN t ELSE c.said[i + 1]
           /\ \A x \in Strings : e.text[x] = IF x = b THEN t ELSE c.text[x]
<1>. DEFINE q == Append(Tail(c.said), t)
<1>. PICK p : p = [c EXCEPT !.pad[PadLines] = a, !.said = q]
  OBVIOUS
<1>1. /\ TvLines \in Nat /\ PadLines \in Nat /\ 1 <= TvLines /\ 1 <= PadLines
      /\ Null \notin Strings
  BY ConsoleAssumption
<1>2. /\ q \in [1..TvLines -> Lines \union {NoLine}]
      /\ \A i \in 1..TvLines : q[i] = IF i = TvLines THEN t ELSE c.said[i + 1]
  BY SaidView
<1>3. e = [p EXCEPT !.tv[TvLines] = Null] \/
      e \in {[p EXCEPT !.tv[TvLines] = x, !.text[x] = t] : x \in {AnyFree(c)} \intersect FreeStrings(c)}
  <2>. DEFINE z == [c EXCEPT !.pad[PadLines] = a, !.said = q]
  <2>1. Shows(c, t, a) =
          {[z EXCEPT !.tv[TvLines] = Null]} \union
          {[z EXCEPT !.tv[TvLines] = s, !.text[s] = t] : s \in {AnyFree(c)} \intersect FreeStrings(c)}
    BY DEF Shows
  <2>2. p = z
    OBVIOUS
  <2>. HIDE DEF z
  <2>. QED  BY <2>1, <2>2
<1>. HIDE DEF q
<1>4. /\ p.pad = [c.pad EXCEPT ![PadLines] = a] /\ p.said = q
      /\ p.tv = c.tv /\ p.text = c.text /\ p.bad = c.bad
  BY DEF Terminal
<1>5. p = [tv |-> p.tv, pad |-> p.pad, text |-> p.text, said |-> p.said, bad |-> p.bad]
  BY DEF Terminal
<1>6. /\ c.pad \in [1..PadLines -> Strings \union {Null}]
      /\ c.tv \in [1..TvLines -> Strings \union {Null}]
      /\ c.text \in [Strings -> Lines \union {NoLine}]
  BY DEF Terminal
<1>7. /\ p.pad \in [1..PadLines -> Strings \union {Null}]
      /\ \A i \in 1..PadLines : p.pad[i] = IF i = PadLines THEN a ELSE c.pad[i]
  BY <1>1, <1>4, <1>6
<1>8. p \in Terminal
  BY <1>2, <1>4, <1>5, <1>7 DEF Terminal
<1>9. PICK b \in FreeStrings(c) \union {Null} :
         /\ e.tv = [c.tv EXCEPT ![TvLines] = b] /\ e.pad = p.pad /\ e.said = q /\ e.bad = c.bad
         /\ e.text = IF b = Null THEN c.text ELSE [c.text EXCEPT ![b] = t]
         /\ e = [tv |-> e.tv, pad |-> e.pad, text |-> e.text, said |-> e.said, bad |-> e.bad]
  <2>1. CASE e = [p EXCEPT !.tv[TvLines] = Null]
    <3>1. /\ e.tv = [c.tv EXCEPT ![TvLines] = Null] /\ e.pad = p.pad /\ e.said = q
          /\ e.bad = c.bad /\ e.text = c.text
      BY <1>4, <1>8, <2>1 DEF Terminal
    <3>2. e = [tv |-> e.tv, pad |-> e.pad, text |-> e.text, said |-> e.said, bad |-> e.bad]
      BY <1>8, <2>1 DEF Terminal
    <3>. QED  BY <3>1, <3>2
  <2>2. CASE e \in {[p EXCEPT !.tv[TvLines] = x, !.text[x] = t] :
                       x \in {AnyFree(c)} \intersect FreeStrings(c)}
    <3>1. PICK b \in FreeStrings(c) : e = [p EXCEPT !.tv[TvLines] = b, !.text[b] = t]
      BY <2>2
    <3>2. /\ e.tv = [c.tv EXCEPT ![TvLines] = b] /\ e.pad = p.pad /\ e.said = q
          /\ e.bad = c.bad /\ e.text = [c.text EXCEPT ![b] = t]
      BY <1>4, <1>8, <3>1 DEF Terminal
    <3>3. e = [tv |-> e.tv, pad |-> e.pad, text |-> e.text, said |-> e.said, bad |-> e.bad]
      BY <1>8, <3>1 DEF Terminal
    <3>4. b # Null
      BY <1>1 DEF FreeStrings
    <3>. QED  BY <3>2, <3>3, <3>4
  <2>. QED  BY <1>3, <2>1, <2>2
<1>10. b \in Strings \union {Null}
  BY DEF FreeStrings
<1>11. /\ e.tv \in [1..TvLines -> Strings \union {Null}]
       /\ \A i \in 1..TvLines : e.tv[i] = IF i = TvLines THEN b ELSE c.tv[i]
  BY <1>1, <1>6, <1>9, <1>10
<1>12. /\ e.text \in [Strings -> Lines \union {NoLine}]
       /\ \A x \in Strings : e.text[x] = IF x = b THEN t ELSE c.text[x]
  BY <1>1, <1>6, <1>9, <1>10
<1>13. e \in Terminal
  <2>1. e.said \in [1..TvLines -> Lines \union {NoLine}] /\ e.bad \in BOOLEAN
    BY <1>2, <1>9 DEF Terminal
  <2>2. e.tv \in [1..TvLines -> Strings \union {Null}] /\ e.pad \in [1..PadLines -> Strings \union {Null}]
    BY <1>7, <1>9, <1>11
  <2>3. e = [tv |-> e.tv, pad |-> e.pad, text |-> e.text, said |-> e.said, bad |-> e.bad]
    BY <1>9
  <2>4. e.text \in [Strings -> Lines \union {NoLine}]
    BY <1>12
  <2>. QED  BY <2>1, <2>2, <2>3, <2>4 DEF Terminal
<1>14. /\ e.bad = c.bad
       /\ \A i \in 1..PadLines : e.pad[i] = IF i = PadLines THEN a ELSE c.pad[i]
       /\ \A i \in 1..TvLines : e.said[i] = IF i = TvLines THEN t ELSE c.said[i + 1]
  BY <1>2, <1>7, <1>9
<1>15. /\ \A i \in 1..TvLines : e.tv[i] = IF i = TvLines THEN b ELSE c.tv[i]
       /\ \A x \in Strings : e.text[x] = IF x = b THEN t ELSE c.text[x]
  BY <1>11, <1>12
<1>. QED  BY <1>13, <1>14, <1>15, Zenon

LEMMA FormattedView ==
  ASSUME NEW c \in Terminal, NEW t \in Lines, FreeStrings(c) # {}
  PROVE  /\ Formatted(c, t) \in Terminal
         /\ Formatted(c, t).tv = c.tv /\ Formatted(c, t).pad = c.pad
         /\ Formatted(c, t).said = c.said /\ Formatted(c, t).bad = c.bad
         /\ AnyFree(c) \in Strings /\ c.text[AnyFree(c)] = NoLine
         /\ \A x \in Strings : Formatted(c, t).text[x] = IF x = AnyFree(c) THEN t ELSE c.text[x]
<1>1. AnyFree(c) \in FreeStrings(c)
  BY DEF AnyFree
<1>. PICK a : a = AnyFree(c)
  OBVIOUS
<1>2. a \in Strings /\ c.text[a] = NoLine
  BY <1>1 DEF FreeStrings
<1>. PICK d : d = Formatted(c, t)
  OBVIOUS
<1>3. d = [c EXCEPT !.text[a] = t]
  BY DEF Formatted
<1>4. d.tv = c.tv /\ d.pad = c.pad /\ d.said = c.said /\ d.bad = c.bad
      /\ d.text = [c.text EXCEPT ![a] = t]
  BY <1>3 DEF Terminal
<1>5. d = [tv |-> d.tv, pad |-> d.pad, text |-> d.text, said |-> d.said, bad |-> d.bad]
  BY <1>3 DEF Terminal
<1>6. c.text \in [Strings -> Lines \union {NoLine}]
  BY DEF Terminal
<1>7. /\ d.text \in [Strings -> Lines \union {NoLine}]
      /\ \A x \in Strings : d.text[x] = IF x = a THEN t ELSE c.text[x]
  BY <1>2, <1>4, <1>6
<1>8. d \in Terminal
  BY <1>4, <1>5, <1>7 DEF Terminal
<1>. QED  BY <1>2, <1>4, <1>7, <1>8

(* The number of a new line follows the number of the last one.            *)
LEMMA NextLine ==
  ASSUME NEW c \in Terminal
  PROVE  1 + (c.said[TvLines] % (TvLines + 1)) \in Lines
<1>1. TvLines \in Nat /\ 1 <= TvLines
  BY ConsoleAssumption
<1>. PICK k : k = c.said[TvLines]
  OBVIOUS
<1>2. k \in Nat /\ TvLines + 1 \in Nat \ {0}
  BY <1>1 DEF Terminal, Lines, NoLine
<1>3. k % (TvLines + 1) \in 0..TvLines
  BY <1>1, <1>2
<1>. QED  BY <1>1, <1>3 DEF Lines

-----------------------------------------------------------------------------
(***************************************************************************)
(* A line more: no block is lost or freed twice, and the rows follow what  *)
(* was said.                                                               *)
(***************************************************************************)
TerminalOk(c) == c \in Terminal /\ RowsOwnLines(c) /\ ShowsLastLines(c)

LEMMA PrintedView ==
  ASSUME NEW c, TerminalOk(c), NEW e \in Printed(c), e # c
  PROVE  \E a \in Strings, b \in Strings \union {Null}, t \in Lines :
           /\ e \in Terminal /\ ~e.bad
           /\ c.text[a] = NoLine /\ a # b
           /\ b # Null => c.text[b] = NoLine \/ b = c.tv[1] \/ b = c.pad[1]
           /\ \A i \in 1..TvLines : e.tv[i] = IF i = TvLines THEN b ELSE c.tv[i + 1]
           /\ \A i \in 1..PadLines : e.pad[i] = IF i = PadLines THEN a ELSE c.pad[i + 1]
           /\ \A i \in 1..TvLines : e.said[i] = IF i = TvLines THEN t ELSE c.said[i + 1]
           /\ \A x \in Strings :
                e.text[x] = IF x = a \/ x = b THEN t
                            ELSE IF x = c.tv[1] \/ x = c.pad[1] THEN NoLine ELSE c.text[x]
<1>1. /\ TvLines \in Nat /\ PadLines \in Nat /\ 1 <= TvLines /\ 1 <= PadLines
      /\ Null \notin Strings
  BY ConsoleAssumption
<1>2. /\ c \in Terminal /\ ~c.bad /\ RowsApart(c) /\ RowsInMemory(c)
  BY RowsCounted DEF TerminalOk
<1>3. PICK t : t = 1 + (c.said[TvLines] % (TvLines + 1))
  OBVIOUS
<1>4. t \in Lines /\ t # NoLine
  <2>1. t \in Lines
    BY <1>2, <1>3, NextLine
  <2>. QED  BY <2>1 DEF Lines, NoLine
<1>. PICK a : a = AnyFree(c)
  OBVIOUS
<1>5. FreeStrings(c) # {} /\ e \in Shows(Shifted(Formatted(c, t)), t, a)
  BY <1>3 DEF Printed
<1>. PICK d : d = Formatted(c, t)
  OBVIOUS
<1>. PICK h : h = Shifted(d)
  OBVIOUS
<1>6. /\ d \in Terminal /\ d.tv = c.tv /\ d.pad = c.pad /\ d.said = c.said /\ d.bad = c.bad
      /\ a \in Strings /\ c.text[a] = NoLine
      /\ \A x \in Strings : d.text[x] = IF x = a THEN t ELSE c.text[x]
  BY <1>2, <1>4, <1>5, FormattedView
<1>7. c.tv[1] \in Strings \union {Null} /\ c.pad[1] \in Strings \union {Null}
  BY <1>1, <1>2 DEF Terminal
<1>8. /\ c.tv[1] # Null => c.text[c.tv[1]] # NoLine /\ c.tv[1] # c.pad[1] /\ c.tv[1] # a
      /\ c.pad[1] # Null => c.text[c.pad[1]] # NoLine /\ c.pad[1] # a
  <2>1. 1 \in 1..TvLines /\ 1 \in 1..PadLines
    BY <1>1
  <2>2. /\ c.tv[1] # Null => c.text[c.tv[1]] # NoLine /\ c.tv[1] # c.pad[1]
        /\ c.pad[1] # Null => c.text[c.pad[1]] # NoLine
    BY <1>2, <2>1, Zenon DEF RowsApart, RowsInMemory
  <2>. QED  BY <1>6, <2>2, Zenon
<1>9. /\ h \in Terminal
      /\ \A i \in 1..TvLines : h.tv[i] = d.tv[IF i < TvLines THEN i + 1 ELSE i]
      /\ \A i \in 1..PadLines : h.pad[i] = d.pad[IF i < PadLines THEN i + 1 ELSE i]
      /\ h.said = d.said
      /\ \A x \in Strings : h.text[x] = IF x = d.tv[1] \/ x = d.pad[1] THEN NoLine ELSE d.text[x]
  BY <1>6, ShiftedView
<1>10. ~h.bad
  <2>1. /\ d.tv[1] # Null => d.text[d.tv[1]] # NoLine /\ d.tv[1] # d.pad[1]
        /\ d.pad[1] # Null => d.text[d.pad[1]] # NoLine
        /\ ~d.bad
    BY <1>2, <1>6, <1>7, <1>8
  <2>. QED  BY <1>6, <2>1, ShiftedView
<1>11. a # Null /\ h.text[a] = t
  BY <1>1, <1>6, <1>7, <1>8, <1>9
<1>12. PICK b \in FreeStrings(h) \union {Null} :
         /\ e \in Terminal
         /\ e.bad = h.bad
         /\ \A i \in 1..TvLines : e.tv[i] = IF i = TvLines THEN b ELSE h.tv[i]
         /\ \A i \in 1..PadLines : e.pad[i] = IF i = PadLines THEN a ELSE h.pad[i]
         /\ \A i \in 1..TvLines : e.said[i] = IF i = TvLines THEN t ELSE h.said[i + 1]
         /\ \A x \in Strings : e.text[x] = IF x = b THEN t ELSE h.text[x]
  BY <1>4, <1>5, <1>6, <1>9, ShowsView
<1>13. b \in Strings \union {Null} /\ (b # Null => b \in Strings /\ h.text[b] = NoLine)
  BY DEF FreeStrings
<1>14. a # b /\ (b # Null => c.text[b] = NoLine \/ b = c.tv[1] \/ b = c.pad[1])
  BY <1>4, <1>6, <1>9, <1>11, <1>13
<1>15. \A i \in 1..TvLines : e.tv[i] = IF i = TvLines THEN b ELSE c.tv[i + 1]
  BY <1>1, <1>6, <1>9, <1>12
<1>16. \A i \in 1..PadLines : e.pad[i] = IF i = PadLines THEN a ELSE c.pad[i + 1]
  BY <1>1, <1>6, <1>9, <1>12
<1>17. \A i \in 1..TvLines : e.said[i] = IF i = TvLines THEN t ELSE c.said[i + 1]
  BY <1>6, <1>9, <1>12
<1>18. \A x \in Strings :
         e.text[x] = IF x = a \/ x = b THEN t
                     ELSE IF x = c.tv[1] \/ x = c.pad[1] THEN NoLine ELSE c.text[x]
  BY <1>6, <1>9, <1>11, <1>12
<1>19. ~e.bad
  BY <1>10, <1>12
<1>. QED  BY <1>4, <1>6, <1>12, <1>13, <1>14, <1>15, <1>16, <1>17, <1>18, <1>19

LEMMA PrintedOk ==
  ASSUME NEW c, TerminalOk(c), NEW e \in Printed(c)
  PROVE  TerminalOk(e)
<1>. SUFFICES ASSUME e # c
     PROVE  TerminalOk(e)
  OBVIOUS
<1>1. /\ TvLines \in Nat /\ PadLines \in Nat /\ 1 <= TvLines /\ 1 <= PadLines
      /\ PadLines <= TvLines /\ Null \notin Strings
  BY ConsoleAssumption
<1>2. /\ c \in Terminal /\ RowsApart(c) /\ RowsInMemory(c) /\ LinesInRows(c)
      /\ ShowsLastLines(c)
  BY RowsCounted DEF TerminalOk
<1>3. /\ \A i \in 1..TvLines : c.tv[i] \in Strings \union {Null}
      /\ \A i \in 1..PadLines : c.pad[i] \in Strings \union {Null}
  BY <1>2 DEF Terminal
<1>4. PICK a \in Strings, b \in Strings \union {Null}, t \in Lines :
        /\ e \in Terminal /\ ~e.bad
        /\ c.text[a] = NoLine /\ a # b
        /\ b # Null => c.text[b] = NoLine \/ b = c.tv[1] \/ b = c.pad[1]
        /\ \A i \in 1..TvLines : e.tv[i] = IF i = TvLines THEN b ELSE c.tv[i + 1]
        /\ \A i \in 1..PadLines : e.pad[i] = IF i = PadLines THEN a ELSE c.pad[i + 1]
        /\ \A i \in 1..TvLines : e.said[i] = IF i = TvLines THEN t ELSE c.said[i + 1]
        /\ \A x \in Strings :
             e.text[x] = IF x = a \/ x = b THEN t
                         ELSE IF x = c.tv[1] \/ x = c.pad[1] THEN NoLine ELSE c.text[x]
  BY PrintedView
<1>5. t # NoLine /\ a # Null
  BY <1>1 DEF Lines, NoLine
(* A row that moves up has a line that stays.                              *)
<1>6. ASSUME NEW i \in 1..TvLines, i # TvLines, c.tv[i + 1] # Null
      PROVE  /\ i + 1 \in 1..TvLines /\ e.tv[i] = c.tv[i + 1] /\ c.tv[i + 1] \in Strings
             /\ e.tv[i] # a /\ e.tv[i] # b
             /\ e.text[e.tv[i]] = c.text[c.tv[i + 1]] /\ c.text[c.tv[i + 1]] # NoLine
  <2>1. i + 1 \in 1..TvLines /\ 1 \in 1..TvLines /\ 1 \in 1..PadLines /\ i + 1 # 1
    BY <1>1, <1>6
  <2>2. e.tv[i] = c.tv[i + 1] /\ c.tv[i + 1] \in Strings
    BY <1>3, <1>4, <1>6, <2>1
  <2>3. c.tv[i + 1] # c.tv[1] /\ c.tv[i + 1] # c.pad[1] /\ c.text[c.tv[i + 1]] # NoLine
    BY <1>2, <1>6, <2>1 DEF RowsApart, RowsInMemory
  <2>4. c.tv[i + 1] # a /\ c.tv[i + 1] # b
    BY <1>4, <1>6, <2>3
  <2>. QED  BY <1>4, <2>1, <2>2, <2>3, <2>4
<1>7. ASSUME NEW i \in 1..PadLines, i # PadLines, c.pad[i + 1] # Null
      PROVE  /\ i + 1 \in 1..PadLines /\ e.pad[i] = c.pad[i + 1] /\ c.pad[i + 1] \in Strings
             /\ e.pad[i] # a /\ e.pad[i] # b
             /\ e.text[e.pad[i]] = c.text[c.pad[i + 1]] /\ c.text[c.pad[i + 1]] # NoLine
  <2>1. i + 1 \in 1..PadLines /\ 1 \in 1..TvLines /\ 1 \in 1..PadLines /\ i + 1 # 1
    BY <1>1, <1>7
  <2>2. e.pad[i] = c.pad[i + 1] /\ c.pad[i + 1] \in Strings
    BY <1>3, <1>4, <1>7, <2>1
  <2>3. c.pad[i + 1] # c.tv[1] /\ c.pad[i + 1] # c.pad[1] /\ c.text[c.pad[i + 1]] # NoLine
    <3>1. CASE c.tv[1] = Null
      BY <1>2, <1>7, <2>1, <3>1 DEF RowsApart, RowsInMemory
    <3>2. CASE c.tv[1] # Null
      BY <1>2, <1>7, <2>1, <3>2 DEF RowsApart, RowsInMemory
    <3>. QED  BY <3>1, <3>2
  <2>4. c.pad[i + 1] # a /\ c.pad[i + 1] # b
    BY <1>4, <1>7, <2>3
  <2>. QED  BY <1>4, <2>1, <2>2, <2>3, <2>4
<1>8. TvLines \in 1..TvLines /\ PadLines \in 1..PadLines
  BY <1>1
<1>9. e.tv[TvLines] = b /\ e.pad[PadLines] = a /\ e.text[a] = t /\ (b # Null => e.text[b] = t)
  BY <1>4, <1>8
<1>10. RowsInMemory(e)
  <2>1. ASSUME NEW i \in 1..TvLines, e.tv[i] # Null
        PROVE  e.text[e.tv[i]] # NoLine
    BY <1>4, <1>5, <1>6, <1>9, <2>1
  <2>2. ASSUME NEW i \in 1..PadLines, e.pad[i] # Null
        PROVE  e.text[e.pad[i]] # NoLine
    BY <1>4, <1>5, <1>7, <1>9, <2>2
  <2>. QED  BY <2>1, <2>2 DEF RowsInMemory
<1>11. RowsApart(e)
  <2>1. ASSUME NEW i \in 1..TvLines, NEW k \in 1..TvLines, e.tv[i] # Null, i # k
        PROVE  e.tv[i] # e.tv[k]
    <3>1. CASE i = TvLines
      BY <1>4, <1>6, <1>9, <2>1, <3>1
    <3>2. CASE k = TvLines
      BY <1>4, <1>6, <1>9, <2>1, <3>2
    <3>3. CASE i # TvLines /\ k # TvLines
      <4>1. /\ e.tv[i] = c.tv[i + 1] /\ e.tv[k] = c.tv[k + 1]
            /\ i + 1 \in 1..TvLines /\ k + 1 \in 1..TvLines /\ i + 1 # k + 1
        BY <1>1, <1>4, <2>1, <3>3
      <4>. QED  BY <1>2, <2>1, <4>1 DEF RowsApart
    <3>. QED  BY <3>1, <3>2, <3>3
  <2>2. ASSUME NEW i \in 1..PadLines, NEW k \in 1..PadLines, e.pad[i] # Null, i # k
        PROVE  e.pad[i] # e.pad[k]
    <3>1. CASE i = PadLines
      BY <1>4, <1>5, <1>7, <1>9, <2>2, <3>1
    <3>2. CASE k = PadLines
      BY <1>4, <1>7, <1>9, <2>2, <3>2
    <3>3. CASE i # PadLines /\ k # PadLines
      <4>1. /\ e.pad[i] = c.pad[i + 1] /\ e.pad[k] = c.pad[k + 1]
            /\ i + 1 \in 1..PadLines /\ k + 1 \in 1..PadLines /\ i + 1 # k + 1
        BY <1>1, <1>4, <2>2, <3>3
      <4>. QED  BY <1>2, <2>2, <4>1 DEF RowsApart
    <3>. QED  BY <3>1, <3>2, <3>3
  <2>3. ASSUME NEW i \in 1..TvLines, NEW k \in 1..PadLines, e.tv[i] # Null
        PROVE  e.tv[i] # e.pad[k]
    <3>1. CASE i = TvLines
      BY <1>4, <1>7, <1>9, <2>3, <3>1
    <3>2. CASE i # TvLines /\ k = PadLines
      BY <1>4, <1>6, <1>9, <2>3, <3>2
    <3>3. CASE i # TvLines /\ k # PadLines
      <4>1. /\ e.tv[i] = c.tv[i + 1] /\ e.pad[k] = c.pad[k + 1]
            /\ i + 1 \in 1..TvLines /\ k + 1 \in 1..PadLines
        BY <1>1, <1>4, <2>3, <3>3
      <4>. QED  BY <1>2, <2>3, <4>1 DEF RowsApart
    <3>. QED  BY <3>1, <3>2, <3>3
  <2>. QED  BY <2>1, <2>2, <2>3 DEF RowsApart
<1>12. LinesInRows(e)
  <2>. SUFFICES ASSUME NEW s \in Strings, e.text[s] # NoLine
       PROVE  (\E i \in 1..TvLines : e.tv[i] = s) \/ (\E i \in 1..PadLines : e.pad[i] = s)
    BY DEF LinesInRows
  <2>1. CASE s = a \/ s = b
    BY <1>8, <1>9, <2>1
  <2>2. CASE s # a /\ s # b
    <3>1. s # c.tv[1] /\ s # c.pad[1] /\ c.text[s] # NoLine
      BY <1>4, <2>2
    <3>2. CASE \E i \in 1..TvLines : c.tv[i] = s
      <4>1. PICK i \in 1..TvLines : c.tv[i] = s
        BY <3>2
      <4>2. i - 1 \in 1..TvLines /\ i - 1 # TvLines /\ (i - 1) + 1 = i
        BY <1>1, <3>1, <4>1
      <4>3. e.tv[i - 1] = c.tv[(i - 1) + 1]
        BY <1>4, <4>2
      <4>. QED  BY <4>1, <4>2, <4>3
    <3>3. CASE \E i \in 1..PadLines : c.pad[i] = s
      <4>1. PICK i \in 1..PadLines : c.pad[i] = s
        BY <3>3
      <4>2. i - 1 \in 1..PadLines /\ i - 1 # PadLines /\ (i - 1) + 1 = i
        BY <1>1, <3>1, <4>1
      <4>3. e.pad[i - 1] = c.pad[(i - 1) + 1]
        BY <1>4, <4>2
      <4>. QED  BY <4>1, <4>2, <4>3
    <3>. QED  BY <1>2, <3>1, <3>2, <3>3 DEF LinesInRows
  <2>. QED  BY <2>1, <2>2
<1>13. ShowsLastLines(e)
  <2>1. ASSUME NEW i \in 1..PadLines
        PROVE  (IF e.pad[i] = Null THEN NoLine ELSE e.text[e.pad[i]]) = e.said[TvLines - PadLines + i]
    <3>1. CASE i = PadLines
      BY <1>1, <1>4, <1>5, <1>8, <1>9, <3>1
    <3>2. CASE i # PadLines
      <4>1. /\ i + 1 \in 1..PadLines /\ TvLines - PadLines + i \in 1..TvLines
            /\ TvLines - PadLines + i # TvLines
            /\ (TvLines - PadLines + i) + 1 = TvLines - PadLines + (i + 1)
        BY <1>1, <3>2
      <4>2. e.said[TvLines - PadLines + i] = c.said[TvLines - PadLines + (i + 1)]
        BY <1>4, <4>1
      <4>3. (IF c.pad[i + 1] = Null THEN NoLine ELSE c.text[c.pad[i + 1]])
              = c.said[TvLines - PadLines + (i + 1)]
        BY <1>2, <4>1 DEF ShowsLastLines
      <4>4. e.pad[i] = c.pad[i + 1]
        BY <1>4, <3>2
      <4>5. c.pad[i + 1] # Null => e.text[e.pad[i]] = c.text[c.pad[i + 1]]
        BY <1>7, <3>2
      <4>. QED  BY <4>2, <4>3, <4>4, <4>5
    <3>. QED  BY <3>1, <3>2
  <2>2. ASSUME NEW i \in 1..TvLines, e.tv[i] # Null
        PROVE  e.text[e.tv[i]] = e.said[i]
    <3>1. CASE i = TvLines
      BY <1>4, <1>8, <1>9, <2>2, <3>1
    <3>2. CASE i # TvLines
      <4>1. i + 1 \in 1..TvLines /\ e.tv[i] = c.tv[i + 1] /\ e.said[i] = c.said[i + 1]
        BY <1>1, <1>4, <3>2
      <4>2. c.text[c.tv[i + 1]] = c.said[i + 1]
        BY <1>2, <2>2, <4>1 DEF ShowsLastLines
      <4>. QED  BY <1>6, <2>2, <3>2, <4>1, <4>2
    <3>. QED  BY <3>1, <3>2
  <2>. QED  BY <2>1, <2>2 DEF ShowsLastLines
<1>. QED  BY <1>4, <1>10, <1>11, <1>12, <1>13, RowsCounted DEF TerminalOk

LEMMA PrintedTwiceOk ==
  ASSUME NEW c, TerminalOk(c), NEW e \in PrintedTwice(c)
  PROVE  TerminalOk(e)
<1>1. PICK d \in Printed(c) : e \in Printed(d)
  BY DEF PrintedTwice
<1>. QED  BY <1>1, PrintedOk

LEMMA ClearOk == TerminalOk(ClearTerminal)
<1>. PICK c : c = ClearTerminal
  OBVIOUS
<1>1. /\ \A i \in 1..TvLines : c.tv[i] = Null
      /\ \A i \in 1..PadLines : c.pad[i] = Null
      /\ \A s \in Strings : c.text[s] = NoLine
      /\ \A i \in 1..TvLines : c.said[i] = NoLine
      /\ ~c.bad
  BY DEF ClearTerminal
<1>2. c \in Terminal
  BY DEF ClearTerminal, Terminal
<1>3. RowsOwnLines(c)
  <2>1. RowsApart(c) /\ RowsInMemory(c) /\ LinesInRows(c)
    BY <1>1 DEF RowsApart, RowsInMemory, LinesInRows
  <2>. QED  BY <1>1, <1>2, <2>1, RowsCounted
<1>4. ShowsLastLines(c)
  <2>1. ASSUME NEW i \in 1..PadLines
        PROVE  c.pad[i] = Null /\ c.said[TvLines - PadLines + i] = NoLine
    <3>1. TvLines - PadLines + i \in 1..TvLines
      BY ConsoleAssumption
    <3>. QED  BY <1>1, <3>1
  <2>. QED  BY <1>1, <2>1 DEF ShowsLastLines
<1>. QED  BY <1>2, <1>3, <1>4 DEF TerminalOk

(* console_deinit() frees every line, and each of them once.               *)
LEMMA FreeRowsOk ==
  ASSUME NEW c, TerminalOk(c)
  PROVE  /\ FreeRows(c) \in Terminal /\ ~FreeRows(c).bad
         /\ \A s \in Strings : FreeRows(c).text[s] = NoLine
<1>. PICK e : e = FreeRows(c)
  OBVIOUS
<1>1. c \in Terminal /\ c.bad = FALSE
  BY DEF TerminalOk, RowsOwnLines, Terminal
<1>2. \A s \in Strings : Uses(c, s) = (IF c.text[s] = NoLine THEN 0 ELSE 1)
  BY DEF TerminalOk, RowsOwnLines
<1>3. /\ \A s \in FreeStrings(c) : ~(Uses(c, s) > 0)
      /\ \A s \in Strings : ~(Uses(c, s) > 1)
  BY <1>2 DEF FreeStrings
<1>4. \A s \in Strings : (IF Uses(c, s) > 0 THEN NoLine ELSE c.text[s]) = NoLine
  BY <1>2
<1>. DEFINE freed == [s \in Strings |-> IF Uses(c, s) > 0 THEN NoLine ELSE c.text[s]]
            bad == c.bad \/ (\E s \in FreeStrings(c) : Uses(c, s) > 0)
                         \/ (\E s \in Strings : Uses(c, s) > 1)
<1>5. freed \in [Strings -> Lines \union {NoLine}] /\ \A s \in Strings : freed[s] = NoLine
  BY <1>4
<1>6. bad = FALSE
  BY <1>1, <1>3
<1>7. e = [c EXCEPT !.bad = bad, !.text = freed]
  BY DEF FreeRows
<1>. HIDE DEF freed, bad
<1>8. e \in Terminal /\ e.bad = bad /\ e.text = freed
  BY <1>1, <1>5, <1>6, <1>7 DEF Terminal
<1>. QED  BY <1>5, <1>6, <1>8

LEMMA ConsoleStep ==
  ASSUME pc \in Calls, ConsoleInv, [Next]_vars
  PROVE  ConsoleInv'
<1>1. pc \notin Closing => TerminalOk(con)
  BY DEF ConsoleInv, TerminalOk
<1>2. ASSUME TerminalOk(con'), pc' \notin Closing
      PROVE  ConsoleInv'
  BY <1>2 DEF ConsoleInv, TerminalOk, RowsOwnLines
<1>3. CASE ConsoleInit
  BY <1>2, <1>3, ClearOk DEF ConsoleInit, From, Closing
<1>4. CASE LoggingInit
  BY <1>1, <1>2, <1>4, PrintedTwiceOk DEF LoggingInit, From, Closing
<1>5. CASE CreateServerSocket
  <2>1. pc = "listen" /\ pc' \in {"serve", "shutdown"}
    BY <1>5 DEF CreateServerSocket, From
  <2>2. TerminalOk(con)
    BY <1>1, <2>1 DEF Closing
  <2>3. TerminalOk(con')
    <3>1. CASE con' \in PrintedTwice(con)
      BY <2>2, <3>1, PrintedTwiceOk
    <3>2. CASE con' \in UNION {PrintedTwice(c) : c \in Printed(con)}
      <4>1. PICK c \in Printed(con) : con' \in PrintedTwice(c)
        BY <3>2
      <4>. QED  BY <2>2, <4>1, PrintedOk, PrintedTwiceOk
    <3>. QED  BY <1>5, <3>1, <3>2 DEF CreateServerSocket
  <2>. QED  BY <1>2, <2>1, <2>3 DEF Closing
<1>6. CASE Serve
  <2>1. pc = "serve" /\ pc' = "input"
    BY <1>6 DEF Serve, From
  <2>2. con' = con \/ con' \in Printed(con) \/ con' \in PrintedTwice(con)
    BY <1>6 DEF Serve
  <2>3. TerminalOk(con')
    BY <1>1, <2>1, <2>2, PrintedOk, PrintedTwiceOk DEF Closing
  <2>. QED  BY <1>2, <2>1, <2>3 DEF Closing
<1>7. CASE HandleInput
  <2>1. pc = "input" /\ pc' \in {"serve", "shutdown"}
    BY <1>7 DEF HandleInput, From
  <2>2. con' = con \/ con' \in Printed(con)
    BY <1>7 DEF HandleInput, Command
  <2>3. TerminalOk(con')
    BY <1>1, <2>1, <2>2, PrintedOk DEF Closing
  <2>. QED  BY <1>2, <2>1, <2>3 DEF Closing
<1>8. CASE FtpDeinit
  BY <1>1, <1>2, <1>8, PrintedOk DEF FtpDeinit, From, Closing
<1>9. CASE ConsoleDeinit
  <2>1. TerminalOk(con) /\ pc' = "fflush" /\ con' = FreeRows(con)
    BY <1>1, <1>9 DEF ConsoleDeinit, From, Closing
  <2>2. con' \in Terminal /\ ~con'.bad /\ \A s \in Strings : con'.text[s] = NoLine
    BY <2>1, FreeRowsOk
  <2>. QED  BY <2>1, <2>2 DEF ConsoleInv, Closing
<1>10. CASE con' = con /\ (pc' \in Closing <=> pc \in Closing)
  BY <1>10 DEF ConsoleInv
<1>11. CASE InitFunctionPointers \/ InitIosuhax \/ MountFilesystems
  BY <1>10, <1>11 DEF InitFunctionPointers, InitIosuhax, MountFilesystems, From, Closing
<1>12. CASE Flush \/ SendDatagram \/ UNCHANGED vars
  BY <1>10, <1>12 DEF Flush, SendDatagram, vars
<1>13. CASE Fflush \/ LoggingDeinit \/ UnmountFilesystems \/ ShutdownIosuhax \/ Exit
  BY <1>10, <1>13 DEF Fflush, LoggingDeinit, UnmountFilesystems, ShutdownIosuhax, Exit, From, Closing
<1>. QED  BY <1>3, <1>4, <1>5, <1>6, <1>7, <1>8, <1>9, <1>11, <1>12, <1>13 DEF Next

-----------------------------------------------------------------------------
LEMMA ApplianceInit == Init => ApplianceInv
<1>. SUFFICES ASSUME Init
     PROVE  ApplianceInv
  OBVIOUS
<1>1. pc \in Calls /\ ButtonsInv
  BY DEF Init, Calls, ButtonsInv
<1>2. SystemInv
  <2>1. PICK stray \in BOOLEAN : sys = Fresh(stray)
    BY DEF Init
  <2>. QED  BY <2>1 DEF Init, Fresh, SystemInv, SystemOk, System, ReadAsInt, Starting
<1>3. ConsoleInv
  BY ClearOk DEF Init, ConsoleInv, TerminalOk, RowsOwnLines, Closing
<1>4. LogInv
  <2>1. log = NoLogger /\ pc \in {"import", "iosu"}
    BY DEF Init
  <2>2. <<>> \in Seq(1..MaxText) /\ Len(<<>>) = 0 /\ <<>> = [i \in 1..0 |-> i]
    OBVIOUS
  <2>3. NoLogger \in Logger
    BY <2>2, ConsoleAssumption DEF NoLogger, Logger
  <2>4. SentInOrder(NoLogger)
    BY <2>2 DEF NoLogger, SentInOrder
  <2>. QED  BY <2>1, <2>2, <2>3, <2>4 DEF LogInv, LoggerInv, NoLogger, Writing, Silent, Unlogged, Unserved
<1>. QED  BY <1>1, <1>2, <1>3, <1>4 DEF ApplianceInv

LEMMA ApplianceNext == ApplianceInv /\ [Next]_vars => ApplianceInv'
<1>. SUFFICES ASSUME ApplianceInv, [Next]_vars
     PROVE  ApplianceInv'
  OBVIOUS
<1>. pc \in Calls /\ SystemInv /\ ConsoleInv /\ LogInv /\ ButtonsInv
  BY DEF ApplianceInv
<1>. QED  BY SystemStep, ConsoleStep, LogStep, ButtonsStep DEF ApplianceInv

LEMMA ApplianceInvariant == Spec => []ApplianceInv
<1>. QED  BY ApplianceInit, ApplianceNext, PTL DEF Spec

-----------------------------------------------------------------------------
(* Every variable stays in its range, so that no line, place in a text or  *)
(* call leaves those the program has.                                      *)
THEOREM ApplianceTyped == Spec => []TypeOK
<1>1. ApplianceInv => TypeOK
  BY DEF ApplianceInv, SystemInv, SystemOk, ConsoleInv, LogInv, LoggerInv, ButtonsInv, TypeOK
<1>. QED  BY <1>1, ApplianceInvariant, PTL

(* What __mount_filesystems() and try_init_iosuhax() took is undone by the *)
(* way it was taken, over any number of remounts, and all of it at the end.*)
THEOREM MountsReturned == Spec => []MountsKept
<1>1. ApplianceInv => MountsKept
  <2>. SUFFICES ASSUME ApplianceInv
       PROVE  MountsKept
    OBVIOUS
  <2>1. SystemInv /\ ConsoleInv /\ LogInv
    BY DEF ApplianceInv
  <2>2. MountsAgree
    BY <2>1 DEF SystemInv, SystemOk, MountsAgree
  <2>3. ASSUME pc = "ended"
        PROVE  /\ sys.iosu = "closed" /\ ~sys.mcp /\ ~sys.fs_mounted
               /\ ~sys.fsa /\ ~sys.card /\ sys.vols = {}
    BY <2>1, <2>3 DEF SystemInv, SystemOk
  <2>4. ASSUME pc = "ended"
        PROVE  log.udp # "open" /\ ~log.lock
    BY <2>1, <2>4 DEF LogInv, LoggerInv, Unlogged, Silent
  <2>5. ASSUME pc = "ended"
        PROVE  \A s \in Strings : con.text[s] = NoLine
    BY <2>1, <2>5 DEF ConsoleInv, Closing
  <2>. QED  BY <2>2, <2>3, <2>4, <2>5 DEF MountsKept, AllReturned
<1>. QED  BY <1>1, ApplianceInvariant, PTL

(* console_printf() never loses a line or frees one twice, for any size of *)
(* the screens and any memory, and the rows show the last lines in order.  *)
THEOREM ScreensKept == Spec => []ScreensRight
<1>1. ApplianceInv => ScreensRight
  BY DEF ApplianceInv, ConsoleInv, ScreensRight, RowsOwned, LastLinesShown
<1>. QED  BY <1>1, ApplianceInvariant, PTL

(* logging_write() sends every text from its start without a gap, for any  *)
(* length of a text and of a datagram, and none is given up at the end.    *)
THEOREM LogSentWhole == Spec => []LogWhole
<1>1. ApplianceInv => LogWhole
  BY DEF ApplianceInv, LogInv, LoggerInv, LogWhole, LogInOrder, LogNotCut
<1>. QED  BY <1>1, ApplianceInvariant, PTL

(* The loop does not serve again once a read of the pad has shown HOME.    *)
THEOREM HomeSeen == Spec => []HomeEnds
<1>1. ApplianceInv => HomeEnds
  BY DEF ApplianceInv, ButtonsInv, HomeEnds
<1>. QED  BY <1>1, ApplianceInvariant, PTL

=============================================================================
