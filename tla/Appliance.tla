----------------------------- MODULE Appliance -----------------------------
(***************************************************************************)
(* The life of the program on the console, from its entry point to its     *)
(* end: src/src/main.c, src/src/ftpservu.c, src/src/input.c, the start and *)
(* the end of src/src/console.c and src/src/logging.c, and the imports of  *)
(* src/src/system/dynamic.c.                                               *)
(*                                                                         *)
(* One action per function that main() or its caller calls.  The server is *)
(* one step that goes well or not: module FtpServer is about it.  Which    *)
(* calls of the system succeed is the environment's choice.                *)
(***************************************************************************)
EXTENDS Console

CONSTANT Volumes   (* what mount_fs() mounts through the FSA device        *)

VARIABLES
  pc,      (* the function that is called next                             *)
  sys,     (* IOSUHAX and the file systems                                 *)
  con,     (* the console                                                  *)
  log,     (* stdout and logging.c                                         *)
  buttons, (* input.c: the buttons held at the last read                   *)
  down     (* ftpserver_main_loop(): network_down                          *)

vars == <<pc, sys, con, log, buttons, down>>

Calls == {"import", "iosu", "mount", "console", "logging", "listen", "serve",
          "input", "shutdown", "console_deinit", "fflush", "logging_deinit", "unmount",
          "iosu_close", "exit", "ended", "fatal"}

(***************************************************************************)
(* iosu          how IOSUHAX is open: on its own device or over MCP        *)
(* mcp           mcp_hook_fd >= 0                                          *)
(* iosuhaxMount  of main.c, one byte; stray: ftpservu.c declares it an     *)
(*               int, and the bytes behind it are not zero                 *)
(* fs_mounted, fsa   of ftpservu.c                                         *)
(* fat, card, vols   what is mounted: by libfat, by mount_sd_fat() and by  *)
(*                   mount_fs()                                            *)
(***************************************************************************)
System ==
  [iosu : {"closed", "own", "mcp"}, mcp : BOOLEAN, iosuhaxMount : BOOLEAN, stray : BOOLEAN,
   fs_mounted : BOOLEAN, fsa : BOOLEAN, fat : BOOLEAN, card : BOOLEAN,
   vols : SUBSET Volumes]

Fresh(stray) ==
  [iosu |-> "closed", mcp |-> FALSE, iosuhaxMount |-> FALSE, stray |-> stray,
   fs_mounted |-> FALSE, fsa |-> FALSE, fat |-> FALSE, card |-> FALSE, vols |-> {}]

(* A step of the thread from one call to another.                          *)
From(a, b) == pc = a /\ ~Writing(log) /\ pc' = b

-----------------------------------------------------------------------------
(* InitFunctionPointers(): a library or a function that is missing ends    *)
(* the program.                                                            *)
InitFunctionPointers ==
  /\ From("import", "iosu") \/ From("import", "fatal")
  /\ UNCHANGED <<sys, con, log, buttons, down>>

(* MCPHookOpen(): no MCP, no server on it, or IOSUHAX over it.             *)
MCPHookOpen(s) == {s, [s EXCEPT !.iosu = "mcp", !.mcp = TRUE, !.iosuhaxMount = TRUE]}

(* try_init_iosuhax()                                                      *)
InitIosuhax ==
  /\ From("iosu", "mount")
  /\ sys' \in MCPHookOpen(sys) \union {[sys EXCEPT !.iosu = "own", !.iosuhaxMount = TRUE]}
  /\ UNCHANGED <<con, log, buttons, down>>

(* iosuhaxMount as ftpservu.c reads it.                                    *)
ReadAsInt(s) == s.iosuhaxMount \/ s.stray

(* IOSUHAX_FSA_Open() and mount_fs() for each volume.                      *)
FsaMounted(s) ==
  {s} \union (IF s.iosu = "closed" THEN {}
              ELSE {[s EXCEPT !.fsa = TRUE, !.vols = @ \union v] : v \in SUBSET Volumes})

(* fatInitDefault(): libfat finds a drive, or none.                        *)
FatMounted(s) == {s, [s EXCEPT !.fat = TRUE]}

(* __mount_filesystems(): fs_mounted is set whatever came of it.           *)
Mounted(s) ==
  IF s.fs_mounted THEN {s}
  ELSE {[t EXCEPT !.fs_mounted = TRUE] :
          t \in IF ReadAsInt(s) THEN UNION {FsaMounted(u) : u \in FatMounted(s)}
                                ELSE {s, [s EXCEPT !.card = TRUE]}}

(* Bug: the FSA device stays open.                                         *)
UnmountedButFsa(s) ==
  IF ~s.fs_mounted THEN {s}
  ELSE IF ReadAsInt(s)
    THEN {[s EXCEPT !.fs_mounted = FALSE, !.fat = f, !.vols = IF s.fsa THEN {} ELSE @] :
            f \in {FALSE, s.fat}}
    ELSE {[s EXCEPT !.fs_mounted = FALSE, !.card = FALSE]}

(* __unmount_filesystems(): libfat is given the names without their colon, *)
(* so that it may not find them.                                           *)
Unmounted(s) ==
  IF ~s.fs_mounted THEN {s}
  ELSE IF ReadAsInt(s)
    THEN {[s EXCEPT !.fs_mounted = FALSE, !.fat = f, !.fsa = FALSE,
                    !.vols = IF s.fsa THEN {} ELSE @] : f \in {FALSE, s.fat}}
    ELSE {[s EXCEPT !.fs_mounted = FALSE, !.card = FALSE]}

(* remount_filesystems()                                                   *)
Remounted(s) == UNION {Mounted(t) : t \in Unmounted(s)}

MountFilesystems ==
  /\ From("mount", "console")
  /\ sys' \in Mounted(sys)
  /\ UNCHANGED <<con, log, buttons, down>>

-----------------------------------------------------------------------------
(* console_init() and network_init()                                       *)
ConsoleInit ==
  /\ From("console", "logging")
  /\ con' = ClearTerminal
  /\ UNCHANGED <<sys, log, buttons, down>>

(* logging_init(): no socket, a socket that cannot be bound, or a socket.  *)
(* stdout goes to the logger in any case.                                  *)
LoggingInit ==
  /\ From("logging", "listen")
  /\ con' \in PrintedTwice(con)
  /\ log' \in {log, [log EXCEPT !.udp = "open"]}
  /\ UNCHANGED <<sys, buttons, down>>

(* main() up to the loop, network_create_serversocket() included.          *)
CreateServerSocket ==
  /\ \/ /\ From("listen", "serve")
        /\ con' \in PrintedTwice(con)
     \/ /\ From("listen", "shutdown")
        /\ con' \in UNION {PrintedTwice(c) : c \in Printed(con)}
  /\ UNCHANGED <<sys, log, buttons, down>>

-----------------------------------------------------------------------------
(* ftp_network_handler(), with what it leaves in the buffer of stdout.     *)
Serve ==
  /\ From("serve", "input")
  /\ \/ down' = FALSE /\ con' \in {con} \union Printed(con)
     \/ down' = TRUE /\ con' \in PrintedTwice(con)
  /\ \E n \in log.buffered..MaxText : log' = [log EXCEPT !.buffered = n]
  /\ UNCHANGED <<sys, buttons>>

Buttons == {"HOME", "Y"}

Pressed(b, held) == b \in held /\ b \notin buttons

(* Bug: Y is looked at before HOME.                                        *)
CommandYFirst(held) ==
  IF Pressed("Y", held) THEN "remount" ELSE IF Pressed("HOME", held) THEN "exit" ELSE "none"

(* get_command()                                                           *)
Command(held) ==
  IF Pressed("HOME", held) THEN "exit" ELSE IF Pressed("Y", held) THEN "remount" ELSE "none"

(* Bug: the command decides alone.                                         *)
GoesDownByCommand(cmd) == cmd = "exit"

(* network_down at the end of a pass.                                      *)
GoesDown(cmd) == down \/ cmd = "exit"

(* input_handler() and the rest of a pass.  The pad may have nothing new.  *)
HandleInput ==
  \E held \in SUBSET Buttons :
    /\ buttons' \in {held, buttons}
    /\ LET cmd == IF buttons' = held THEN Command(held) ELSE "none"
       IN  /\ From("input", IF GoesDown(cmd) THEN "shutdown" ELSE "serve")
           /\ down' = GoesDown(cmd)
           /\ CASE cmd = "none"    -> UNCHANGED <<sys, con>>
                [] cmd = "exit"    -> con' \in Printed(con) /\ UNCHANGED sys
                [] cmd = "remount" -> con' \in Printed(con) /\ sys' \in Remounted(sys)
    /\ UNCHANGED <<log>>

-----------------------------------------------------------------------------
(* The C library writes out what stdout has, as soon as it likes.          *)
Flush ==
  /\ pc \in {"serve", "input"} /\ ~Writing(log) /\ log.buffered > 0
  /\ log' = WriteOut(log)
  /\ UNCHANGED <<pc, sys, con, buttons, down>>

(* A turn of the loop of logging_write(), a failure of sendto(), the end.  *)
SendDatagram ==
  /\ Writing(log)
  /\ \/ log.remaining > 0 /\ \E n \in 1..DatagramOf(log) : log' = SentOn(log, n)
     \/ log.remaining > 0 /\ log' = Refused(log)
     \/ ~(log.remaining > 0) /\ log' = Written(log)
  /\ UNCHANGED <<pc, sys, con, buttons, down>>

-----------------------------------------------------------------------------
(* The end of main().                                                      *)
FtpDeinit ==
  /\ From("shutdown", "console_deinit")
  /\ con' \in Printed(con)
  /\ UNCHANGED <<sys, log, buttons, down>>

ConsoleDeinit ==
  /\ From("console_deinit", "fflush")
  /\ con' = FreeRows(con)
  /\ UNCHANGED <<sys, log, buttons, down>>

(* Bug: stdout is not flushed.                                             *)
NoFflush ==
  /\ From("fflush", "logging_deinit")
  /\ UNCHANGED <<sys, con, log, buttons, down>>

(* logging_deinit(): first what stdout still has ...                       *)
Fflush ==
  /\ From("fflush", "logging_deinit")
  /\ log' = WriteOut(log)
  /\ UNCHANGED <<sys, con, buttons, down>>

(* ... then the socket.                                                    *)
LoggingDeinit ==
  /\ From("logging_deinit", "unmount")
  /\ log' = IF log.udp = "open" THEN [log EXCEPT !.udp = "closed"] ELSE log
  /\ UNCHANGED <<sys, con, buttons, down>>

UnmountFilesystems ==
  /\ From("unmount", "iosu_close")
  /\ sys' \in Unmounted(sys)
  /\ UNCHANGED <<con, log, buttons, down>>

(* try_shutdown_iosuhax(), with MCPHookClose().                            *)
ShutdownIosuhax ==
  /\ From("iosu_close", "exit")
  /\ sys' = IF sys.iosuhaxMount
              THEN [sys EXCEPT !.iosu = "closed", !.mcp = FALSE, !.iosuhaxMount = FALSE]
              ELSE sys
  /\ UNCHANGED <<con, log, buttons, down>>

(* The end of the program; the C library writes out what it still holds.   *)
Exit ==
  /\ From("exit", "ended")
  /\ log' = WriteOut(log)
  /\ UNCHANGED <<sys, con, buttons, down>>

-----------------------------------------------------------------------------
(* __entry_menu() has the functions to find first; _start() has not.       *)
Init ==
  /\ pc \in {"import", "iosu"}
  /\ \E stray \in BOOLEAN : sys = Fresh(stray)
  /\ con = ClearTerminal
  /\ log = NoLogger
  /\ buttons = {} /\ down = FALSE

Next ==
  \/ InitFunctionPointers \/ InitIosuhax \/ MountFilesystems
  \/ ConsoleInit \/ LoggingInit \/ CreateServerSocket
  \/ Serve \/ HandleInput \/ Flush \/ SendDatagram
  \/ FtpDeinit \/ ConsoleDeinit \/ Fflush \/ LoggingDeinit
  \/ UnmountFilesystems \/ ShutdownIosuhax \/ Exit
  \/ pc \in {"ended", "fatal"} /\ UNCHANGED vars

(* The one thread goes on.                                                 *)
Spec == Init /\ [][Next]_vars /\ WF_vars(Next)

-----------------------------------------------------------------------------
TypeOK ==
  /\ pc \in Calls
  /\ sys \in System /\ con \in Terminal /\ log \in Logger
  /\ buttons \subseteq Buttons /\ down \in BOOLEAN

(***************************************************************************)
(* What is mounted goes with the flags that lead to its unmounting, over   *)
(* every remount and every failure: the flag that chose the way in is      *)
(* still there to choose the way out, and IOSUHAX outlives what uses it.   *)
(***************************************************************************)
MountsAgree ==
  /\ sys.card => sys.fs_mounted /\ ~ReadAsInt(sys)
  /\ sys.fsa => sys.fs_mounted /\ ReadAsInt(sys) /\ sys.iosu # "closed"
  /\ sys.vols # {} => sys.fsa
  /\ sys.mcp <=> sys.iosu = "mcp"

(***************************************************************************)
(* What the program took from the system it has given back when it ends,   *)
(* except what libfat may have kept.                                       *)
(***************************************************************************)
AllReturned ==
  pc = "ended" =>
    /\ sys.iosu = "closed" /\ ~sys.mcp /\ ~sys.fs_mounted
    /\ ~sys.fsa /\ ~sys.card /\ sys.vols = {}
    /\ log.udp # "open" /\ ~log.lock
    /\ \A s \in Strings : con.text[s] = NoLine

(***************************************************************************)
(* Mounting and unmounting match, while the program runs and when it ends. *)
(***************************************************************************)
MountsKept == MountsAgree /\ AllReturned

(***************************************************************************)
(* Until console_deinit() every line in memory has one row and every row   *)
(* its own line, so that shift_rows() frees none twice and loses none.     *)
(***************************************************************************)
Closing == {"fflush", "logging_deinit", "unmount", "iosu_close", "exit", "ended"}

RowsOwned == ~con.bad /\ (pc \notin Closing => RowsOwnLines(con))

(***************************************************************************)
(* Both screens show the last lines printed, in order.                     *)
(***************************************************************************)
LastLinesShown == pc \notin Closing => ShowsLastLines(con)

(***************************************************************************)
(* Rows and lines go together, and the rows show what was printed last.    *)
(***************************************************************************)
ScreensRight == RowsOwned /\ LastLinesShown

(***************************************************************************)
(* A text goes out in datagrams from its start, with no gap and no byte    *)
(* twice.                                                                  *)
(***************************************************************************)
LogInOrder == SentInOrder(log)

(***************************************************************************)
(* It goes out to its last byte unless a sendto() has failed; and a text   *)
(* is dropped only when there never was a socket, not because it is closed *)
(* already: stdout is empty when logging_deinit() closes it, and stays so. *)
(***************************************************************************)
LogNotCut ==
  /\ ~log.cut
  /\ log.dropped => log.udp = "none"

(***************************************************************************)
(* With a socket that takes what it is given the log is sent as it was     *)
(* written, in order and whole; without one nothing is, and a failure      *)
(* costs the rest of its text and no more than that.                       *)
(***************************************************************************)
LogWhole == LogInOrder /\ LogNotCut

(***************************************************************************)
(* HOME is never overlooked, whatever else is pressed with it: the server  *)
(* does not go on once a read of the pad has shown it down.                *)
(***************************************************************************)
HomeEnds == pc = "serve" => "HOME" \notin buttons

(***************************************************************************)
(* Once the network has failed or HOME was pressed the program ends.       *)
(***************************************************************************)
ShutsDown == down ~> pc = "ended"

=============================================================================
