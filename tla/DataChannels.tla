---------------------------- MODULE DataChannels ----------------------------
(***************************************************************************)
(* The data channels of src/src/dtp: the heap blocks that hold them, the   *)
(* two intrusive lists dtp_poll() threads them on, and the descriptors     *)
(* they own.                                                               *)
(*                                                                         *)
(* Every operator is a function on a memory record, so that a command      *)
(* handler that frees one channel and allocates another is the composition *)
(* of two operators and one step of the server (module FtpServer).         *)
(*                                                                         *)
(* A block that has been freed keeps the words free_data_channel() left in *)
(* it until malloc() hands the block out again: that is what a dangling    *)
(* pointer reads on this heap.                                             *)
(***************************************************************************)
EXTENDS Naturals, FiniteSets

CONSTANTS
  Chans,      (* heap blocks large enough for a data_channel_t             *)
  Null,       (* the NULL pointer                                          *)
  Fd,         (* descriptors the socket library can hand out               *)
  NoFd,       (* -1                                                        *)
  UninitFd    (* what listen_fd may hold before anything is stored in it   *)

ASSUME ChannelAssumption ==
  /\ Null \notin Chans
  /\ NoFd \notin Fd
  /\ UninitFd \subseteq Fd \union {NoFd}

Ptr    == Chans \union {Null}
MaybeFd == Fd \union {NoFd}

(* GET_STATE().  DTP_RECVING is left out: nothing ever sets DTP_RECV.      *)
ChanStates == {"PENDING", "ESTABLISHED", "SENDING", "CLOSED", "ERROR", "FREE"}

(* The states in which the connection is dead: GET_STATE() >= DTP_CLOSED.  *)
DeadStates == {"CLOSED", "ERROR", "FREE"}

(***************************************************************************)
(* struct data_channel.  buf and xmit are the DTP_LOCAL_BUF and DTP_XMIT   *)
(* bits of `state'.  local is the union: "none" is the word -1, "null" the *)
(* word 0 (descriptor 0, or a NULL buffer), "listing" a heap pointer.      *)
(***************************************************************************)
Block == [next      : Ptr,
          state     : ChanStates,
          buf       : BOOLEAN,
          xmit      : BOOLEAN,
          iface     : {"passive", "active"},
          local     : {"none", "null", "listing"},
          remote_fd : MaybeFd,
          listen_fd : MaybeFd]

(***************************************************************************)
(* blk   the contents of every block, allocated or not                     *)
(* heap  the allocated blocks                                              *)
(* list, nlist   dtp_list and next_dtp_list                                *)
(* open  the open descriptors                                              *)
(* wild  history: some free closed a descriptor number it had never stored *)
(* early history: some channel was freed that was not in state DTP_FREE    *)
(***************************************************************************)
Memory == [blk   : [Chans -> Block],
           heap  : SUBSET Chans,
           list  : Ptr,
           nlist : Ptr,
           open  : SUBSET Fd,
           wild  : BOOLEAN,
           early : BOOLEAN]

EmptyBlock == [next |-> Null, state |-> "PENDING", buf |-> FALSE, xmit |-> FALSE,
               iface |-> "active", local |-> "none",
               remote_fd |-> NoFd, listen_fd |-> NoFd]

InitMemory(sockets) ==
  [blk |-> [c \in Chans |-> EmptyBlock], heap |-> {}, list |-> Null, nlist |-> Null,
   open |-> sockets, wild |-> FALSE, early |-> FALSE]

-----------------------------------------------------------------------------
(* SET_STATE() keeps DTP_LOCAL_BUF and clears every other bit, DTP_XMIT    *)
(* among them.                                                             *)
SetState(b, s) == [b EXCEPT !.state = s, !.xmit = FALSE]

(* socketclose(): -1 and closed descriptors are no-ops.                    *)
CloseFds(m, fds) == [m EXCEPT !.open = @ \ fds]

(* Bug: the push on next_dtp_list forgets what is there already.           *)
NewChannelDropsRest(m, c, iface, listen) ==
  [m EXCEPT !.blk[c] = [next |-> Null, state |-> "PENDING", buf |-> FALSE,
                        xmit |-> FALSE, iface |-> iface, local |-> "none",
                        remote_fd |-> NoFd, listen_fd |-> listen],
            !.heap  = @ \union {c},
            !.nlist = c]

(* new_data_channel() once its malloc()s succeeded and ip # 0, with the    *)
(* iface the caller stores.  listen_fd is whatever the caller stores or,   *)
(* for an active channel, whatever the block held.                         *)
NewChannel(m, c, iface, listen) ==
  [m EXCEPT !.blk[c] = [next |-> m.nlist, state |-> "PENDING", buf |-> FALSE,
                        xmit |-> FALSE, iface |-> iface, local |-> "none",
                        remote_fd |-> NoFd, listen_fd |-> listen],
            !.heap  = @ \union {c},
            !.nlist = c]

(* new_passive_channel() when network_create_serversocket() returned f.    *)
NewPassive(m, c, f) ==
  [NewChannel(m, c, "passive", f) EXCEPT !.open = @ \union {f}]

(* new_active_channel(): listen_fd is never written.                       *)
NewActive(m, c, garbage) == NewChannel(m, c, "active", garbage)

(* The word free_data_channel() passes to free() is not a heap pointer.    *)
FreesWildPointer(b) == b.buf /\ b.local = "none"

(* The words free_data_channel() leaves in the block.                      *)
Freed(b) == [b EXCEPT !.next      = Null,
                      !.local     = IF b.buf THEN "null" ELSE "none",
                      !.listen_fd = NoFd,
                      !.remote_fd = NoFd]

(* free_data_channel().  It does not unlink the channel.                   *)
FreeChannel(m, c) ==
  LET b == m.blk[c]
  IN  [m EXCEPT
        !.blk[c] = Freed(b),
        !.heap   = @ \ {c},
        !.open   = @ \ {b.listen_fd, b.remote_fd},
        !.wild   = IF b.iface = "active" /\ b.listen_fd # NoFd THEN TRUE ELSE @,
        !.early  = IF b.state = "FREE" THEN @ ELSE TRUE]

-----------------------------------------------------------------------------
(* Bug: the head is freed before it is taken off the list.                 *)
UnlinkedLate(m, c) == m

(* dtp_poll() takes the head off dtp_list ...                              *)
Unlinked(m, c) == [m EXCEPT !.list = m.blk[c].next, !.blk[c].next = Null]

(* Bug: the loop forgets to advance.                                       *)
RequeuedInPlace(m, c) == [m EXCEPT !.blk[c].next = m.nlist, !.nlist = c]

(* ... and pushes it on next_dtp_list unless it is to be freed.            *)
Requeued(m, c) ==
  [m EXCEPT !.list = m.blk[c].next, !.blk[c].next = m.nlist, !.nlist = c]

(* Bug: next_dtp_list is not emptied for the next pass.                    *)
ListsShared(m) == [m EXCEPT !.list = m.nlist]

(* The end of dtp_poll(): dtp_list = next_dtp_list.                        *)
ListsSwapped(m) == [m EXCEPT !.list = m.nlist, !.nlist = Null]

(* Bug: the listening socket is closed, its number kept.                   *)
AcceptedKeepsListener(m, c, f) ==
  LET b == m.blk[c]
  IN  [m EXCEPT !.blk[c] = [SetState(b, "ESTABLISHED") EXCEPT !.remote_fd = f],
                !.open = (@ \union {f}) \ {b.listen_fd}]

(* pasv_accept_handler() with the accepted descriptor f.                   *)
Accepted(m, c, f) ==
  LET b == m.blk[c]
  IN  [m EXCEPT !.blk[c] = [SetState(b, "ESTABLISHED")
                              EXCEPT !.listen_fd = NoFd, !.remote_fd = f],
                !.open = (@ \union {f}) \ {b.listen_fd}]

(* Bug: a connection is enough to start, with nothing to send yet.         *)
ReadyAtOnce(b) == SetState(b, "SENDING")

(* dtp_check_ready()                                                       *)
Ready(b) == IF b.xmit THEN SetState(b, "SENDING") ELSE b

(* The transfer is over: dtp_copy_data() read 0 bytes.                     *)
Finished(b) == [SetState(b, "CLOSED") EXCEPT !.local = "none", !.remote_fd = NoFd]

(***************************************************************************)
(* dtp_send_data() on an allocated channel: what the block can be after    *)
(* dtp_copy_data().  The io buffer is empty, so write() has no bytes to    *)
(* write and can only fail or return 0.  read() is given the word in       *)
(* `local': -1 returns at once, a heap pointer is no descriptor and fails, *)
(* descriptor 0 fails or is at end of file.                                *)
(***************************************************************************)
SendResults(b) ==
  IF b.remote_fd = NoFd \/ b.local = "none"
    THEN {b}
    ELSE {SetState(b, "ERROR")} \union (IF b.local = "null" THEN {Finished(b)} ELSE {})

(* dtp_send_buffer() has room: local.fd == -1.                             *)
CanQueue(b) == b.local = "none"

(* dtp_send_buffer()                                                       *)
Queued(b, listing) == [b EXCEPT !.local = listing, !.buf = TRUE, !.xmit = TRUE]

-----------------------------------------------------------------------------
(* The two lists as a graph on the allocated blocks: what they must be for *)
(* dtp_poll() to visit every channel, and each once.                       *)

(* No pointer leads out of the heap.                                       *)
PointersLive(m) ==
  /\ {m.list, m.nlist} \subseteq m.heap \union {Null}
  /\ \A c \in m.heap : m.blk[c].next \in m.heap \union {Null}

(* No two pointers lead to the same block.                                 *)
PointersDistinct(m) ==
  /\ m.list # Null => m.list # m.nlist
  /\ \A c \in m.heap : m.blk[c].next # Null =>
       /\ m.blk[c].next \notin {m.list, m.nlist}
       /\ \A d \in m.heap : m.blk[d].next = m.blk[c].next => d = c

(* S holds the two heads and the successors of its members.                *)
Closed(m, S) == {m.list, m.nlist} \union {m.blk[c].next : c \in S} \subseteq S \union {Null}

(* Every block can be reached from the heads.                              *)
AllLinked(m) == \A S \in SUBSET m.heap : Closed(m, S) => S = m.heap

=============================================================================
