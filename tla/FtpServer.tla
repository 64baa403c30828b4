----------------------------- MODULE FtpServer -----------------------------
(***************************************************************************)
(* The FTP server's only thread: ftpserver_main_loop() of                  *)
(* src/src/ftpservu.c around ftp_network_handler() of src/src/ftp.c, with  *)
(* the command handlers of src/src/commands.                               *)
(*                                                                         *)
(* One pass of the loop accepts at most one client, polls every data       *)
(* channel, then serves every client slot in turn.  The program counter    *)
(* `pc' names the place in the pass; one action is what the thread does    *)
(* from one blocking point of the environment to the next: one accept(),   *)
(* one channel of dtp_poll(), the data events of a slot, one recv(), one   *)
(* command line, the output of a slot.                                     *)
(*                                                                         *)
(* The network, the memory allocator and the peers are the environment:    *)
(* each call to them is a choice among the results the code distinguishes. *)
(*                                                                         *)
(* A step with no defined outcome sets `fault' and halts the program: that *)
(* is what the exception handler of src/src/system does with the DSI.      *)
(***************************************************************************)
EXTENDS DataChannels

CONSTANTS
  MaxClients,  (* MAX_CLIENTS                                              *)
  NoClient,    (* an empty slot                                            *)
  ServerFd,    (* the listening socket                                     *)
  FdZero,      (* descriptor 0: the first socket created, the log's        *)
  MaxLines,    (* bound: complete lines in the input buffer after one recv *)
  OutCap,      (* bound: replies that fit in the output buffer             *)
  Commands     (* bound: the command lines the clients of a run send       *)

Slots == 1..MaxClients

(* The rows of the commands[] table whose handler does nothing.            *)
Stubs == {"SIZE", "TYPE", "MODE", "RETR", "STOR", "APPE", "REST", "DELE", "MKD",
          "RMD", "RNFR", "RNTO", "NLST", "SITE"}

(* The rows whose handler answers and touches neither the session state    *)
(* nor a data channel (PWD, CWD and CDUP: module VfsPath).                 *)
ReplyOnly == {"NOOP", "PWD", "CWD", "CDUP", "SYST", "ALLO"}

(* The rows with authentication = false.                                   *)
NoLogin == {"USER", "PASS", "QUIT", "REIN", "NOOP"}

Table == NoLogin \union ReplyOnly \union Stubs \union {"LIST", "PASV", "PORT"}

(* UNKNOWN is a mnemonic that is not in the table, BLANK a line without    *)
(* one, PORT? a PORT line whose parameters do not parse.                   *)
AllCommands == Table \union {"UNKNOWN", "BLANK", "PORT?"}

ASSUME ServerAssumption ==
  /\ MaxClients \in Nat \ {0}
  /\ MaxLines \in Nat \ {0}
  /\ OutCap \in Nat \ {0}
  /\ ServerFd \in Fd /\ FdZero \in Fd /\ ServerFd # FdZero
  /\ Commands \subseteq AllCommands

Flags == {"USER", "AUTH", "DATA", "DISCONN"}

(* client_t; `out' counts the replies waiting in output_buffer.            *)
Client == [fd : Fd, state : SUBSET Flags, data : Ptr, out : 0..OutCap]

ASSUME NoClientAssumption == NoClient \notin Client

Faults == {"none", "null deref", "use after free", "bad free"}

VARIABLES
  m,        (* the memory of module DataChannels                           *)
  clients,  (* clients[]                                                   *)
  pc,       (* where the thread is in the pass                             *)
  cur,      (* the slot being served                                       *)
  left,     (* the complete lines still in the input buffer of that slot   *)
  fault     (* "none", or why the program halted                           *)

vars == <<m, clients, pc, cur, left, fault>>

-----------------------------------------------------------------------------
(* state >= STATE_AUTH: any flag but USER makes the number large enough.   *)
IsAuthenticated(cl) == cl.state \ {"USER"} # {}

(* ftp_response(): iobuffer_append() drops the reply when it does not fit. *)
Reply(cl) == [cl EXCEPT !.out = IF @ < OutCap THEN @ + 1 ELSE @]

(* new_client() and the assignments of ftp_accept_handler().               *)
NewClient(f) == Reply([fd |-> f, state |-> {}, data |-> Null, out |-> 0])

(* free_client(): the data channel is neither freed nor marked.            *)
FreeClient(mem, cl) == CloseFds(mem, {cl.fd})

OpenSlots == {s \in Slots : clients[s] = NoClient}
ClientFds == {clients[s].fd : s \in Slots \ OpenSlots}

Crash(why) ==
  /\ fault' = why
  /\ UNCHANGED <<m, clients, pc, cur, left>>

(* Bug: i <= MAX_CLIENTS.                                                  *)
NextSlotPastEnd ==
  IF cur <= MaxClients THEN pc' = "data" /\ cur' = cur + 1
                       ELSE pc' = "input" /\ cur' = 1

(* The next slot of the pass, or the end of it.                            *)
NextSlot ==
  IF cur < MaxClients THEN pc' = "data" /\ cur' = cur + 1
                      ELSE pc' = "input" /\ cur' = 1

(* ftp_deinit() frees the clients; the data channels stay.                 *)
Shutdown ==
  /\ m' = CloseFds(m, ClientFds)
  /\ clients' = [s \in Slots |-> NoClient]
  /\ pc' = "exit"
  /\ UNCHANGED <<cur, left, fault>>

-----------------------------------------------------------------------------
Init ==
  /\ m = InitMemory({FdZero})
  /\ clients = [s \in Slots |-> NoClient]
  /\ pc = "start" /\ cur = 1 /\ left = 0 /\ fault = "none"

(* network_create_serversocket(): without a server socket main() shuts down *)
(* at once.                                                                *)
Listen ==
  /\ pc = "start"
  /\ \/ m' = [m EXCEPT !.open = @ \union {ServerFd}] /\ pc' = "accept"
     \/ m' = m /\ pc' = "exit"
  /\ UNCHANGED <<clients, cur, left, fault>>

(* network_accept_poll() on the server socket: EAGAIN ...                  *)
AcceptNobody ==
  /\ pc = "accept"
  /\ pc' = "poll"
  /\ UNCHANGED <<m, clients, cur, left, fault>>

(* ... an error, which ends the main loop ...                              *)
AcceptFails == pc = "accept" /\ Shutdown

(* ... or a connection, which gets the first free slot ...                 *)
AcceptClient ==
  /\ pc = "accept"
  /\ \E f \in Fd \ m.open, s \in OpenSlots :
       /\ \A t \in OpenSlots : s <= t
       /\ clients' = [clients EXCEPT ![s] = NewClient(f)]
       /\ m' = [m EXCEPT !.open = @ \union {f}]
  /\ pc' = "poll"
  /\ UNCHANGED <<cur, left, fault>>

(* ... or is closed again, for want of a slot or of memory.  new_client()  *)
(* that fails after its memset() closes descriptor 0.                      *)
AcceptRefused ==
  /\ pc = "accept"
  /\ Fd \ m.open # {}
  /\ \/ m' = m
     \/ /\ OpenSlots # {}
        /\ m' = [CloseFds(m, {FdZero}) EXCEPT !.wild = TRUE]
  /\ pc' = "poll"
  /\ UNCHANGED <<clients, cur, left, fault>>

-----------------------------------------------------------------------------
(* dtp_poll(): c is the channel just taken off dtp_list and b its contents *)
(* when it is pushed on next_dtp_list.                                     *)
Polling(c) == pc = "poll" /\ m.list = c /\ c # Null

Requeue(c, b) ==
  /\ m' = Requeued([m EXCEPT !.blk[c] = b], c)
  /\ UNCHANGED <<clients, pc, cur, left, fault>>

(* pasv_try_accept(): EAGAIN, an error, a connection.                      *)
PollAccept(c) ==
  LET b == m.blk[c]
  IN  /\ Polling(c) /\ b.state = "PENDING" /\ b.iface = "passive"
      /\ \/ b.listen_fd \in m.open /\ Requeue(c, b)
         \/ Requeue(c, SetState(b, "ERROR"))
         \/ /\ b.listen_fd \in m.open
            /\ \E f \in Fd \ m.open : m' = Requeued(Accepted(m, c, f), c)
            /\ UNCHANGED <<clients, pc, cur, left, fault>>

(* active_try_connect() does nothing, nor does dtp_poll() for a channel    *)
(* that waits for its client to notice that it is dead.                    *)
PollIdle(c) ==
  LET b == m.blk[c]
  IN  /\ Polling(c)
      /\ b.state \in {"CLOSED", "ERROR"} \/ (b.state = "PENDING" /\ b.iface = "active")
      /\ Requeue(c, b)

PollReady(c) ==
  /\ Polling(c) /\ m.blk[c].state = "ESTABLISHED"
  /\ Requeue(c, Ready(m.blk[c]))

(* dtp_send_data().  At the end of the transfer close() of the C library   *)
(* is given the descriptor of a socket: it may or may not close it.        *)
PollSend(c) ==
  /\ Polling(c) /\ m.blk[c].state = "SENDING"
  /\ \E b \in SendResults(m.blk[c]) :
       \/ Requeue(c, b)
       \/ /\ b.state = "CLOSED"
          /\ m' = Requeued([CloseFds(m, {m.blk[c].remote_fd}) EXCEPT !.blk[c] = b], c)
          /\ UNCHANGED <<clients, pc, cur, left, fault>>

(* Bug: the channel is taken off the list and forgotten.                   *)
PollForget(c) ==
  /\ Polling(c) /\ m.blk[c].state = "FREE"
  /\ m' = Unlinked(m, c)
  /\ UNCHANGED <<clients, pc, cur, left, fault>>

(* A channel in DTP_FREE leaves the list and the heap.                     *)
PollFree(c) ==
  /\ Polling(c) /\ m.blk[c].state = "FREE"
  /\ IF c \in m.heap /\ ~FreesWildPointer(m.blk[c])
       THEN /\ m' = FreeChannel(Unlinked(m, c), c)
            /\ UNCHANGED <<clients, pc, cur, left, fault>>
       ELSE Crash("bad free")

(* A block that was freed while it was linked may be anything by now.      *)
PollStale(c) == Polling(c) /\ c \notin m.heap /\ Crash("use after free")

PollEnd ==
  /\ pc = "poll" /\ m.list = Null
  /\ m' = ListsSwapped(m)
  /\ pc' = "data"
  /\ UNCHANGED <<clients, cur, left, fault>>

Poll(c) == \/ PollAccept(c) \/ PollIdle(c) \/ PollReady(c)
           \/ PollSend(c) \/ PollFree(c) \/ PollStale(c)

-----------------------------------------------------------------------------
(* Bug: data_state > DTP_CLOSED.                                           *)
IsDeadAboveClosed(b) == b.state \in DeadStates \ {"CLOSED"}

IsDead(b) == b.state \in DeadStates

(* Bug: the client keeps the pointer to the channel it gave up.            *)
ReleasedOnce(cl) == [cl EXCEPT !.state = @ \ {"DATA"}]

(* The client after its transfer.                                          *)
Released(cl) == [cl EXCEPT !.state = @ \ {"DATA"}, !.data = Null]

(* handle_client() and handle_data_events().                               *)
SkipSlot ==
  /\ pc = "data" /\ clients[cur] = NoClient
  /\ NextSlot
  /\ UNCHANGED <<m, clients, left, fault>>

DataEvents ==
  /\ pc = "data" /\ clients[cur] # NoClient
  /\ LET cl == clients[cur]
     IN  \/ /\ "DATA" \notin cl.state
            /\ pc' = "control" /\ UNCHANGED <<m, clients>>
         \/ /\ "DATA" \in cl.state /\ cl.data = Null
            /\ clients' = [clients EXCEPT ![cur] = Released(cl)]
            /\ pc' = "control" /\ UNCHANGED m
         \/ /\ "DATA" \in cl.state /\ cl.data # Null
            /\ IsDead(m.blk[cl.data])
            /\ clients' = [clients EXCEPT ![cur] = Reply(Released(cl))]
            /\ m' = [m EXCEPT !.blk[cl.data] = SetState(@, "FREE")]
            /\ pc' = "control"
         \/ /\ "DATA" \in cl.state /\ cl.data # Null
            /\ ~IsDead(m.blk[cl.data])
            /\ pc' = "output" /\ UNCHANGED <<m, clients>>
  /\ UNCHANGED <<cur, left, fault>>

(* network_read_buffer(): EAGAIN or no complete line yet, or some lines.   *)
Receive ==
  /\ pc = "control"
  /\ \E n \in 0..MaxLines : left' = n /\ pc' = IF n = 0 THEN "output" ELSE "cmd"
  /\ UNCHANGED <<m, clients, cur, fault>>

(* End of file or an error: ftp_client_cleanup() frees the client, and     *)
(* handle_client() goes on with it.  free_client() left NULL in            *)
(* output_buffer; where reading through it does not trap, the slot is done.*)
Disconnected ==
  /\ pc = "control"
  /\ m' = FreeClient(m, clients[cur])
  /\ clients' = [clients EXCEPT ![cur] = NoClient]
  /\ \/ fault' = "use after free" /\ UNCHANGED <<pc, cur>>
     \/ NextSlot /\ UNCHANGED fault
  /\ UNCHANGED left

(* handle_output(), then the end of handle_client().                       *)
Output ==
  /\ pc = "output"
  /\ LET cl == clients[cur]
     IN  IF "DISCONN" \in cl.state
           THEN /\ clients' = [clients EXCEPT ![cur] = NoClient]
                /\ m' = FreeClient(m, cl)
           ELSE /\ clients' = [clients EXCEPT ![cur].out = 0]
                /\ UNCHANGED m
  /\ NextSlot
  /\ UNCHANGED <<left, fault>>

(* input_handler() of the main loop: HOME, or nothing (Y remounts the file *)
(* systems, which changes no state of this module).                        *)
Input ==
  /\ pc = "input"
  /\ \/ Shutdown
     \/ pc' = "accept" /\ UNCHANGED <<m, clients, cur, left, fault>>

-----------------------------------------------------------------------------
(* The handler of a line leaves the client as cl and the memory as mem;    *)
(* handle_control_events() goes on with the next line.                     *)
Handled(cl, mem) ==
  /\ clients' = [clients EXCEPT ![cur] = cl]
  /\ m' = mem
  /\ left' = left - 1
  /\ pc' = IF left = 1 THEN "output" ELSE "cmd"
  /\ UNCHANGED <<cur, fault>>

(* do_user(): the assignment clears every other flag.                      *)
User(cl) == Handled(Reply([cl EXCEPT !.state = {"USER"}]), m)

Pass(cl) ==
  Handled(Reply([cl EXCEPT !.state = IF @ = {"USER"} THEN {"AUTH"} ELSE @]), m)

Quit(cl) == Handled(Reply([cl EXCEPT !.state = @ \union {"DISCONN"}]), m)

Rein(cl) == Handled(Reply([cl EXCEPT !.state = {}]), m)

(* do_passive().  Whatever makes passive.new() fail, the handler reads     *)
(* through the NULL it returned.                                           *)
Pasv(cl) ==
  IF cl.data # Null /\ FreesWildPointer(m.blk[cl.data])
    THEN Crash("bad free")
    ELSE LET mem == IF cl.data = Null THEN m ELSE FreeChannel(m, cl.data)
         IN  \/ \E c \in Chans \ mem.heap, f \in Fd \ mem.open :
                  Handled(Reply([cl EXCEPT !.data = c]), NewPassive(mem, c, f))
             \/ Crash("null deref")

(* do_port(): no reply, and the former channel is forgotten.  active.new() *)
(* stores through the pointer it got, NULL or not.                         *)
Port(cl) ==
  \/ \E c \in Chans \ m.heap, garbage \in UninitFd :
       Handled([cl EXCEPT !.data = c], NewActive(m, c, garbage))
  \/ Crash("null deref")

(* is_connected(): network_connect() always fails.                         *)
IsConnected(b) == b.iface = "passive" \/ (b.state = "ESTABLISHED" /\ b.remote_fd # NoFd)

(* ftp_data_send_buffer() once the channel c is there.                     *)
SendListing(cl, c, mem) ==
  LET b    == mem.blk[c]
      busy == [cl EXCEPT !.state = @ \union {"DATA"}, !.data = c]
  IN  IF IsConnected(b) /\ CanQueue(b)
        THEN \E listing \in {"listing", "null"} :
               Handled(busy, [mem EXCEPT !.blk[c] = Queued(b, listing)])
        ELSE Handled(Reply(busy),
                     IF IsConnected(b) THEN mem
                                       ELSE [mem EXCEPT !.blk[c].remote_fd = NoFd])

(* do_list(); vfs_list_directory() returns a listing or NULL.              *)
List(cl) ==
  \/ cl.data # Null /\ SendListing(cl, cl.data, m)
  \/ /\ cl.data = Null
     /\ \/ \E c \in Chans \ m.heap, garbage \in UninitFd :
               SendListing(cl, c, NewActive(m, c, garbage))
        \/ Crash("null deref")

Refused(cl, cmd) == cmd \notin NoLogin \union {"BLANK"} /\ ~IsAuthenticated(cl)

(* command_invoke() on one line of the input buffer.                       *)
Invoke(cl, cmd) ==
  \/ Refused(cl, cmd) /\ Handled(Reply(cl), m)
  \/ /\ ~Refused(cl, cmd)
     /\ \/ cmd \in ReplyOnly \union {"UNKNOWN", "PORT?"} /\ Handled(Reply(cl), m)
        \/ cmd \in Stubs \union {"BLANK"} /\ Handled(cl, m)
        \/ cmd = "USER" /\ User(cl)
        \/ cmd = "PASS" /\ Pass(cl)
        \/ cmd = "QUIT" /\ Quit(cl)
        \/ cmd = "REIN" /\ Rein(cl)
        \/ cmd = "PASV" /\ Pasv(cl)
        \/ cmd = "PORT" /\ Port(cl)
        \/ cmd = "LIST" /\ List(cl)

Command ==
  pc = "cmd" /\ \E cmd \in Commands : Invoke(clients[cur], cmd)

-----------------------------------------------------------------------------
Accept == AcceptNobody \/ AcceptFails \/ AcceptClient \/ AcceptRefused

Server == \/ Listen \/ Accept
          \/ (\E c \in Chans : Poll(c)) \/ PollEnd
          \/ SkipSlot \/ DataEvents \/ Receive \/ Disconnected \/ Command \/ Output
          \/ Input

Halted == pc = "exit" \/ fault # "none"

Next == \/ ~Halted /\ Server
        \/ Halted /\ UNCHANGED vars

(* The server is one thread that never waits: while it has not halted it   *)
(* takes its next step, whatever the environment answers.                  *)
Spec == Init /\ [][Next]_vars /\ WF_vars(~Halted /\ Server)

-----------------------------------------------------------------------------
TypeOK ==
  /\ m \in Memory
  /\ clients \in [Slots -> Client \union {NoClient}]
  /\ pc \in {"start", "accept", "poll", "data", "control", "cmd", "output", "input", "exit"}
  /\ cur \in Slots
  /\ left \in 0..MaxLines
  /\ fault \in Faults
  /\ fault = "none" /\ pc \in {"control", "cmd", "output"} => clients[cur] # NoClient
  /\ pc = "cmd" => left > 0

(***************************************************************************)
(* A client's data pointer is never dangling, and never shared: it is NULL *)
(* or the address of an allocated channel that is not yet given up to      *)
(* dtp_poll() (DTP_FREE), and no other client holds the same one.          *)
(* handle_data_events() and every data command read through it unchecked.  *)
(***************************************************************************)
ChannelOwnership ==
  \A s \in Slots \ OpenSlots : clients[s].data # Null =>
    /\ clients[s].data \in m.heap
    /\ m.blk[clients[s].data].state # "FREE"
    /\ \A t \in Slots \ OpenSlots : clients[t].data = clients[s].data => t = s

(***************************************************************************)
(* dtp_poll() and new_data_channel() thread every channel on dtp_list or   *)
(* next_dtp_list, in the middle of a pass on either.  As long as no        *)
(* channel was freed that dtp_poll() had not unlinked, no pointer of the   *)
(* two lists leads to a freed block ...                                    *)
(***************************************************************************)
NoDangling == ~m.early => PointersLive(m)

(***************************************************************************)
(* ... no two pointers lead to the same channel, so that none is polled    *)
(* twice in a pass or freed twice ...                                      *)
(***************************************************************************)
LinkedOnce == ~m.early => PointersDistinct(m)

(***************************************************************************)
(* ... and every allocated channel is on one of the lists.  A channel that *)
(* fell off them is never polled, connected or freed again.                *)
(***************************************************************************)
NoChannelLost == ~m.early => AllLinked(m)

(***************************************************************************)
(* As long as no descriptor was closed that its owner had not stored, each *)
(* open descriptor in use has one user: the log, the server, a client, a   *)
(* channel that listens or one that is connected.  Otherwise a close or a  *)
(* send of one session would hit another.                                  *)
(***************************************************************************)
ChannelFds(b) ==
  ({b.remote_fd} \union (IF b.iface = "passive" THEN {b.listen_fd} ELSE {})) \ {NoFd}

FdOwnership == ~m.wild =>
  LET present  == Slots \ OpenSlots
      sessions == m.open \ {FdZero, ServerFd}
  IN  /\ FdZero \in m.open
      /\ pc \notin {"start", "exit"} => ServerFd \in m.open
      /\ ClientFds \subseteq sessions
      /\ \A s, t \in present : clients[s].fd = clients[t].fd => s = t
      /\ \A c \in m.heap :
           /\ ChannelFds(m.blk[c]) \subseteq sessions \ ClientFds
           /\ m.blk[c].remote_fd # NoFd => m.blk[c].remote_fd # m.blk[c].listen_fd
           /\ \A d \in m.heap \ {c} : ChannelFds(m.blk[c]) \intersect ChannelFds(m.blk[d]) = {}

(***************************************************************************)
(* A channel in DTP_SENDING is connected and has something to send: if     *)
(* either were missing dtp_copy_data() would return without a state change *)
(* on every poll, and its client would wait for ever.                      *)
(***************************************************************************)
NoStalledSend ==
  \A c \in m.heap : m.blk[c].state = "SENDING" =>
    m.blk[c].remote_fd # NoFd /\ m.blk[c].buf /\ m.blk[c].local # "none"

-----------------------------------------------------------------------------
(***************************************************************************)
(* The lists implement module ChannelRegistry: what is threaded on         *)
(* dtp_list is still to be visited, what is on next_dtp_list waits, and a  *)
(* channel whose client let go of it (DTP_FREE) is what a visit frees.     *)
(***************************************************************************)
Threaded(head) ==
  {c \in m.heap : \A S \in SUBSET m.heap :
     /\ head \in S \union {Null}
     /\ \A d \in S : m.blk[d].next \in S \union {Null}
     => c \in S}

Registry ==
  INSTANCE ChannelRegistry WITH
    todo    <- Threaded(m.list),
    later   <- Threaded(m.nlist),
    given   <- {c \in m.heap : m.blk[c].state = "FREE"},
    polling <- pc = "poll",
    broken  <- m.early \/ Halted

(***************************************************************************)
(* Every channel made is visited once in every pass from the second on,    *)
(* and none is freed but by the visit after it was given up, whatever the  *)
(* sessions do between the passes and while the lists are turned over.     *)
(***************************************************************************)
ChannelsRegistered == Registry!Spec

-----------------------------------------------------------------------------
(***************************************************************************)
(* While the lists are sound, dtp_poll() returns.                          *)
(***************************************************************************)
SoundPollReturns == (pc = "poll" /\ ~m.early) ~> (pc # "poll" \/ Halted)

(***************************************************************************)
(* A client that waits for its transfer hears of its end: once the channel *)
(* is dead, handle_data_events() clears STATE_DATA (or the client is gone).*)
(***************************************************************************)
Waits(s) ==
  /\ clients[s] # NoClient
  /\ "DATA" \in clients[s].state

DeadTransfer(s) ==
  /\ Waits(s)
  /\ clients[s].data # Null
  /\ m.blk[clients[s].data].state \in DeadStates

TransferReported ==
  \A s \in Slots : DeadTransfer(s) ~> (~Waits(s) \/ m.early \/ Halted)

(***************************************************************************)
(* A channel its client has let go of is freed by a later dtp_poll().      *)
(***************************************************************************)
LetGo(c) == c \in m.heap /\ m.blk[c].state = "FREE"

Reclaimed == \A c \in Chans : LetGo(c) ~> (~LetGo(c) \/ m.early \/ Halted)

-----------------------------------------------------------------------------
(* What the comments and the replies of the code promise and the code does *)
(* not keep: each is checked by a run of its own that shows how.           *)

(* src/src/dtp/dtp.h: DTP_FREE is "references are cleaned up; ready to     *)
(* free".  A channel is freed in no other state.                           *)
FreedOnlyInFreeState == ~m.early

(* src/src/dtp/dtp.h: DTP_XMIT is "channel is sending data to remote".  A  *)
(* connected channel with a listing does not stay unsent.                  *)
ListingGoesOut ==
  \A s \in Slots :
    (Waits(s) /\ clients[s].data # Null /\ m.blk[clients[s].data].buf
              /\ m.blk[clients[s].data].state = "ESTABLISHED")
    ~> (~Waits(s) \/ Halted)

=============================================================================
