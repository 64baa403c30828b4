-------------------------- MODULE FtpServerProofs --------------------------
(***************************************************************************)
(* What is proved of module FtpServer, for any number of clients, channels *)
(* and descriptors.                                                        *)
(***************************************************************************)
EXTENDS FtpServer, TLAPS

(* The state words SetState() and Ready() store are channel states.        *)
LEMMA SetStateType ==
  ASSUME NEW b \in Block, NEW s \in ChanStates
  PROVE  SetState(b, s) \in Block
BY DEF SetState, Block

LEMMA ReadyType == ASSUME NEW b \in Block PROVE Ready(b) \in Block
BY SetStateType DEF Ready, ChanStates

LEMMA FinishedType == ASSUME NEW b \in Block PROVE Finished(b) \in Block
<1>1. SetState(b, "CLOSED") \in Block
  BY SetStateType DEF ChanStates
<1> QED
  BY <1>1 DEF Finished, Block, MaybeFd

LEMMA SendResultsType ==
  ASSUME NEW b \in Block, NEW r \in SendResults(b) PROVE r \in Block
BY SetStateType, FinishedType DEF SendResults, ChanStates

LEMMA QueuedType ==
  ASSUME NEW b \in Block, NEW listing \in {"listing", "null"}
  PROVE  Queued(b, listing) \in Block
BY DEF Queued, Block

LEMMA StoreType ==
  ASSUME NEW mem \in Memory, NEW c \in Chans, NEW b \in Block
  PROVE  [mem EXCEPT !.blk[c] = b] \in Memory
BY DEF Memory

LEMMA CloseFdsType ==
  ASSUME NEW mem \in Memory, NEW fds PROVE CloseFds(mem, fds) \in Memory
BY DEF CloseFds, Memory

LEMMA NewChannelType ==
  ASSUME NEW mem \in Memory, NEW c \in Chans, NEW iface \in {"passive", "active"},
         NEW f \in MaybeFd
  PROVE  NewChannel(mem, c, iface, f) \in Memory
BY DEF NewChannel, Memory, Block, Ptr, MaybeFd, ChanStates

LEMMA FreedType == ASSUME NEW b \in Block PROVE Freed(b) \in Block
<1>1. (IF b.buf THEN "null" ELSE "none") \in {"none", "null", "listing"}
  OBVIOUS
<1> QED
  BY <1>1 DEF Freed, Block, Ptr, MaybeFd

LEMMA FreeChannelType ==
  ASSUME NEW mem \in Memory, NEW c \in Chans PROVE FreeChannel(mem, c) \in Memory
<1> DEFINE b     == mem.blk[c]
           blk   == [mem.blk EXCEPT ![c] = Freed(b)]
           heap  == mem.heap \ {c}
           open  == mem.open \ {b.listen_fd, b.remote_fd}
           wild  == IF b.iface = "active" /\ b.listen_fd # NoFd THEN TRUE ELSE mem.wild
           early == IF b.state = "FREE" THEN mem.early ELSE TRUE
<1>1. blk \in [Chans -> Block]
  BY FreedType DEF Memory
<1>2. wild \in BOOLEAN
  BY DEF Memory
<1>3. early \in BOOLEAN
  BY DEF Memory
<1>4. heap \in SUBSET Chans /\ open \in SUBSET Fd
  BY DEF Memory
<1>5. FreeChannel(mem, c) =
        [mem EXCEPT !.blk = blk, !.heap = heap, !.open = open, !.wild = wild, !.early = early]
  BY Zenon DEF FreeChannel
<1> HIDE DEF blk, heap, open, wild, early
<1> QED
  BY <1>1, <1>2, <1>3, <1>4, <1>5 DEF Memory

LEMMA UnlinkedType ==
  ASSUME NEW mem \in Memory, NEW c \in Chans PROVE Unlinked(mem, c) \in Memory
<1>1. [mem.blk[c] EXCEPT !.next = Null] \in Block /\ mem.blk[c].next \in Ptr
  BY DEF Memory, Block, Ptr
<1> QED
  BY <1>1 DEF Unlinked, Memory

LEMMA RequeuedType ==
  ASSUME NEW mem \in Memory, NEW c \in Chans PROVE Requeued(mem, c) \in Memory
<1>1. [mem.blk[c] EXCEPT !.next = mem.nlist] \in Block /\ mem.blk[c].next \in Ptr
  BY DEF Memory, Block, Ptr
<1>2. c \in Ptr
  BY DEF Ptr
<1> QED
  BY <1>1, <1>2 DEF Requeued, Memory

LEMMA ListsSwappedType ==
  ASSUME NEW mem \in Memory PROVE ListsSwapped(mem) \in Memory
BY DEF ListsSwapped, Memory, Ptr

LEMMA AcceptedType ==
  ASSUME NEW mem \in Memory, NEW c \in Chans, NEW f \in Fd
  PROVE  Accepted(mem, c, f) \in Memory
<1> DEFINE b == SetState(mem.blk[c], "ESTABLISHED")
<1>1. b \in Block
  BY SetStateType DEF Memory, ChanStates
<1>2. [b EXCEPT !.listen_fd = NoFd, !.remote_fd = f] \in Block
  BY <1>1 DEF Block, MaybeFd
<1> QED
  BY <1>2 DEF Accepted, Memory

-----------------------------------------------------------------------------
LEMMA ReplyType ==
  ASSUME NEW cl \in Client
  PROVE  Reply(cl) \in Client /\ Reply(cl).data = cl.data /\ Reply(cl).fd = cl.fd
<1>1. (IF cl.out < OutCap THEN cl.out + 1 ELSE cl.out) \in 0..OutCap
  BY ServerAssumption DEF Client
<1> QED
  BY <1>1 DEF Reply, Client

LEMMA NewClientType ==
  ASSUME NEW f \in Fd
  PROVE  NewClient(f) \in Client /\ NewClient(f).data = Null /\ NewClient(f).fd = f
<1> DEFINE blank == [fd |-> f, state |-> {}, data |-> Null, out |-> 0]
<1>1. blank \in Client
  BY ServerAssumption DEF Client, Ptr, Flags
<1> QED
  BY <1>1, ReplyType DEF NewClient

(* The state of a client, as a record of which one part changes.           *)
LEMMA ClientUpdates ==
  ASSUME NEW cl \in Client, NEW st \in SUBSET Flags, NEW d \in Ptr
  PROVE  /\ [cl EXCEPT !.state = st] \in Client
         /\ [cl EXCEPT !.data = d] \in Client
         /\ [cl EXCEPT !.state = st, !.data = d] \in Client
         /\ [cl EXCEPT !.out = 0] \in Client
<1>1. 0 \in 0..OutCap
  BY ServerAssumption
<1>2. [cl EXCEPT !.state = st] \in Client /\ [cl EXCEPT !.data = d] \in Client
  BY DEF Client
<1>3. [cl EXCEPT !.state = st, !.data = d] \in Client
  BY DEF Client
<1> QED
  BY <1>1, <1>2, <1>3 DEF Client

LEMMA PresentClient ==
  ASSUME TypeOK, NEW s \in Slots, clients[s] # NoClient
  PROVE  clients[s] \in Client
BY DEF TypeOK

(* The server starts well typed.                                           *)
LEMMA TypeInit == Init => TypeOK
<1> SUFFICES ASSUME Init PROVE TypeOK
  OBVIOUS
<1>1. EmptyBlock \in Block
  BY DEF EmptyBlock, Block, Ptr, MaybeFd, ChanStates
<1>2. m \in Memory
  BY <1>1, ServerAssumption DEF Init, InitMemory, Memory, Ptr
<1>3. 1 \in Slots /\ 0 \in 0..MaxLines
  BY ServerAssumption DEF Slots
<1> QED
  BY <1>2, <1>3 DEF Init, TypeOK, Faults

LEMMA NextSlotType ==
  ASSUME cur \in Slots, NextSlot
  PROVE  pc' \in {"data", "input"} /\ cur' \in Slots
BY ServerAssumption DEF NextSlot, Slots

(* The parts of TypeOK, for the steps that leave the thread between two    *)
(* slots.                                                                  *)
LEMMA BetweenSlots ==
  ASSUME m' \in Memory, clients' \in [Slots -> Client \union {NoClient}],
         pc' \in {"start", "accept", "poll", "data", "input", "exit"},
         cur' \in Slots, left' \in 0..MaxLines, fault' \in Faults
  PROVE  TypeOK'
BY DEF TypeOK

LEMMA CrashType ==
  ASSUME TypeOK, NEW why \in Faults \ {"none"}, Crash(why) PROVE TypeOK'
BY DEF TypeOK, Crash

LEMMA ShutdownType == ASSUME TypeOK, Shutdown PROVE TypeOK'
<1>1. m' \in Memory
  BY CloseFdsType DEF Shutdown, TypeOK
<1> QED
  BY <1>1, BetweenSlots DEF Shutdown, TypeOK

LEMMA AcceptType == ASSUME TypeOK, Accept PROVE TypeOK'
<1>1. CASE AcceptNobody
  BY <1>1 DEF AcceptNobody, TypeOK
<1>2. CASE AcceptFails
  BY <1>2, ShutdownType DEF AcceptFails
<1>3. CASE AcceptClient
  <2>1. PICK f \in Fd \ m.open, s \in OpenSlots :
          /\ clients' = [clients EXCEPT ![s] = NewClient(f)]
          /\ m' = [m EXCEPT !.open = @ \union {f}]
    BY <1>3 DEF AcceptClient
  <2>2. m' \in Memory
    BY <2>1 DEF TypeOK, Memory
  <2>3. clients' \in [Slots -> Client \union {NoClient}]
    BY <2>1, NewClientType DEF TypeOK, OpenSlots
  <2> QED
    BY <1>3, <2>2, <2>3, BetweenSlots DEF AcceptClient, TypeOK
<1>4. CASE AcceptRefused
  <2>1. [CloseFds(m, {FdZero}) EXCEPT !.wild = TRUE] \in Memory
    BY CloseFdsType DEF TypeOK, Memory
  <2>2. m' \in Memory
    BY <1>4, <2>1 DEF AcceptRefused, TypeOK
  <2> QED
    BY <1>4, <2>2, BetweenSlots DEF AcceptRefused, TypeOK
<1> QED
  BY <1>1, <1>2, <1>3, <1>4 DEF Accept

(* The steps of dtp_poll() change the memory and nothing else.             *)
LEMMA MemoryStepType ==
  ASSUME TypeOK, m' \in Memory, UNCHANGED <<clients, pc, cur, left, fault>>
  PROVE  TypeOK'
BY DEF TypeOK

LEMMA RequeueType ==
  ASSUME TypeOK, NEW c \in Chans, NEW b \in Block, Requeue(c, b) PROVE TypeOK'
<1>1. [m EXCEPT !.blk[c] = b] \in Memory
  BY StoreType DEF TypeOK
<1>2. m' \in Memory
  BY <1>1, RequeuedType DEF Requeue
<1> QED
  BY <1>2, MemoryStepType DEF Requeue

LEMMA PollType == ASSUME TypeOK, NEW c \in Chans, Poll(c) PROVE TypeOK'
<1> DEFINE b == m.blk[c]
<1>1. m \in Memory /\ b \in Block
  BY DEF TypeOK, Memory
<1>2. CASE PollAccept(c)
  <2>1. SetState(b, "ERROR") \in Block
    BY <1>1, SetStateType DEF ChanStates
  <2>2. CASE Requeue(c, b) \/ Requeue(c, SetState(b, "ERROR"))
    BY <1>1, <2>1, <2>2, RequeueType
  <2>3. CASE /\ \E f \in Fd \ m.open : m' = Requeued(Accepted(m, c, f), c)
             /\ UNCHANGED <<clients, pc, cur, left, fault>>
    BY <1>1, <2>3, AcceptedType, RequeuedType, MemoryStepType
  <2> QED
    BY <1>2, <2>2, <2>3 DEF PollAccept
<1>3. CASE PollIdle(c)
  BY <1>1, <1>3, RequeueType DEF PollIdle
<1>4. CASE PollReady(c)
  BY <1>1, <1>4, ReadyType, RequeueType DEF PollReady
<1>5. CASE PollSend(c)
  <2>1. PICK r \in SendResults(b) :
          \/ Requeue(c, r)
          \/ /\ m' = Requeued([CloseFds(m, {b.remote_fd}) EXCEPT !.blk[c] = r], c)
             /\ UNCHANGED <<clients, pc, cur, left, fault>>
    BY <1>5 DEF PollSend
  <2>2. r \in Block
    BY <1>1, SendResultsType
  <2>3. [CloseFds(m, {b.remote_fd}) EXCEPT !.blk[c] = r] \in Memory
    BY <1>1, <2>2, CloseFdsType, StoreType
  <2> QED
    BY <2>1, <2>2, <2>3, RequeueType, RequeuedType, MemoryStepType
<1>6. CASE PollFree(c)
  <2>1. FreeChannel(Unlinked(m, c), c) \in Memory
    BY <1>1, UnlinkedType, FreeChannelType
  <2> QED
    BY <1>6, <2>1, CrashType, MemoryStepType DEF PollFree, Faults
<1>7. CASE PollStale(c)
  BY <1>7, CrashType DEF PollStale, Faults
<1> QED
  BY <1>2, <1>3, <1>4, <1>5, <1>6, <1>7 DEF Poll

-----------------------------------------------------------------------------
LEMMA DataEventsType ==
  ASSUME TypeOK, fault = "none", DataEvents PROVE TypeOK'
<1> DEFINE cl   == clients[cur]
           done == Released(cl)
<1>1. m \in Memory /\ cl \in Client
  BY PresentClient DEF TypeOK, DataEvents
<1>2. done \in Client /\ Reply(done) \in Client
  <2>1. cl.state \ {"DATA"} \in SUBSET Flags /\ Null \in Ptr
    BY <1>1 DEF Client, Ptr
  <2> QED
    BY <1>1, <2>1, ClientUpdates, ReplyType DEF Released
<1>3. m' \in Memory
  <2>1. CASE cl.data # Null
    <3>1. cl.data \in Chans
      BY <1>1, <2>1 DEF Client, Ptr
    <3>2. SetState(m.blk[cl.data], "FREE") \in Block
      BY <1>1, <3>1, SetStateType DEF Memory, ChanStates
    <3>3. [m EXCEPT !.blk[cl.data] = SetState(@, "FREE")] \in Memory
      BY <1>1, <3>1, <3>2, StoreType
    <3> QED
      BY <1>1, <2>1, <3>3 DEF DataEvents
  <2>2. CASE cl.data = Null
    BY <1>1, <2>2 DEF DataEvents
  <2> QED
    BY <2>1, <2>2
<1>4. clients' \in [Slots -> Client \union {NoClient}] /\ clients'[cur] # NoClient
  BY <1>1, <1>2, NoClientAssumption DEF DataEvents, TypeOK
<1>5. pc' \in {"control", "output"} /\ UNCHANGED <<cur, left, fault>>
  BY DEF DataEvents
<1> QED
  BY <1>3, <1>4, <1>5 DEF TypeOK

LEMMA ReceiveType == ASSUME TypeOK, fault = "none", Receive PROVE TypeOK'
BY ServerAssumption DEF Receive, TypeOK

(* A client that is freed leaves its slot and its descriptor.              *)
LEMMA CleanupType ==
  ASSUME TypeOK, NEW cl \in Client
  PROVE  /\ FreeClient(m, cl) \in Memory
         /\ [clients EXCEPT ![cur] = NoClient] \in [Slots -> Client \union {NoClient}]
BY CloseFdsType DEF FreeClient, TypeOK

LEMMA DisconnectedType ==
  ASSUME TypeOK, fault = "none", Disconnected PROVE TypeOK'
<1>1. clients[cur] \in Client
  BY PresentClient DEF Disconnected, TypeOK
<1>2. m' \in Memory /\ clients' \in [Slots -> Client \union {NoClient}]
  BY <1>1, CleanupType DEF Disconnected
<1>3. CASE fault' = "use after free" /\ UNCHANGED <<pc, cur>>
  BY <1>2, <1>3 DEF Disconnected, TypeOK, Faults
<1>4. CASE NextSlot /\ UNCHANGED fault
  BY <1>2, <1>4, NextSlotType, BetweenSlots DEF Disconnected, TypeOK
<1> QED
  BY <1>3, <1>4 DEF Disconnected

LEMMA OutputType == ASSUME TypeOK, fault = "none", Output PROVE TypeOK'
<1> DEFINE cl == clients[cur]
<1>1. cl \in Client
  BY PresentClient DEF Output, TypeOK
<1>2. [clients EXCEPT ![cur].out = 0] \in [Slots -> Client \union {NoClient}]
  <2>1. [cl EXCEPT !.out = 0] \in Client
    BY ServerAssumption, <1>1 DEF Client
  <2>2. [clients EXCEPT ![cur] = [cl EXCEPT !.out = 0]] \in [Slots -> Client \union {NoClient}]
    BY <2>1 DEF TypeOK
  <2> QED
    BY <2>2
<1>3. m' \in Memory /\ clients' \in [Slots -> Client \union {NoClient}]
  BY <1>1, <1>2, CleanupType DEF Output, TypeOK
<1> QED
  BY <1>3, NextSlotType, BetweenSlots DEF Output, TypeOK

LEMMA HandledType ==
  ASSUME TypeOK, pc = "cmd", fault = "none",
         NEW cl \in Client, NEW mem \in Memory, Handled(cl, mem)
  PROVE  TypeOK'
<1>1. left' \in 0..MaxLines /\ (pc' = "cmd" => left' > 0)
  BY ServerAssumption DEF Handled, TypeOK
<1>2. clients' \in [Slots -> Client \union {NoClient}] /\ clients'[cur] # NoClient
  BY NoClientAssumption DEF Handled, TypeOK
<1> QED
  BY <1>1, <1>2 DEF Handled, TypeOK

LEMMA SendListingType ==
  ASSUME TypeOK, pc = "cmd", fault = "none", NEW cl \in Client, NEW c \in Chans,
         NEW mem \in Memory, SendListing(cl, c, mem)
  PROVE  TypeOK'
<1> DEFINE b    == mem.blk[c]
           busy == [cl EXCEPT !.state = @ \union {"DATA"}, !.data = c]
<1>1. busy \in Client /\ Reply(busy) \in Client
  <2>1. cl.state \union {"DATA"} \in SUBSET Flags /\ c \in Ptr
    BY DEF Client, Flags, Ptr
  <2> QED
    BY <2>1, ClientUpdates, ReplyType
<1>2. CASE IsConnected(b) /\ CanQueue(b)
  <2>1. PICK listing \in {"listing", "null"} :
          Handled(busy, [mem EXCEPT !.blk[c] = Queued(b, listing)])
    BY <1>2 DEF SendListing
  <2>2. Queued(b, listing) \in Block
    BY QueuedType DEF Memory
  <2>3. [mem EXCEPT !.blk[c] = Queued(b, listing)] \in Memory
    BY <2>2, StoreType
  <2> QED
    BY <1>1, <2>1, <2>3, HandledType
<1>3. CASE ~(IsConnected(b) /\ CanQueue(b))
  <2>1. [mem EXCEPT !.blk[c].remote_fd = NoFd] \in Memory
    <3>1. [b EXCEPT !.remote_fd = NoFd] \in Block
      BY DEF Memory, Block, MaybeFd
    <3> QED
      BY <3>1, StoreType
  <2> DEFINE after == IF IsConnected(b) THEN mem
                                        ELSE [mem EXCEPT !.blk[c].remote_fd = NoFd]
  <2>2. after \in Memory
    BY <2>1
  <2>3. Handled(Reply(busy), after)
    BY <1>3 DEF SendListing
  <2> QED
    BY <1>1, <2>2, <2>3, HandledType
<1> QED
  BY <1>2, <1>3

LEMMA NewPassiveType ==
  ASSUME NEW mem \in Memory, NEW c \in Chans, NEW f \in Fd
  PROVE  NewPassive(mem, c, f) \in Memory
<1>1. NewChannel(mem, c, "passive", f) \in Memory
  BY NewChannelType DEF MaybeFd
<1> QED
  BY <1>1 DEF NewPassive, Memory

LEMMA NewActiveType ==
  ASSUME NEW mem \in Memory, NEW c \in Chans, NEW garbage \in UninitFd
  PROVE  NewActive(mem, c, garbage) \in Memory
BY NewChannelType, ChannelAssumption DEF NewActive, MaybeFd

LEMMA CommandType == ASSUME TypeOK, fault = "none", Command PROVE TypeOK'
<1> DEFINE cl == clients[cur]
<1>1. m \in Memory /\ pc = "cmd" /\ cl \in Client
  BY PresentClient DEF Command, TypeOK
<1>2. PICK cmd \in Commands : Invoke(cl, cmd)
  BY DEF Command
<1>3. Reply(cl) \in Client
  BY <1>1, ReplyType
<1>4. CASE Handled(Reply(cl), m) \/ Handled(cl, m)
  BY <1>1, <1>3, <1>4, HandledType
<1>5. CASE User(cl) \/ Pass(cl) \/ Quit(cl) \/ Rein(cl)
  <2>1. ASSUME NEW st \in SUBSET Flags, Handled(Reply([cl EXCEPT !.state = st]), m)
        PROVE  TypeOK'
    <3>1. [cl EXCEPT !.state = st] \in Client
      BY <1>1 DEF Client
    <3> QED
      BY <1>1, <2>1, <3>1, ReplyType, HandledType
  <2>2. /\ {"USER"} \in SUBSET Flags
        /\ (IF cl.state = {"USER"} THEN {"AUTH"} ELSE cl.state) \in SUBSET Flags
        /\ cl.state \union {"DISCONN"} \in SUBSET Flags
        /\ {} \in SUBSET Flags
    BY <1>1 DEF Client, Flags
  <2> QED
    BY <1>5, <2>1, <2>2 DEF User, Pass, Quit, Rein
<1>6. CASE Pasv(cl)
  <2>1. CASE Crash("bad free") \/ Crash("null deref")
    BY <2>1, CrashType DEF Faults
  <2>2. CASE ~(Crash("bad free") \/ Crash("null deref"))
    <3> DEFINE mem == IF cl.data = Null THEN m ELSE FreeChannel(m, cl.data)
    <3>1. mem \in Memory
      BY <1>1, FreeChannelType DEF Client, Ptr
    <3> HIDE DEF mem
    <3>2. PICK c \in Chans \ mem.heap, f \in Fd \ mem.open :
            Handled(Reply([cl EXCEPT !.data = c]), NewPassive(mem, c, f))
      BY <1>6, <2>2 DEF Pasv, mem
    <3>3. [cl EXCEPT !.data = c] \in Client
      BY <1>1 DEF Client, Ptr
    <3> QED
      BY <1>1, <3>1, <3>2, <3>3, NewPassiveType, ReplyType, HandledType
  <2> QED
    BY <2>1, <2>2
<1>7. CASE Port(cl)
  <2>1. CASE Crash("null deref")
    BY <2>1, CrashType DEF Faults
  <2>2. ASSUME NEW c \in Chans \ m.heap, NEW garbage \in UninitFd,
               Handled([cl EXCEPT !.data = c], NewActive(m, c, garbage))
        PROVE  TypeOK'
    <3>1. [cl EXCEPT !.data = c] \in Client
      BY <1>1 DEF Client, Ptr
    <3> QED
      BY <1>1, <2>2, <3>1, NewActiveType, HandledType
  <2> QED
    BY <1>7, <2>1, <2>2 DEF Port
<1>8. CASE List(cl)
  <2>1. CASE Crash("null deref")
    BY <2>1, CrashType DEF Faults
  <2>2. CASE cl.data # Null /\ SendListing(cl, cl.data, m)
    BY <1>1, <2>2, SendListingType DEF Client, Ptr
  <2>3. ASSUME NEW c \in Chans \ m.heap, NEW garbage \in UninitFd,
               SendListing(cl, c, NewActive(m, c, garbage))
        PROVE  TypeOK'
    BY <1>1, <2>3, NewActiveType, SendListingType
  <2> QED
    BY <1>8, <2>1, <2>2, <2>3 DEF List
<1> QED
  BY <1>2, <1>4, <1>5, <1>6, <1>7, <1>8 DEF Invoke

LEMMA TypeStep == ASSUME TypeOK, [Next]_vars PROVE TypeOK'
<1>1. CASE UNCHANGED vars
  BY <1>1 DEF vars, TypeOK
<1>2. CASE ~Halted /\ Server
  <2>1. fault = "none"
    BY <1>2 DEF Halted
  <2>2. CASE Listen
    <3>1. [m EXCEPT !.open = @ \union {ServerFd}] \in Memory
      BY ServerAssumption DEF TypeOK, Memory
    <3> QED
      BY <2>2, <3>1, BetweenSlots DEF Listen, TypeOK
  <2>3. CASE PollEnd
    BY <2>3, ListsSwappedType, BetweenSlots DEF PollEnd, TypeOK
  <2>4. CASE SkipSlot
    BY <2>4, NextSlotType, BetweenSlots DEF SkipSlot, TypeOK
  <2>5. CASE Input
    BY <2>5, ShutdownType, BetweenSlots DEF Input, TypeOK
  <2> QED
    BY <1>2, <2>1, <2>2, <2>3, <2>4, <2>5, AcceptType, PollType, DataEventsType,
       ReceiveType, DisconnectedType, CommandType, OutputType DEF Server
<1> QED
  BY <1>1, <1>2 DEF Next

(***************************************************************************)
(* Every variable of the server stays in its type: the memory is one, each *)
(* slot holds a client or nothing, and the thread serves no empty slot.    *)
(***************************************************************************)
THEOREM TypeCorrect == Spec => []TypeOK
BY TypeInit, TypeStep, PTL DEF Spec

-----------------------------------------------------------------------------
(***************************************************************************)
(* The data channels of module FtpServer, for any number of them: whose    *)
(* they are, and that the lists of dtp_poll() hold each exactly once.      *)
(***************************************************************************)

(***************************************************************************)
(* The lists.  What an operator of module DataChannels makes of sound ones.*)
(***************************************************************************)
Sound(mem) == PointersLive(mem) /\ PointersDistinct(mem) /\ AllLinked(mem)

(* The lists are made of the heads and the next fields, nothing else.      *)
LEMMA SameLinks ==
  ASSUME NEW mem \in Memory, NEW new \in Memory, Sound(mem),
         new.heap = mem.heap, new.list = mem.list, new.nlist = mem.nlist,
         \A c \in Chans : new.blk[c].next = mem.blk[c].next
  PROVE  Sound(new)
<1>1. mem.heap \subseteq Chans
  BY DEF Memory
<1>2. PointersLive(new)
  BY <1>1 DEF Sound, PointersLive
<1>3. PointersDistinct(new)
  BY <1>1 DEF Sound, PointersDistinct
<1>4. AllLinked(new)
  <2> SUFFICES ASSUME NEW S \in SUBSET new.heap, Closed(new, S) PROVE S = new.heap
    BY DEF AllLinked
  <2>1. Closed(mem, S)
    BY <1>1 DEF Closed
  <2> QED
    BY <2>1 DEF Sound, AllLinked
<1> QED
  BY <1>2, <1>3, <1>4 DEF Sound

LEMMA RequeuedSound ==
  ASSUME NEW mem \in Memory, Sound(mem), NEW c \in Chans, mem.list = c, c # Null
  PROVE  Sound(Requeued(mem, c))
<1> DEFINE new == Requeued(mem, c)
<1>1. mem.heap \subseteq Chans /\ c \in mem.heap
  BY DEF Memory, Sound, PointersLive
<1>2. /\ new.heap = mem.heap
      /\ new.list = mem.blk[c].next
      /\ new.nlist = c
      /\ new.blk[c].next = mem.nlist
      /\ \A d \in Chans \ {c} : new.blk[d].next = mem.blk[d].next
  BY DEF Requeued, Memory, Block
<1> HIDE DEF new
<1>3. PointersLive(new)
  BY <1>1, <1>2 DEF Sound, PointersLive
<1>4. PointersDistinct(new)
  BY <1>1, <1>2 DEF Sound, PointersDistinct
<1>5. AllLinked(new)
  <2> SUFFICES ASSUME NEW S \in SUBSET new.heap, Closed(new, S) PROVE S = new.heap
    BY DEF AllLinked
  <2>1. Closed(mem, S)
    BY <1>1, <1>2 DEF Closed
  <2> QED
    BY <1>2, <2>1 DEF Sound, AllLinked
<1> QED
  BY <1>3, <1>4, <1>5 DEF Sound, new

LEMMA NewChannelSound ==
  ASSUME NEW mem \in Memory, Sound(mem), NEW c \in Chans \ mem.heap,
         NEW iface, NEW f
  PROVE  Sound(NewChannel(mem, c, iface, f))
<1> DEFINE new == NewChannel(mem, c, iface, f)
<1>1. mem.heap \subseteq Chans /\ c # Null
  BY ChannelAssumption DEF Memory
<1>2. /\ new.heap = mem.heap \union {c}
      /\ new.list = mem.list
      /\ new.nlist = c
      /\ new.blk[c].next = mem.nlist
      /\ \A d \in Chans \ {c} : new.blk[d].next = mem.blk[d].next
  BY DEF NewChannel, Memory, Block
<1> HIDE DEF new
<1>3. PointersLive(new)
  BY <1>1, <1>2 DEF Sound, PointersLive
<1>4. PointersDistinct(new)
  BY <1>1, <1>2 DEF Sound, PointersLive, PointersDistinct
<1>5. AllLinked(new)
  <2> SUFFICES ASSUME NEW S \in SUBSET new.heap, Closed(new, S) PROVE S = new.heap
    BY DEF AllLinked
  <2> DEFINE T == S \ {c}
  <2>1. T \in SUBSET mem.heap /\ c \in S
    BY <1>1, <1>2 DEF Closed
  <2>2. Closed(mem, T)
    BY <1>1, <1>2, <2>1 DEF Closed, Sound, PointersLive
  <2>3. T = mem.heap
    BY <2>1, <2>2 DEF Sound, AllLinked
  <2> QED
    BY <1>2, <2>1, <2>3
<1> QED
  BY <1>3, <1>4, <1>5 DEF Sound, new

LEMMA FreedHeadSound ==
  ASSUME NEW mem \in Memory, Sound(mem), NEW c \in Chans, mem.list = c, c # Null
  PROVE  Sound(FreeChannel(Unlinked(mem, c), c))
<1> DEFINE new == FreeChannel(Unlinked(mem, c), c)
<1>1. mem.heap \subseteq Chans /\ c \in mem.heap
  BY DEF Memory, Sound, PointersLive
<1>2. /\ new.heap = mem.heap \ {c}
      /\ new.list = mem.blk[c].next
      /\ new.nlist = mem.nlist
      /\ \A d \in Chans \ {c} : new.blk[d].next = mem.blk[d].next
  BY DEF FreeChannel, Unlinked, Memory, Block
<1> HIDE DEF new
<1>3. PointersLive(new)
  BY <1>1, <1>2 DEF Sound, PointersLive, PointersDistinct
<1>4. PointersDistinct(new)
  BY <1>1, <1>2 DEF Sound, PointersDistinct
<1>5. AllLinked(new)
  <2> SUFFICES ASSUME NEW S \in SUBSET new.heap, Closed(new, S) PROVE S = new.heap
    BY DEF AllLinked
  <2> DEFINE T == S \union {c}
  <2>1. T \in SUBSET mem.heap /\ c \notin S
    BY <1>1, <1>2
  <2>2. Closed(mem, T)
    BY <1>1, <1>2 DEF Closed
  <2>3. T = mem.heap
    BY <2>1, <2>2 DEF Sound, AllLinked
  <2> QED
    BY <1>2, <2>1, <2>3
<1> QED
  BY <1>3, <1>4, <1>5 DEF Sound, new

LEMMA SwappedSound ==
  ASSUME NEW mem \in Memory, Sound(mem), mem.list = Null
  PROVE  Sound(ListsSwapped(mem))
<1> DEFINE new == ListsSwapped(mem)
<1>1. mem.heap \subseteq Chans
  BY DEF Memory
<1>2. /\ new.heap = mem.heap /\ new.list = mem.nlist /\ new.nlist = Null
      /\ new.blk = mem.blk
  BY DEF ListsSwapped, Memory
<1> HIDE DEF new
<1>3. PointersLive(new) /\ PointersDistinct(new)
  BY <1>1, <1>2 DEF Sound, PointersLive, PointersDistinct
<1>4. AllLinked(new)
  <2> SUFFICES ASSUME NEW S \in SUBSET new.heap, Closed(new, S) PROVE S = new.heap
    BY DEF AllLinked
  <2>1. Closed(mem, S)
    BY <1>2 DEF Closed
  <2> QED
    BY <1>2, <2>1 DEF Sound, AllLinked
<1> QED
  BY <1>3, <1>4 DEF Sound, new

-----------------------------------------------------------------------------
(***************************************************************************)
(* Ownership.  A step leaves it intact when no channel that may have an    *)
(* owner is freed or given up, and no client gets another channel.         *)
(***************************************************************************)
KeepsOwned(mem, new) ==
  \A c \in mem.heap : mem.blk[c].state # "FREE" =>
    c \in new.heap /\ new.blk[c].state # "FREE"

Present == Slots \ OpenSlots

LEMMA OwnershipKept ==
  ASSUME ChannelOwnership, KeepsOwned(m, m'),
         \A s \in Present' : \/ clients'[s].data = Null
                             \/ s \in Present /\ clients'[s].data = clients[s].data
  PROVE  ChannelOwnership'
BY DEF ChannelOwnership, KeepsOwned, Present

(* Closing descriptors frees no channel.                                   *)
LEMMA CloseFdsKeeps ==
  ASSUME NEW mem \in Memory, NEW fds
  PROVE  /\ KeepsOwned(mem, CloseFds(mem, fds))
         /\ CloseFds(mem, fds).early = mem.early
         /\ Sound(mem) => Sound(CloseFds(mem, fds))
<1> DEFINE new == CloseFds(mem, fds)
<1>1. new \in Memory /\ new.heap = mem.heap /\ new.list = mem.list
      /\ new.nlist = mem.nlist /\ new.blk = mem.blk /\ new.early = mem.early
  BY CloseFdsType DEF CloseFds, Memory
<1> HIDE DEF new
<1> QED
  BY <1>1, SameLinks DEF KeepsOwned, new

(* Storing a block that is not in DTP_FREE, with the same next.            *)
LEMMA StoreKeeps ==
  ASSUME NEW mem \in Memory, NEW c \in Chans, NEW b \in Block
  PROVE  LET new == [mem EXCEPT !.blk[c] = b]
         IN  /\ b.state # "FREE" => KeepsOwned(mem, new)
             /\ new.early = mem.early
             /\ b.next = mem.blk[c].next /\ Sound(mem) => Sound(new)
             /\ new.list = mem.list
             /\ new.heap = mem.heap
<1> DEFINE new == [mem EXCEPT !.blk[c] = b]
<1>1. new \in Memory
  BY StoreType
<1>2. /\ new.heap = mem.heap /\ new.list = mem.list /\ new.nlist = mem.nlist
      /\ new.early = mem.early /\ new.blk[c] = b
      /\ \A d \in Chans \ {c} : new.blk[d] = mem.blk[d]
  BY DEF Memory
<1> HIDE DEF new
<1>3. b.state # "FREE" => KeepsOwned(mem, new)
  BY <1>2 DEF KeepsOwned, Memory
<1>4. b.next = mem.blk[c].next /\ Sound(mem) => Sound(new)
  BY <1>1, <1>2, SameLinks
<1> QED
  BY <1>2, <1>3, <1>4 DEF new

LEMMA RequeuedKeeps ==
  ASSUME NEW mem \in Memory, NEW c \in Chans
  PROVE  KeepsOwned(mem, Requeued(mem, c)) /\ Requeued(mem, c).early = mem.early
BY DEF KeepsOwned, Requeued, Memory, Block

LEMMA NewChannelKeeps ==
  ASSUME NEW mem \in Memory, NEW c \in Chans \ mem.heap,
         NEW iface \in {"passive", "active"}, NEW f \in MaybeFd
  PROVE  LET new == NewChannel(mem, c, iface, f)
         IN  /\ KeepsOwned(mem, new)
             /\ c \in new.heap /\ new.blk[c].state = "PENDING"
             /\ new.early = mem.early
BY DEF KeepsOwned, NewChannel, Memory

(* The steps that change the memory and nothing else.                      *)
LEMMA MemoryStepOwnership ==
  ASSUME ChannelOwnership, KeepsOwned(m, m'), UNCHANGED clients
  PROVE  ChannelOwnership'
BY OwnershipKept DEF Present, OpenSlots

LEMMA KeepsOwnedTrans ==
  ASSUME NEW a, NEW b, NEW c, KeepsOwned(a, b), KeepsOwned(b, c)
  PROVE  KeepsOwned(a, c)
BY DEF KeepsOwned

-----------------------------------------------------------------------------
(* The three list invariants in one.                                       *)
ListsSound == ~m.early => Sound(m)

(* The invariant of the proof.  The lists need the owners: when do_passive *)
(* frees the channel of its client, that channel is in no case in DTP_FREE,*)
(* so that the history variable early tells.                               *)
ChannelInv == TypeOK /\ ChannelOwnership /\ ListsSound

LEMMA ChannelInit == Init => ChannelInv
<1> SUFFICES ASSUME Init PROVE ChannelInv
  OBVIOUS
<1>1. m.heap = {} /\ m.list = Null /\ m.nlist = Null
  BY DEF Init, InitMemory
<1>2. ListsSound
  BY <1>1 DEF ListsSound, Sound, PointersLive, PointersDistinct, AllLinked
<1>3. ChannelOwnership
  BY DEF Init, ChannelOwnership, OpenSlots
<1> QED
  BY <1>2, <1>3, TypeInit DEF ChannelInv

LEMMA CloseStep ==
  ASSUME ChannelInv, NEW fds, m' = CloseFds(m, fds),
         \A s \in Present' : s \in Present /\ clients'[s].data = clients[s].data
  PROVE  ChannelOwnership' /\ ListsSound'
<1>1. m \in Memory
  BY DEF ChannelInv, TypeOK
<1>2. KeepsOwned(m, m') /\ ListsSound'
  BY <1>1, CloseFdsKeeps DEF ChannelInv, ListsSound
<1> QED
  BY <1>2, OwnershipKept DEF ChannelInv

(* A step that leaves the memory alone and gives no client a channel.      *)
LEMMA SessionStep ==
  ASSUME ChannelInv, UNCHANGED m,
         \A s \in Present' : \/ clients'[s].data = Null
                             \/ s \in Present /\ clients'[s].data = clients[s].data
  PROVE  ChannelOwnership' /\ ListsSound'
<1>1. KeepsOwned(m, m')
  BY DEF KeepsOwned
<1> QED
  BY <1>1, OwnershipKept DEF ChannelInv, ListsSound

LEMMA ShutdownStep == ASSUME ChannelInv, Shutdown PROVE ChannelOwnership' /\ ListsSound'
BY CloseStep DEF Shutdown, Present, OpenSlots

LEMMA CrashStep ==
  ASSUME ChannelInv, NEW why, Crash(why) PROVE ChannelOwnership' /\ ListsSound'
BY SessionStep DEF Crash, Present, OpenSlots

LEMMA AcceptStep == ASSUME ChannelInv, Accept PROVE ChannelOwnership' /\ ListsSound'
<1>1. m \in Memory /\ clients \in [Slots -> Client \union {NoClient}]
  BY DEF ChannelInv, TypeOK
<1>2. CASE AcceptNobody
  BY <1>2, SessionStep DEF AcceptNobody, Present, OpenSlots
<1>3. CASE AcceptFails
  BY <1>3, ShutdownStep DEF AcceptFails
<1>4. CASE AcceptClient
  <2>1. PICK f \in Fd \ m.open, s \in OpenSlots :
          /\ clients' = [clients EXCEPT ![s] = NewClient(f)]
          /\ m' = [m EXCEPT !.open = @ \union {f}]
    BY <1>4 DEF AcceptClient
  <2>2. m' \in Memory /\ m'.heap = m.heap /\ m'.list = m.list /\ m'.nlist = m.nlist
        /\ m'.blk = m.blk /\ m'.early = m.early
    BY <1>1, <2>1 DEF Memory
  <2>3. KeepsOwned(m, m') /\ ListsSound'
    BY <1>1, <2>2, SameLinks DEF ChannelInv, ListsSound, KeepsOwned
  <2>4. \A t \in Present' : \/ clients'[t].data = Null
                            \/ t \in Present /\ clients'[t].data = clients[t].data
    BY <1>1, <2>1, NewClientType DEF Present, OpenSlots
  <2> QED
    BY <2>3, <2>4, OwnershipKept DEF ChannelInv
<1>5. CASE AcceptRefused
  <2>1. CASE m' = m
    BY <1>5, <2>1, SessionStep DEF AcceptRefused, Present, OpenSlots
  <2>2. CASE m' = [CloseFds(m, {FdZero}) EXCEPT !.wild = TRUE]
    <3>1. m' \in Memory /\ m'.heap = m.heap /\ m'.list = m.list /\ m'.nlist = m.nlist
          /\ m'.blk = m.blk /\ m'.early = m.early
      BY <1>1, <2>2 DEF Memory, CloseFds
    <3>2. KeepsOwned(m, m') /\ ListsSound'
      BY <1>1, <3>1, SameLinks DEF ChannelInv, ListsSound, KeepsOwned
    <3> QED
      BY <1>5, <3>2, MemoryStepOwnership DEF AcceptRefused, ChannelInv
  <2> QED
    BY <1>5, <2>1, <2>2 DEF AcceptRefused
<1> QED
  BY <1>2, <1>3, <1>4, <1>5 DEF Accept

(* dtp_poll() takes the head, changes it in place and pushes it again.     *)
LEMMA RequeueStep ==
  ASSUME ChannelInv, NEW c \in Chans, Polling(c), NEW mem \in Memory,
         KeepsOwned(m, mem), mem.early = m.early, mem.list = m.list,
         Sound(m) => Sound(mem),
         m' = Requeued(mem, c), UNCHANGED clients
  PROVE  ChannelOwnership' /\ ListsSound'
<1>1. KeepsOwned(m, m') /\ m'.early = m.early
  BY RequeuedKeeps, KeepsOwnedTrans
<1>2. Sound(m) => Sound(m')
  BY RequeuedSound DEF Polling
<1> QED
  BY <1>1, <1>2, MemoryStepOwnership DEF ChannelInv, ListsSound

(* The block a poll leaves is not in DTP_FREE, and keeps its next field.   *)
LEMMA PolledBlocks ==
  ASSUME NEW b \in Block, b.state # "FREE"
  PROVE  /\ SetState(b, "ERROR").state # "FREE" /\ SetState(b, "ERROR").next = b.next
         /\ Ready(b).state # "FREE" /\ Ready(b).next = b.next
         /\ \A r \in SendResults(b) : r.state # "FREE" /\ r.next = b.next
BY DEF SetState, Ready, SendResults, Finished, Block

LEMMA StoreAndRequeueStep ==
  ASSUME ChannelInv, NEW c \in Chans, Polling(c), NEW b \in Block,
         b.state # "FREE", b.next = m.blk[c].next, Requeue(c, b)
  PROVE  ChannelOwnership' /\ ListsSound'
<1> DEFINE mem == [m EXCEPT !.blk[c] = b]
<1>1. m \in Memory
  BY DEF ChannelInv, TypeOK
<1>2. /\ mem \in Memory /\ KeepsOwned(m, mem) /\ mem.early = m.early
      /\ mem.list = m.list /\ (Sound(m) => Sound(mem))
  BY <1>1, StoreType, StoreKeeps
<1>3. m' = Requeued(mem, c) /\ UNCHANGED clients
  BY DEF Requeue
<1> HIDE DEF mem
<1> QED
  BY <1>2, <1>3, RequeueStep

LEMMA PollStep ==
  ASSUME ChannelInv, NEW c \in Chans, Poll(c) PROVE ChannelOwnership' /\ ListsSound'
<1> DEFINE b == m.blk[c]
<1>1. m \in Memory /\ b \in Block
  BY DEF ChannelInv, TypeOK, Memory
<1>2. CASE PollAccept(c)
  <2>1. SetState(b, "ERROR") \in Block
    BY <1>1, SetStateType DEF ChanStates
  <2>2. CASE Requeue(c, b) \/ Requeue(c, SetState(b, "ERROR"))
    BY <1>1, <1>2, <2>1, <2>2, PolledBlocks, StoreAndRequeueStep DEF PollAccept
  <2>3. ASSUME NEW f \in Fd \ m.open, m' = Requeued(Accepted(m, c, f), c), UNCHANGED clients
        PROVE  ChannelOwnership' /\ ListsSound'
    <3> DEFINE mem == Accepted(m, c, f)
    <3>1. mem \in Memory
      BY <1>1, AcceptedType
    <3>2. /\ mem.heap = m.heap /\ mem.list = m.list /\ mem.nlist = m.nlist
          /\ mem.early = m.early
          /\ mem.blk[c].next = b.next /\ mem.blk[c].state = "ESTABLISHED"
          /\ \A d \in Chans \ {c} : mem.blk[d] = m.blk[d]
      BY <1>1 DEF Accepted, SetState, Memory, Block
    <3> HIDE DEF mem
    <3>3. KeepsOwned(m, mem)
      BY <1>1, <3>2 DEF KeepsOwned, Memory
    <3>4. Sound(m) => Sound(mem)
      BY <1>1, <3>1, <3>2, SameLinks
    <3>5. Polling(c)
      BY <1>2 DEF PollAccept
    <3>6. m' = Requeued(mem, c)
      BY <2>3 DEF mem
    <3> QED
      BY <2>3, <3>1, <3>2, <3>3, <3>4, <3>5, <3>6, RequeueStep
  <2> QED
    BY <1>2, <2>2, <2>3 DEF PollAccept
<1>3. CASE PollIdle(c)
  BY <1>1, <1>3, StoreAndRequeueStep DEF PollIdle
<1>4. CASE PollReady(c)
  BY <1>1, <1>4, ReadyType, PolledBlocks, StoreAndRequeueStep DEF PollReady
<1>5. CASE PollSend(c)
  <2>1. PICK r \in SendResults(b) :
          \/ Requeue(c, r)
          \/ /\ m' = Requeued([CloseFds(m, {b.remote_fd}) EXCEPT !.blk[c] = r], c)
             /\ UNCHANGED <<clients, pc, cur, left, fault>>
    BY <1>5 DEF PollSend
  <2>2. r \in Block /\ r.state # "FREE" /\ r.next = b.next /\ Polling(c)
    BY <1>1, <1>5, SendResultsType, PolledBlocks DEF PollSend
  <2>3. CASE Requeue(c, r)
    BY <2>2, <2>3, StoreAndRequeueStep
  <2>4. CASE m' = Requeued([CloseFds(m, {b.remote_fd}) EXCEPT !.blk[c] = r], c) /\ UNCHANGED clients
    <3> DEFINE closed == CloseFds(m, {b.remote_fd})
               mem    == [closed EXCEPT !.blk[c] = r]
    <3>1. /\ closed \in Memory /\ KeepsOwned(m, closed) /\ closed.early = m.early
          /\ (Sound(m) => Sound(closed))
      BY <1>1, CloseFdsType, CloseFdsKeeps
    <3>2. closed.blk = m.blk /\ closed.list = m.list
      BY <1>1 DEF CloseFds, Memory
    <3> HIDE DEF closed
    <3>3. /\ mem \in Memory /\ KeepsOwned(closed, mem) /\ mem.early = closed.early
          /\ mem.list = closed.list /\ (Sound(closed) => Sound(mem))
      BY <2>2, <3>1, <3>2, StoreType, StoreKeeps
    <3>4. KeepsOwned(m, mem)
      BY <3>1, <3>3, KeepsOwnedTrans
    <3>5. m' = Requeued(mem, c) /\ UNCHANGED clients
      BY <2>4 DEF closed
    <3> HIDE DEF mem
    <3> QED
      BY <2>2, <3>1, <3>2, <3>3, <3>4, <3>5, RequeueStep
  <2> QED
    BY <2>1, <2>3, <2>4
<1>6. CASE PollFree(c)
  <2>1. CASE Crash("bad free")
    BY <2>1, CrashStep
  <2>2. CASE m' = FreeChannel(Unlinked(m, c), c) /\ UNCHANGED clients
    <3>1. KeepsOwned(m, m') /\ (~m'.early => ~m.early)
      BY <1>1, <1>6, <2>2 DEF PollFree, KeepsOwned, FreeChannel, Unlinked, Memory, Block
    <3>2. Sound(m) => Sound(m')
      BY <1>1, <1>6, <2>2, FreedHeadSound DEF PollFree, Polling
    <3> QED
      BY <2>2, <3>1, <3>2, MemoryStepOwnership DEF ChannelInv, ListsSound
  <2> QED
    BY <1>6, <2>1, <2>2 DEF PollFree
<1>7. CASE PollStale(c)
  BY <1>7, CrashStep DEF PollStale
<1> QED
  BY <1>2, <1>3, <1>4, <1>5, <1>6, <1>7 DEF Poll

-----------------------------------------------------------------------------
(* handle_data_events() gives the channel up and forgets it in one step.   *)
LEMMA DataEventsStep ==
  ASSUME ChannelInv, fault = "none", DataEvents PROVE ChannelOwnership' /\ ListsSound'
<1> DEFINE cl   == clients[cur]
           done == Released(cl)
<1>1. /\ m \in Memory /\ cl \in Client /\ cur \in Slots
      /\ clients \in [Slots -> Client \union {NoClient}]
  BY PresentClient DEF ChannelInv, TypeOK, DataEvents
<1>2. done \in Client /\ done.data = Null /\ Reply(done).data = Null
  <2>1. cl.state \ {"DATA"} \in SUBSET Flags /\ Null \in Ptr
    BY <1>1 DEF Client, Ptr
  <2>2. done \in Client
    BY <1>1, <2>1, ClientUpdates DEF Released
  <2>3. done.data = Null
    BY <1>1 DEF Client, Released
  <2> QED
    BY <2>2, <2>3, ReplyType
<1>3. CASE UNCHANGED <<m, clients>>
  BY <1>3, SessionStep DEF Present, OpenSlots
<1>4. CASE clients' = [clients EXCEPT ![cur] = done] /\ UNCHANGED m
  BY <1>1, <1>2, <1>4, SessionStep DEF Present, OpenSlots, DataEvents
<1>5. CASE /\ cl.data # Null
           /\ clients' = [clients EXCEPT ![cur] = Reply(done)]
           /\ m' = [m EXCEPT !.blk[cl.data] = SetState(@, "FREE")]
  <2> DEFINE c == cl.data
             b == SetState(m.blk[c], "FREE")
  <2>1. c \in Chans /\ c \in m.heap
    BY <1>1, <1>5 DEF Client, Ptr, ChannelInv, ChannelOwnership, DataEvents, OpenSlots
  <2>2. b \in Block /\ b.next = m.blk[c].next
    <3>1. m.blk[c] \in Block /\ "FREE" \in ChanStates
      BY <1>1, <2>1 DEF Memory, ChanStates
    <3>2. b \in Block
      BY <3>1, SetStateType
    <3> QED
      BY <3>1, <3>2 DEF SetState, Block
  <2>3. m' = [m EXCEPT !.blk[c] = b]
    BY <1>5
  <2>4. m'.early = m.early /\ (Sound(m) => Sound(m'))
    BY <1>1, <2>1, <2>2, <2>3, StoreKeeps
  <2>5. /\ m'.heap = m.heap
        /\ \A d \in Chans \ {c} : m'.blk[d] = m.blk[d]
    BY <1>1, <2>3 DEF Memory
  <2>6. \A s \in Present' : \/ clients'[s].data = Null
                            \/ s \in Present \ {cur} /\ clients'[s] = clients[s]
    BY <1>1, <1>2, <1>5 DEF Present, OpenSlots
  <2>7. \A s \in Present \ {cur} : clients[s].data # c
    BY <1>1, <1>5 DEF ChannelInv, ChannelOwnership, Present, OpenSlots, DataEvents
  <2>8. m.heap \subseteq Chans
    BY <1>1 DEF Memory
  <2>9. ChannelOwnership'
    BY <2>5, <2>6, <2>7, <2>8 DEF ChannelInv, ChannelOwnership, Present
  <2> QED
    BY <2>4, <2>9 DEF ChannelInv, ListsSound
<1> QED
  BY <1>3, <1>4, <1>5 DEF DataEvents

(* The channel of a client that goes is nobody's.                          *)
LEMMA LeavingStep ==
  ASSUME ChannelInv, NEW cl \in Client, m' = FreeClient(m, cl),
         clients' = [clients EXCEPT ![cur] = NoClient]
  PROVE  ChannelOwnership' /\ ListsSound'
BY CloseStep DEF FreeClient, ChannelInv, TypeOK, Present, OpenSlots

LEMMA OutputStep ==
  ASSUME ChannelInv, fault = "none", Output PROVE ChannelOwnership' /\ ListsSound'
<1> DEFINE cl == clients[cur]
<1>1. /\ cl \in Client /\ cl # NoClient /\ cur \in Slots
      /\ clients \in [Slots -> Client \union {NoClient}]
  BY PresentClient DEF ChannelInv, TypeOK, Output
<1>2. CASE clients' = [clients EXCEPT ![cur] = NoClient] /\ m' = FreeClient(m, cl)
  BY <1>1, <1>2, LeavingStep
<1>3. CASE clients' = [clients EXCEPT ![cur].out = 0] /\ UNCHANGED m
  <2>1. clients'[cur].data = cl.data /\ \A s \in Slots \ {cur} : clients'[s] = clients[s]
    BY <1>1, <1>3 DEF Client
  <2>2. \A s \in Present' : s \in Present /\ clients'[s].data = clients[s].data
    BY <1>1, <2>1 DEF Present, OpenSlots
  <2> QED
    BY <1>3, <2>2, SessionStep
<1> QED
  BY <1>2, <1>3 DEF Output

(* A line that leaves memory and channel as they were.                     *)
LEMMA HandledStep ==
  ASSUME ChannelInv, fault = "none", pc = "cmd", NEW cl \in Client,
         cl.data = clients[cur].data, Handled(cl, m)
  PROVE  ChannelOwnership' /\ ListsSound'
<1>1. /\ clients[cur] # NoClient /\ cur \in Slots
      /\ clients \in [Slots -> Client \union {NoClient}]
  BY DEF ChannelInv, TypeOK
<1>2. \A s \in Present' : s \in Present /\ clients'[s].data = clients[s].data
  BY <1>1 DEF Handled, Present, OpenSlots
<1> QED
  BY <1>2, SessionStep DEF Handled

(* A client gets the new channel c, out of a memory in which the channels  *)
(* of the other clients are theirs.                                        *)
LEMMA NewOwner ==
  ASSUME ChannelInv, fault = "none", pc = "cmd", NEW cl \in Client, NEW mem, NEW new,
         Handled(cl, new), KeepsOwned(mem, new),
         \A s \in Present \ {cur} : clients[s].data # Null =>
           clients[s].data \in mem.heap /\ mem.blk[clients[s].data].state # "FREE",
         cl.data \notin mem.heap, cl.data \in new.heap, new.blk[cl.data].state # "FREE"
  PROVE  ChannelOwnership'
<1>1. /\ clients[cur] # NoClient /\ cur \in Slots
      /\ clients \in [Slots -> Client \union {NoClient}]
  BY DEF ChannelInv, TypeOK
<1>2. m' = new /\ clients' = [clients EXCEPT ![cur] = cl]
  BY DEF Handled
<1>3. \A s \in Present' \ {cur} : s \in Present /\ clients'[s] = clients[s]
  BY <1>1, <1>2 DEF Present, OpenSlots
<1>4. clients'[cur] = cl
  BY <1>1, <1>2
<1>5. \A s \in Present' : clients'[s].data # Null =>
        clients'[s].data \in m'.heap /\ m'.blk[clients'[s].data].state # "FREE"
  BY <1>2, <1>3, <1>4 DEF KeepsOwned
<1>6. \A s, t \in Present' : clients'[s].data # Null /\ clients'[t].data = clients'[s].data => t = s
  BY <1>3, <1>4 DEF ChannelInv, ChannelOwnership, Present
<1> QED
  BY <1>5, <1>6 DEF ChannelOwnership, Present

(* The client keeps its channel, whose contents change.                    *)
LEMMA SameChannelStep ==
  ASSUME ChannelInv, fault = "none", pc = "cmd", NEW cl \in Client,
         cl.data = clients[cur].data, NEW new,
         Handled(cl, new), KeepsOwned(m, new), new.early = m.early, Sound(m) => Sound(new)
  PROVE  ChannelOwnership' /\ ListsSound'
<1>1. /\ clients[cur] # NoClient /\ cur \in Slots
      /\ clients \in [Slots -> Client \union {NoClient}]
  BY DEF ChannelInv, TypeOK
<1>2. \A s \in Present' : s \in Present /\ clients'[s].data = clients[s].data
  BY <1>1 DEF Handled, Present, OpenSlots
<1>3. KeepsOwned(m, m') /\ m'.early = m.early /\ (Sound(m) => Sound(m'))
  BY DEF Handled
<1> QED
  BY <1>2, <1>3, OwnershipKept DEF ChannelInv, ListsSound

(* What ftp_data_send_buffer() stores in the channel leaves the lists as   *)
(* they were and gives nothing up.                                         *)
LEMMA SendListingStores ==
  ASSUME NEW cl \in Client, NEW c \in Chans, NEW mem \in Memory,
         mem.blk[c].state # "FREE", SendListing(cl, c, mem)
  PROVE  \E after \in Client, new \in Memory :
           /\ Handled(after, new)
           /\ after.data = c
           /\ KeepsOwned(mem, new)
           /\ new.heap = mem.heap /\ new.early = mem.early
           /\ new.blk[c].state # "FREE"
           /\ Sound(mem) => Sound(new)
<1> DEFINE b    == mem.blk[c]
           busy == [cl EXCEPT !.state = @ \union {"DATA"}, !.data = c]
<1>1. b \in Block
  BY DEF Memory
<1>2. /\ busy \in Client /\ busy.data = c
      /\ Reply(busy) \in Client /\ Reply(busy).data = c
  <2>1. cl.state \union {"DATA"} \in SUBSET Flags /\ c \in Ptr
    BY DEF Client, Flags, Ptr
  <2>2. busy \in Client
    BY <2>1, ClientUpdates
  <2>3. busy.data = c
    BY DEF Client
  <2> QED
    BY <2>2, <2>3, ReplyType
<1> HIDE DEF busy
<1>3. ASSUME NEW r \in Block, r.state = b.state, r.next = b.next
      PROVE  LET new == [mem EXCEPT !.blk[c] = r]
             IN  /\ new \in Memory /\ KeepsOwned(mem, new)
                 /\ new.heap = mem.heap /\ new.early = mem.early
                 /\ new.blk[c].state # "FREE"
                 /\ Sound(mem) => Sound(new)
  <2>1. [mem EXCEPT !.blk[c] = r].blk[c] = r
    BY DEF Memory
  <2> QED
    BY <1>3, <2>1, StoreType, StoreKeeps
<1>4. CASE IsConnected(b) /\ CanQueue(b)
  <2>1. PICK listing \in {"listing", "null"} :
          Handled(busy, [mem EXCEPT !.blk[c] = Queued(b, listing)])
    BY <1>4 DEF SendListing, busy
  <2>2. Queued(b, listing) \in Block
    BY <1>1, QueuedType
  <2>3. Queued(b, listing).state = b.state /\ Queued(b, listing).next = b.next
    BY <1>1 DEF Queued, Block
  <2> QED
    BY <1>2, <1>3, <2>1, <2>2, <2>3
<1>5. CASE IsConnected(b) /\ ~CanQueue(b)
  <2>1. Handled(Reply(busy), mem)
    BY <1>5 DEF SendListing, busy
  <2>2. KeepsOwned(mem, mem)
    BY DEF KeepsOwned
  <2> QED
    BY <1>2, <2>1, <2>2
<1>6. CASE ~IsConnected(b)
  <2> DEFINE r == [b EXCEPT !.remote_fd = NoFd]
  <2>1. Handled(Reply(busy), [mem EXCEPT !.blk[c] = r])
    BY <1>6 DEF SendListing, busy
  <2>2. r \in Block /\ r.state = b.state /\ r.next = b.next
    BY <1>1 DEF Block, MaybeFd
  <2> HIDE DEF r
  <2> QED
    BY <1>2, <1>3, <2>1, <2>2
<1> QED
  BY <1>4, <1>5, <1>6

(* The channels of the others, in a memory that keeps what is owned.       *)
LEMMA OthersKept ==
  ASSUME ChannelOwnership, NEW new, KeepsOwned(m, new), NEW s \in Present,
         clients[s].data # Null
  PROVE  clients[s].data \in new.heap /\ new.blk[clients[s].data].state # "FREE"
BY DEF ChannelOwnership, KeepsOwned, Present

(* do_passive().  Freeing the channel of the client ends the guarantee on  *)
(* the lists, since the client had not given it up.                        *)
LEMMA PasvStep ==
  ASSUME ChannelInv, fault = "none", pc = "cmd", clients[cur] \in Client, Pasv(clients[cur])
  PROVE  ChannelOwnership' /\ ListsSound'
<1> DEFINE cl  == clients[cur]
           mem == IF cl.data = Null THEN m ELSE FreeChannel(m, cl.data)
<1>1. m \in Memory /\ clients[cur] # NoClient /\ cur \in Slots
  BY DEF ChannelInv, TypeOK
<1>2. CASE Crash("bad free") \/ Crash("null deref")
  BY <1>2, CrashStep
<1>3. CASE ~(Crash("bad free") \/ Crash("null deref"))
  <2>1. cl.data # Null => cl.data \in m.heap /\ cl.data \in Chans /\ m.blk[cl.data].state # "FREE"
    BY <1>1 DEF ChannelInv, ChannelOwnership, OpenSlots, Client, Ptr
  <2>2. mem \in Memory
    BY <1>1, <2>1, FreeChannelType
  <2>3. \A s \in Present \ {cur} : clients[s].data # Null =>
          clients[s].data \in mem.heap /\ mem.blk[clients[s].data].state # "FREE"
    <3> SUFFICES ASSUME NEW s \in Present \ {cur}, clients[s].data # Null
                 PROVE  clients[s].data \in mem.heap /\ mem.blk[clients[s].data].state # "FREE"
      OBVIOUS
    <3>1. clients[s].data \in m.heap /\ m.blk[clients[s].data].state # "FREE"
      BY DEF ChannelInv, ChannelOwnership, Present
    <3>2. CASE cl.data = Null
      BY <3>1, <3>2
    <3>3. CASE cl.data # Null
      <4>1. clients[s].data # cl.data
        BY <1>1, <3>3 DEF ChannelInv, ChannelOwnership, Present, OpenSlots
      <4>2. FreeChannel(m, cl.data).heap = m.heap \ {cl.data}
        BY <1>1 DEF FreeChannel, Memory
      <4>3. \A d \in Chans \ {cl.data} : FreeChannel(m, cl.data).blk[d] = m.blk[d]
        BY <1>1 DEF FreeChannel, Memory
      <4>4. m.heap \subseteq Chans
        BY <1>1 DEF Memory
      <4> QED
        BY <3>1, <3>3, <4>1, <4>2, <4>3, <4>4
    <3> QED
      BY <3>2, <3>3
  <2>4. cl.data # Null => mem.early
    BY <1>1, <2>1 DEF FreeChannel, Memory
  <2>5. cl.data = Null => mem = m
    OBVIOUS
  <2>6. PICK c \in Chans \ mem.heap, f \in Fd \ mem.open :
          Handled(Reply([cl EXCEPT !.data = c]), NewPassive(mem, c, f))
    BY <1>3 DEF Pasv
  <2> HIDE DEF mem
  <2> DEFINE after == Reply([cl EXCEPT !.data = c])
             chan  == NewChannel(mem, c, "passive", f)
             new   == NewPassive(mem, c, f)
  <2>7. after \in Client /\ after.data = c
    <3>1. [cl EXCEPT !.data = c] \in Client /\ [cl EXCEPT !.data = c].data = c
      BY DEF Client, Ptr
    <3> QED
      BY <3>1, ReplyType
  <2>8. /\ chan \in Memory /\ KeepsOwned(mem, chan) /\ c \in chan.heap
        /\ chan.blk[c].state = "PENDING" /\ chan.early = mem.early
        /\ (Sound(mem) => Sound(chan))
    BY <2>2, NewChannelType, NewChannelKeeps, NewChannelSound DEF MaybeFd
  <2> HIDE DEF chan
  <2>9. /\ new \in Memory /\ new.heap = chan.heap /\ new.blk = chan.blk
        /\ new.list = chan.list /\ new.nlist = chan.nlist /\ new.early = chan.early
    BY <2>2, <2>8, NewPassiveType DEF NewPassive, Memory, chan
  <2>10. Handled(after, new)
    BY <2>6
  <2> HIDE DEF after, new
  <2>11. KeepsOwned(mem, new) /\ (Sound(mem) => Sound(new))
    BY <2>8, <2>9, SameLinks DEF KeepsOwned
  <2>12. ChannelOwnership'
    BY <2>3, <2>6, <2>7, <2>8, <2>9, <2>10, <2>11, NewOwner
  <2>13. ListsSound'
    <3>1. m' = new
      BY <2>10 DEF Handled
    <3>2. new.early = mem.early
      BY <2>8, <2>9
    <3> QED
      BY <2>4, <2>5, <2>11, <3>1, <3>2 DEF ChannelInv, ListsSound
  <2> QED
    BY <2>12, <2>13
<1> QED
  BY <1>2, <1>3

(* A client without regard to its former channel gets the new channel c.   *)
LEMMA ActiveStep ==
  ASSUME ChannelInv, fault = "none", pc = "cmd", NEW c \in Chans \ m.heap,
         NEW garbage \in UninitFd, NEW after \in Client, NEW new \in Memory,
         after.data = c, Handled(after, new), KeepsOwned(NewActive(m, c, garbage), new),
         new.heap = NewActive(m, c, garbage).heap,
         new.early = NewActive(m, c, garbage).early,
         new.blk[c].state # "FREE",
         Sound(NewActive(m, c, garbage)) => Sound(new)
  PROVE  ChannelOwnership' /\ ListsSound'
<1> DEFINE chan == NewActive(m, c, garbage)
<1>1. m \in Memory /\ garbage \in MaybeFd
  BY ChannelAssumption DEF ChannelInv, TypeOK, MaybeFd
<1>2. /\ KeepsOwned(m, chan) /\ c \in chan.heap /\ chan.early = m.early
      /\ (Sound(m) => Sound(chan))
  BY <1>1, NewChannelKeeps, NewChannelSound DEF NewActive
<1> HIDE DEF chan
<1>3. KeepsOwned(m, new)
  BY <1>2, KeepsOwnedTrans DEF chan
<1>4. c \in new.heap /\ new.early = m.early /\ (Sound(m) => Sound(new))
  BY <1>2 DEF chan
<1>5. \A s \in Present \ {cur} : clients[s].data # Null =>
        clients[s].data \in m.heap /\ m.blk[clients[s].data].state # "FREE"
  BY DEF ChannelInv, ChannelOwnership, Present
<1>6. ChannelOwnership'
  BY <1>3, <1>4, <1>5, NewOwner
<1>7. ListsSound'
  BY <1>4 DEF ChannelInv, ListsSound, Handled
<1> QED
  BY <1>6, <1>7

LEMMA PortStep ==
  ASSUME ChannelInv, fault = "none", pc = "cmd", clients[cur] \in Client, Port(clients[cur])
  PROVE  ChannelOwnership' /\ ListsSound'
<1> DEFINE cl == clients[cur]
<1>1. CASE Crash("null deref")
  BY <1>1, CrashStep
<1>2. ASSUME NEW c \in Chans \ m.heap, NEW garbage \in UninitFd,
             Handled([cl EXCEPT !.data = c], NewActive(m, c, garbage))
      PROVE  ChannelOwnership' /\ ListsSound'
  <2> DEFINE new == NewActive(m, c, garbage)
  <2>1. m \in Memory /\ garbage \in MaybeFd
    BY ChannelAssumption DEF ChannelInv, TypeOK, MaybeFd
  <2>2. [cl EXCEPT !.data = c] \in Client /\ [cl EXCEPT !.data = c].data = c
    BY DEF Client, Ptr
  <2>3. new \in Memory /\ new.blk[c].state = "PENDING"
    BY <2>1, NewActiveType, NewChannelKeeps DEF NewActive
  <2>4. KeepsOwned(new, new)
    BY DEF KeepsOwned
  <2> QED
    BY <1>2, <2>2, <2>3, <2>4, ActiveStep
<1> QED
  BY <1>1, <1>2 DEF Port

LEMMA ListStep ==
  ASSUME ChannelInv, fault = "none", pc = "cmd", clients[cur] \in Client, List(clients[cur])
  PROVE  ChannelOwnership' /\ ListsSound'
<1> DEFINE cl == clients[cur]
<1>1. m \in Memory /\ clients[cur] # NoClient /\ cur \in Slots
  BY DEF ChannelInv, TypeOK
<1>2. CASE Crash("null deref")
  BY <1>2, CrashStep
<1>3. CASE cl.data # Null /\ SendListing(cl, cl.data, m)
  <2>1. cl.data \in Chans /\ m.blk[cl.data].state # "FREE"
    BY <1>1, <1>3 DEF ChannelInv, ChannelOwnership, OpenSlots, Client, Ptr
  <2> QED
    BY <1>1, <1>3, <2>1, SendListingStores, SameChannelStep
<1>4. ASSUME NEW c \in Chans \ m.heap, NEW garbage \in UninitFd,
             SendListing(cl, c, NewActive(m, c, garbage))
      PROVE  ChannelOwnership' /\ ListsSound'
  <2> DEFINE mem == NewActive(m, c, garbage)
  <2>1. garbage \in MaybeFd
    BY ChannelAssumption DEF MaybeFd
  <2>2. mem \in Memory /\ mem.blk[c].state # "FREE"
    BY <1>1, <2>1, NewActiveType, NewChannelKeeps DEF NewActive
  <2> HIDE DEF mem
  <2>3. PICK after \in Client, new \in Memory :
          /\ Handled(after, new)
          /\ after.data = c
          /\ KeepsOwned(mem, new)
          /\ new.heap = mem.heap /\ new.early = mem.early
          /\ new.blk[c].state # "FREE"
          /\ Sound(mem) => Sound(new)
    BY <1>4, <2>2, SendListingStores DEF mem
  <2> QED
    BY <2>3, ActiveStep DEF mem
<1> QED
  BY <1>2, <1>3, <1>4 DEF List

LEMMA CommandStep ==
  ASSUME ChannelInv, fault = "none", Command PROVE ChannelOwnership' /\ ListsSound'
<1> DEFINE cl == clients[cur]
<1>1. pc = "cmd" /\ cl \in Client
  BY PresentClient DEF Command, ChannelInv, TypeOK
<1>2. PICK cmd \in Commands : Invoke(cl, cmd)
  BY DEF Command
<1>3. CASE Handled(Reply(cl), m) \/ Handled(cl, m)
  BY <1>1, <1>3, ReplyType, HandledStep
<1>4. CASE User(cl) \/ Pass(cl) \/ Quit(cl) \/ Rein(cl)
  <2>1. ASSUME NEW st \in SUBSET Flags, Handled(Reply([cl EXCEPT !.state = st]), m)
        PROVE  ChannelOwnership' /\ ListsSound'
    <3>1. [cl EXCEPT !.state = st] \in Client /\ [cl EXCEPT !.state = st].data = cl.data
      BY <1>1 DEF Client
    <3> QED
      BY <1>1, <2>1, <3>1, ReplyType, HandledStep
  <2>2. /\ {"USER"} \in SUBSET Flags
        /\ (IF cl.state = {"USER"} THEN {"AUTH"} ELSE cl.state) \in SUBSET Flags
        /\ cl.state \union {"DISCONN"} \in SUBSET Flags
        /\ {} \in SUBSET Flags
    BY <1>1 DEF Client, Flags
  <2> QED
    BY <1>4, <2>1, <2>2 DEF User, Pass, Quit, Rein
<1> QED
  BY <1>1, <1>2, <1>3, <1>4, PasvStep, PortStep, ListStep DEF Invoke

LEMMA ChannelStep == ASSUME ChannelInv, [Next]_vars PROVE ChannelInv'
<1>1. TypeOK'
  BY TypeStep DEF ChannelInv
<1>2. CASE UNCHANGED vars
  BY <1>2, SessionStep, <1>1 DEF vars, Present, OpenSlots, ChannelInv
<1>3. CASE ~Halted /\ Server
  <2> SUFFICES ChannelOwnership' /\ ListsSound'
    BY <1>1 DEF ChannelInv
  <2>1. fault = "none"
    BY <1>3 DEF Halted
  <2>2. CASE Listen
    <3>1. CASE m' = m
      BY <2>2, <3>1, SessionStep DEF Listen, Present, OpenSlots
    <3>2. CASE m' = [m EXCEPT !.open = @ \union {ServerFd}]
      <4>1. m \in Memory
        BY DEF ChannelInv, TypeOK
      <4>2. m' \in Memory /\ m'.heap = m.heap /\ m'.list = m.list /\ m'.nlist = m.nlist
            /\ m'.blk = m.blk /\ m'.early = m.early
        BY <1>1, <3>2, <4>1 DEF TypeOK, Memory
      <4>3. KeepsOwned(m, m') /\ ListsSound'
        BY <4>1, <4>2, SameLinks DEF ChannelInv, ListsSound, KeepsOwned
      <4> QED
        BY <2>2, <4>3, MemoryStepOwnership DEF Listen, ChannelInv
    <3> QED
      BY <2>2, <3>1, <3>2 DEF Listen
  <2>3. CASE PollEnd
    <3>1. m \in Memory /\ m.list = Null
      BY <2>3 DEF ChannelInv, TypeOK, PollEnd
    <3>2. KeepsOwned(m, m') /\ m'.early = m.early
      BY <2>3, <3>1 DEF PollEnd, ListsSwapped, KeepsOwned, Memory
    <3>3. Sound(m) => Sound(m')
      BY <2>3, <3>1, SwappedSound DEF PollEnd
    <3> QED
      BY <2>3, <3>2, <3>3, MemoryStepOwnership DEF PollEnd, ChannelInv, ListsSound
  <2>4. CASE SkipSlot
    BY <2>4, SessionStep DEF SkipSlot, Present, OpenSlots
  <2>5. CASE Receive
    BY <2>5, SessionStep DEF Receive, Present, OpenSlots
  <2>6. CASE Disconnected
    <3>1. clients[cur] \in Client
      BY <2>1, <2>6, PresentClient DEF Disconnected, ChannelInv, TypeOK
    <3> QED
      BY <2>6, <3>1, LeavingStep DEF Disconnected
  <2>7. CASE Input
    BY <2>7, ShutdownStep, SessionStep DEF Input, Present, OpenSlots
  <2> QED
    BY <1>3, <2>1, <2>2, <2>3, <2>4, <2>5, <2>6, <2>7, AcceptStep, PollStep,
       DataEventsStep, CommandStep, OutputStep DEF Server
<1> QED
  BY <1>2, <1>3 DEF Next

LEMMA ChannelInvariant == Spec => []ChannelInv
BY ChannelInit, ChannelStep, PTL DEF Spec

(***************************************************************************)
(* The data pointer of a client is never dangling and never shared, in     *)
(* every behaviour, those with corrupted lists and stray closes included.  *)
(***************************************************************************)
THEOREM OwnershipHolds == Spec => []ChannelOwnership
<1>1. ChannelInv => ChannelOwnership
  BY DEF ChannelInv
<1> QED
  BY <1>1, ChannelInvariant, PTL

(***************************************************************************)
(* Until a channel is freed that is still linked, no pointer of the lists  *)
(* of dtp_poll() leads to a freed block ...                                *)
(***************************************************************************)
THEOREM NothingDangles == Spec => []NoDangling
<1>1. ChannelInv => NoDangling
  BY DEF ChannelInv, ListsSound, Sound, NoDangling
<1> QED
  BY <1>1, ChannelInvariant, PTL

(* ... no channel is linked twice ...                                      *)
THEOREM NothingLinkedTwice == Spec => []LinkedOnce
<1>1. ChannelInv => LinkedOnce
  BY DEF ChannelInv, ListsSound, Sound, LinkedOnce
<1> QED
  BY <1>1, ChannelInvariant, PTL

(* ... and no channel is lost.                                             *)
THEOREM NothingLost == Spec => []NoChannelLost
<1>1. ChannelInv => NoChannelLost
  BY DEF ChannelInv, ListsSound, Sound, NoChannelLost
<1> QED
  BY <1>1, ChannelInvariant, PTL

-----------------------------------------------------------------------------
(***************************************************************************)
(* The descriptors of module FtpServer, for any number of clients,         *)
(* channels and descriptors: who uses which, until one is closed that its  *)
(* owner never stored, and that a channel that sends has where to and what.*)
(***************************************************************************)

(***************************************************************************)
(* What the fields of an allocated channel have to do with one another.    *)
(* Only a passive channel gets connected, and accepting takes its listener *)
(* away; it is established or sends only while connected; DTP_XMIT stands  *)
(* for a listing that waits, and DTP_SENDING for one that goes out.        *)
(***************************************************************************)
BlockSound(b) ==
  /\ b.remote_fd # NoFd => b.iface = "passive" /\ b.listen_fd = NoFd
  /\ b.state \in {"ESTABLISHED", "SENDING"} => b.remote_fd # NoFd
  /\ b.xmit \/ b.state = "SENDING" => b.buf /\ b.local # "none"

(* A freed block holds no descriptor: dtp_poll() may still come across it. *)
BlocksSound(mem) ==
  /\ \A c \in mem.heap : BlockSound(mem.blk[c])
  /\ \A c \in Chans \ mem.heap : mem.blk[c].remote_fd = NoFd /\ mem.blk[c].listen_fd = NoFd

(* The descriptors of the program itself that are open for certain.        *)
Reserved == {FdZero} \union (IF pc \in {"start", "exit"} THEN {} ELSE {ServerFd})

(***************************************************************************)
(* Each open descriptor has one user: the program, a client (used), or one *)
(* channel.                                                                *)
(***************************************************************************)
FdsApart(mem, used, reserved) ==
  /\ reserved \subseteq mem.open
  /\ used \subseteq mem.open \ {FdZero, ServerFd}
  /\ \A c \in mem.heap :
       ChannelFds(mem.blk[c]) \subseteq (mem.open \ {FdZero, ServerFd}) \ used
  /\ \A c, d \in mem.heap : c # d =>
       ChannelFds(mem.blk[c]) \intersect ChannelFds(mem.blk[d]) = {}

Descriptors(mem, used, reserved) ==
  BlocksSound(mem) /\ (~mem.wild => FdsApart(mem, used, reserved))

ClientsApart ==
  ~m.wild => \A s, t \in Present : clients[s].fd = clients[t].fd => s = t

(* The invariant of the proof: no field of a channel tells alone which     *)
(* descriptors it closes, so that the blocks need their own.               *)
DescriptorInv == ChannelInv /\ Descriptors(m, ClientFds, Reserved) /\ ClientsApart

-----------------------------------------------------------------------------
(***************************************************************************)
(* What the operators of module DataChannels do to descriptors in order.   *)
(***************************************************************************)

(* A block takes the place of another and holds no descriptor it did not.  *)
LEMMA StoreDescriptors ==
  ASSUME NEW mem \in Memory, NEW used, NEW reserved, NEW c \in Chans, NEW b \in Block,
         Descriptors(mem, used, reserved),
         b.remote_fd \in {NoFd, mem.blk[c].remote_fd},
         b.listen_fd = mem.blk[c].listen_fd, b.iface = mem.blk[c].iface,
         c \in mem.heap => BlockSound(b)
  PROVE  Descriptors([mem EXCEPT !.blk[c] = b], used, reserved)
<1> DEFINE new == [mem EXCEPT !.blk[c] = b]
<1>1. /\ new.heap = mem.heap /\ new.open = mem.open /\ new.wild = mem.wild
      /\ new.blk[c] = b
      /\ \A d \in Chans \ {c} : new.blk[d] = mem.blk[d]
      /\ mem.heap \subseteq Chans
  BY DEF Memory
<1> HIDE DEF new
<1>2. \A d \in Chans : ChannelFds(new.blk[d]) \subseteq ChannelFds(mem.blk[d])
  BY <1>1 DEF ChannelFds
<1>3. BlocksSound(new)
  BY <1>1 DEF Descriptors, BlocksSound
<1>4. ~mem.wild => FdsApart(new, used, reserved)
  <2> SUFFICES ASSUME ~mem.wild PROVE FdsApart(new, used, reserved)
    OBVIOUS
  <2>1. FdsApart(mem, used, reserved)
    BY DEF Descriptors
  <2>2. \A d, e \in new.heap : d # e =>
          ChannelFds(new.blk[d]) \intersect ChannelFds(new.blk[e]) = {}
    <3> SUFFICES ASSUME NEW d \in mem.heap, NEW e \in mem.heap, d # e
                 PROVE  ChannelFds(new.blk[d]) \intersect ChannelFds(new.blk[e]) = {}
      BY <1>1
    <3>1. ChannelFds(mem.blk[d]) \intersect ChannelFds(mem.blk[e]) = {}
      BY <2>1 DEF FdsApart
    <3> QED
      BY <1>1, <1>2, <3>1
  <2>3. \A d \in new.heap :
          ChannelFds(new.blk[d]) \subseteq (new.open \ {FdZero, ServerFd}) \ used
    <3> SUFFICES ASSUME NEW d \in mem.heap
                 PROVE  ChannelFds(new.blk[d]) \subseteq (mem.open \ {FdZero, ServerFd}) \ used
      BY <1>1
    <3>1. ChannelFds(mem.blk[d]) \subseteq (mem.open \ {FdZero, ServerFd}) \ used
      BY <2>1 DEF FdsApart
    <3> QED
      BY <1>1, <1>2, <3>1
  <2> QED
    BY <1>1, <2>1, <2>2, <2>3 DEF FdsApart
<1> QED
  BY <1>1, <1>3, <1>4 DEF Descriptors, new

(* The lists hold no descriptors.                                          *)
LEMMA RequeuedDescriptors ==
  ASSUME NEW mem \in Memory, NEW used, NEW reserved, NEW c \in Chans,
         Descriptors(mem, used, reserved)
  PROVE  Descriptors(Requeued(mem, c), used, reserved)
<1> DEFINE b   == [mem.blk[c] EXCEPT !.next = mem.nlist]
           mid == [mem EXCEPT !.blk[c] = b]
           new == Requeued(mem, c)
<1>1. b \in Block /\ (BlockSound(mem.blk[c]) => BlockSound(b))
  BY DEF Memory, Block, BlockSound
<1>2. b.remote_fd = mem.blk[c].remote_fd /\ b.listen_fd = mem.blk[c].listen_fd
      /\ b.iface = mem.blk[c].iface
  BY DEF Memory, Block
<1>3. Descriptors(mid, used, reserved)
  BY <1>1, <1>2, StoreDescriptors DEF Descriptors, BlocksSound
<1>4. new.heap = mid.heap /\ new.blk = mid.blk /\ new.open = mid.open /\ new.wild = mid.wild
  BY DEF Requeued, Memory
<1> HIDE DEF mid, new
<1> QED
  BY <1>3, <1>4 DEF Descriptors, BlocksSound, FdsApart, new

(* Descriptors that are no channel's are closed.                           *)
LEMMA CloseDescriptors ==
  ASSUME NEW mem \in Memory, NEW used, NEW reserved, NEW fds, NEW still,
         Descriptors(mem, used, reserved), still \subseteq used \ fds,
         reserved \subseteq {FdZero, ServerFd},
         fds \subseteq used
  PROVE  Descriptors(CloseFds(mem, fds), still, reserved)
<1> DEFINE new == CloseFds(mem, fds)
<1>1. /\ new.heap = mem.heap /\ new.blk = mem.blk /\ new.wild = mem.wild
      /\ new.open = mem.open \ fds
  BY DEF CloseFds, Memory
<1> HIDE DEF new
<1>2. FdsApart(mem, used, reserved) => FdsApart(new, still, reserved)
  BY <1>1 DEF FdsApart
<1> QED
  BY <1>1, <1>2 DEF Descriptors, BlocksSound, new

(* A descriptor nobody uses any more is closed, or the caller's own.       *)
LEMMA CloseUnusedDescriptors ==
  ASSUME NEW mem \in Memory, NEW used, NEW reserved, NEW fds,
         Descriptors(mem, used, reserved),
         ~mem.wild => /\ fds \intersect (used \union {FdZero, ServerFd}) = {}
                      /\ \A c \in mem.heap : fds \intersect ChannelFds(mem.blk[c]) = {},
         reserved \subseteq {FdZero, ServerFd}
  PROVE  Descriptors(CloseFds(mem, fds), used, reserved)
<1> DEFINE new == CloseFds(mem, fds)
<1>1. /\ new.heap = mem.heap /\ new.blk = mem.blk /\ new.wild = mem.wild
      /\ new.open = mem.open \ fds
  BY DEF CloseFds, Memory
<1> HIDE DEF new
<1>2. ~mem.wild /\ FdsApart(mem, used, reserved) => FdsApart(new, used, reserved)
  BY <1>1 DEF FdsApart
<1> QED
  BY <1>1, <1>2 DEF Descriptors, BlocksSound, new

(* The system hands out a descriptor to a client.                          *)
LEMMA OpenDescriptor ==
  ASSUME NEW mem \in Memory, NEW used, NEW f \in Fd \ mem.open,
         Descriptors(mem, used, {FdZero, ServerFd})
  PROVE  Descriptors([mem EXCEPT !.open = @ \union {f}], used \union {f}, {FdZero, ServerFd})
<1> DEFINE new == [mem EXCEPT !.open = @ \union {f}]
<1>1. /\ new.heap = mem.heap /\ new.blk = mem.blk /\ new.wild = mem.wild
      /\ new.open = mem.open \union {f}
  BY DEF Memory
<1> HIDE DEF new
<1>2. FdsApart(mem, used, {FdZero, ServerFd}) =>
        FdsApart(new, used \union {f}, {FdZero, ServerFd})
  BY <1>1 DEF FdsApart
<1> QED
  BY <1>1, <1>2 DEF Descriptors, BlocksSound, new

-----------------------------------------------------------------------------
(* new_data_channel() for an active channel: none of its words is a        *)
(* descriptor anybody uses.                                                *)
LEMMA NewActiveDescriptors ==
  ASSUME NEW mem \in Memory, NEW used, NEW reserved, NEW c \in Chans \ mem.heap,
         NEW garbage, Descriptors(mem, used, reserved)
  PROVE  /\ Descriptors(NewActive(mem, c, garbage), used, reserved)
         /\ NewActive(mem, c, garbage).blk[c].iface = "active"
<1> DEFINE new == NewActive(mem, c, garbage)
<1>1. /\ new.heap = mem.heap \union {c} /\ new.open = mem.open /\ new.wild = mem.wild
      /\ \A d \in Chans \ {c} : new.blk[d] = mem.blk[d]
      /\ mem.heap \subseteq Chans
      /\ new.blk[c].iface = "active" /\ new.blk[c].remote_fd = NoFd
      /\ new.blk[c].state = "PENDING" /\ ~new.blk[c].xmit
  BY DEF NewActive, NewChannel, Memory
<1> HIDE DEF new
<1>2. ChannelFds(new.blk[c]) = {}
  BY <1>1 DEF ChannelFds
<1>3. BlocksSound(new)
  BY <1>1 DEF Descriptors, BlocksSound, BlockSound
<1>4. FdsApart(mem, used, reserved) => FdsApart(new, used, reserved)
  BY <1>1, <1>2 DEF FdsApart
<1> QED
  BY <1>1, <1>3, <1>4 DEF Descriptors, new

(* new_passive_channel(): the new descriptor is the channel's.             *)
LEMMA NewPassiveDescriptors ==
  ASSUME NEW mem \in Memory, NEW used, NEW c \in Chans \ mem.heap, NEW f \in Fd \ mem.open,
         Descriptors(mem, used, {FdZero, ServerFd})
  PROVE  Descriptors(NewPassive(mem, c, f), used, {FdZero, ServerFd})
<1> DEFINE new == NewPassive(mem, c, f)
<1>1. /\ new.heap = mem.heap \union {c} /\ new.open = mem.open \union {f}
      /\ new.wild = mem.wild
      /\ \A d \in Chans \ {c} : new.blk[d] = mem.blk[d]
      /\ mem.heap \subseteq Chans
      /\ new.blk[c].iface = "passive" /\ new.blk[c].remote_fd = NoFd
      /\ new.blk[c].listen_fd = f
      /\ new.blk[c].state = "PENDING" /\ ~new.blk[c].xmit
  BY DEF NewPassive, NewChannel, Memory
<1> HIDE DEF new
<1>2. ChannelFds(new.blk[c]) = {f}
  BY <1>1, ChannelAssumption DEF ChannelFds
<1>3. BlocksSound(new)
  BY <1>1 DEF Descriptors, BlocksSound, BlockSound
<1>4. FdsApart(mem, used, {FdZero, ServerFd}) => FdsApart(new, used, {FdZero, ServerFd})
  <2> SUFFICES ASSUME FdsApart(mem, used, {FdZero, ServerFd})
               PROVE  FdsApart(new, used, {FdZero, ServerFd})
    OBVIOUS
  <2>1. \A d \in mem.heap : ChannelFds(mem.blk[d]) \subseteq mem.open \ ({FdZero, ServerFd} \union used)
    BY DEF FdsApart
  <2>2. f \notin mem.open /\ f \notin used /\ f \notin {FdZero, ServerFd}
    BY DEF FdsApart
  <2>3. \A d \in mem.heap : ChannelFds(new.blk[d]) = ChannelFds(mem.blk[d])
    BY <1>1
  <2> QED
    BY <1>1, <1>2, <2>1, <2>2, <2>3 DEF FdsApart
<1> QED
  BY <1>1, <1>3, <1>4 DEF Descriptors, new

(* pasv_accept_handler(): the new connection takes the listener's place.   *)
LEMMA AcceptedDescriptors ==
  ASSUME NEW mem \in Memory, NEW used, NEW c \in Chans, NEW f \in Fd \ mem.open,
         Descriptors(mem, used, {FdZero, ServerFd}),
         mem.blk[c].iface = "passive", mem.blk[c].listen_fd \in mem.open,
         mem.blk[c].state = "PENDING"
  PROVE  Descriptors(Accepted(mem, c, f), used, {FdZero, ServerFd})
<1> DEFINE new == Accepted(mem, c, f)
           old == mem.blk[c].listen_fd
<1>1. /\ new.heap = mem.heap /\ new.open = (mem.open \union {f}) \ {old}
      /\ new.wild = mem.wild
      /\ \A d \in Chans \ {c} : new.blk[d] = mem.blk[d]
      /\ mem.heap \subseteq Chans
      /\ new.blk[c].iface = "passive" /\ new.blk[c].remote_fd = f
      /\ new.blk[c].listen_fd = NoFd /\ new.blk[c].state = "ESTABLISHED"
      /\ ~new.blk[c].xmit
  BY DEF Accepted, SetState, Memory, Block
<1> HIDE DEF new
<1>2. old # NoFd /\ f # NoFd /\ old # f
  BY ChannelAssumption DEF Memory
<1>3. c \in mem.heap
  BY <1>2 DEF Descriptors, BlocksSound
<1>4. ChannelFds(new.blk[c]) = {f} /\ old \in ChannelFds(mem.blk[c])
  BY <1>1, <1>2 DEF ChannelFds
<1>5. BlocksSound(new)
  BY <1>1, <1>2, <1>3 DEF Descriptors, BlocksSound, BlockSound
<1>6. FdsApart(mem, used, {FdZero, ServerFd}) => FdsApart(new, used, {FdZero, ServerFd})
  <2> SUFFICES ASSUME FdsApart(mem, used, {FdZero, ServerFd})
               PROVE  FdsApart(new, used, {FdZero, ServerFd})
    OBVIOUS
  <2>1. f \notin mem.open /\ f \notin used /\ f \notin {FdZero, ServerFd}
    BY DEF FdsApart
  <2>2. old \notin used /\ old \notin {FdZero, ServerFd}
    BY <1>3, <1>4 DEF FdsApart
  <2>3. \A d \in mem.heap \ {c} :
          /\ ChannelFds(new.blk[d]) = ChannelFds(mem.blk[d])
          /\ old \notin ChannelFds(mem.blk[d])
          /\ ChannelFds(mem.blk[d]) \subseteq mem.open \ ({FdZero, ServerFd} \union used)
    BY <1>1, <1>3, <1>4 DEF FdsApart
  <2>4. {FdZero, ServerFd} \subseteq new.open /\ used \subseteq new.open \ {FdZero, ServerFd}
    BY <1>1, <2>2 DEF FdsApart
  <2>5. \A d \in new.heap :
          ChannelFds(new.blk[d]) \subseteq (new.open \ {FdZero, ServerFd}) \ used
    BY <1>1, <1>2, <1>4, <2>1, <2>3
  <2>6. \A d, e \in new.heap : d # e =>
          ChannelFds(new.blk[d]) \intersect ChannelFds(new.blk[e]) = {}
    <3> SUFFICES ASSUME NEW d \in mem.heap, NEW e \in mem.heap, d # e
                 PROVE  ChannelFds(new.blk[d]) \intersect ChannelFds(new.blk[e]) = {}
      BY <1>1
    <3>1. CASE d # c /\ e # c
      BY <2>3, <3>1 DEF FdsApart
    <3>2. CASE d = c \/ e = c
      BY <1>4, <2>1, <2>3, <3>2
    <3> QED
      BY <3>1, <3>2
  <2> QED
    BY <2>4, <2>5, <2>6 DEF FdsApart
<1> QED
  BY <1>1, <1>5, <1>6 DEF Descriptors, new

(* free_data_channel(): what it closes was the channel's, unless the       *)
(* history variable wild tells.                                            *)
LEMMA FreeDescriptors ==
  ASSUME NEW mem \in Memory, NEW used, NEW reserved, NEW c \in mem.heap,
         Descriptors(mem, used, reserved), reserved \subseteq {FdZero, ServerFd}
  PROVE  Descriptors(FreeChannel(mem, c), used, reserved)
<1> DEFINE new == FreeChannel(mem, c)
           b   == mem.blk[c]
<1>1. /\ new.heap = mem.heap \ {c} /\ new.open = mem.open \ {b.listen_fd, b.remote_fd}
      /\ \A d \in Chans \ {c} : new.blk[d] = mem.blk[d]
      /\ mem.heap \subseteq Chans
      /\ new.blk[c].remote_fd = NoFd /\ new.blk[c].listen_fd = NoFd
  BY DEF FreeChannel, Freed, Memory, Block
<1>2. ~new.wild => ~mem.wild /\ (b.iface = "active" => b.listen_fd = NoFd)
  BY DEF FreeChannel, Memory
<1>3. b \in Block
  BY DEF Memory
<1> HIDE DEF new
<1>4. BlocksSound(new)
  BY <1>1 DEF Descriptors, BlocksSound
<1>5. ASSUME ~new.wild PROVE FdsApart(new, used, reserved)
  <2>1. FdsApart(mem, used, reserved)
    BY <1>2, <1>5 DEF Descriptors
  <2>2. {b.listen_fd, b.remote_fd} \subseteq ChannelFds(b) \union {NoFd}
    BY <1>2, <1>3, <1>5 DEF ChannelFds, Block
  <2>3. NoFd \notin mem.open
    BY ChannelAssumption DEF Memory
  <2>4. new.open = mem.open \ (ChannelFds(b) \intersect {b.listen_fd, b.remote_fd})
    BY <1>1, <2>2, <2>3
  <2>5. ChannelFds(b) \intersect (used \union {FdZero, ServerFd}) = {}
    BY <2>1 DEF FdsApart
  <2>6. \A d \in mem.heap \ {c} : /\ ChannelFds(new.blk[d]) = ChannelFds(mem.blk[d])
                                  /\ ChannelFds(b) \intersect ChannelFds(mem.blk[d]) = {}
    BY <1>1, <2>1 DEF FdsApart
  <2> QED
    BY <1>1, <2>1, <2>4, <2>5, <2>6 DEF FdsApart
<1> QED
  BY <1>4, <1>5 DEF Descriptors, new

-----------------------------------------------------------------------------
(***************************************************************************)
(* The steps of the server, one action after another.                      *)
(***************************************************************************)
DescriptorsKept == Descriptors(m, ClientFds, Reserved)' /\ ClientsApart'

LEMMA DescriptorInit == Init => DescriptorInv
<1> SUFFICES ASSUME Init PROVE DescriptorInv
  OBVIOUS
<1>1. m.heap = {} /\ m.open = {FdZero}
      /\ \A c \in Chans : m.blk[c].remote_fd = NoFd /\ m.blk[c].listen_fd = NoFd
  BY DEF Init, InitMemory, EmptyBlock
<1>2. Present = {} /\ ClientFds = {} /\ Reserved = {FdZero}
  BY DEF Init, Present, OpenSlots, ClientFds, Reserved
<1> QED
  BY <1>1, <1>2, ChannelInit DEF DescriptorInv, Descriptors, BlocksSound, FdsApart, ClientsApart

LEMMA ReservedKnown == Reserved \subseteq {FdZero, ServerFd}
BY DEF Reserved

(* While a pass is under way the server socket is open.                    *)
LEMMA ReservedRunning ==
  ASSUME DescriptorInv, pc \notin {"start", "exit"}
  PROVE  Reserved = {FdZero, ServerFd}
BY DEF Reserved

(* A step of the pass that leaves every client its descriptor.             *)
LEMMA SameClientsStep ==
  ASSUME DescriptorInv, pc \notin {"start", "exit"}, pc' # "start",
         Present' = Present, \A s \in Present : clients'[s].fd = clients[s].fd,
         Descriptors(m', ClientFds, {FdZero, ServerFd}), m.wild => m'.wild
  PROVE  DescriptorsKept
<1>1. ClientFds' = ClientFds
  BY DEF ClientFds, Present
<1>2. Reserved' \subseteq {FdZero, ServerFd}
  BY DEF Reserved
<1>3. Descriptors(m', ClientFds, Reserved')
  BY <1>2 DEF Descriptors, FdsApart
<1>4. ClientsApart'
  BY DEF DescriptorInv, ClientsApart
<1> QED
  BY <1>1, <1>3, <1>4 DEF DescriptorsKept

(* A step of the pass that changes the memory alone.                       *)
LEMMA PassStep ==
  ASSUME DescriptorInv, pc \notin {"start", "exit"}, pc' # "start", UNCHANGED clients,
         Descriptors(m', ClientFds, {FdZero, ServerFd}), m.wild => m'.wild
  PROVE  DescriptorsKept
BY SameClientsStep DEF Present, OpenSlots

(* A step of the pass that changes no memory.                              *)
LEMMA QuietStep ==
  ASSUME DescriptorInv, pc \notin {"start", "exit"}, pc' # "start",
         Present' = Present, \A s \in Present : clients'[s].fd = clients[s].fd, UNCHANGED m
  PROVE  DescriptorsKept
BY SameClientsStep, ReservedRunning DEF DescriptorInv

LEMMA CrashDescriptors ==
  ASSUME DescriptorInv, NEW why, Crash(why) PROVE DescriptorsKept
BY DEF DescriptorInv, DescriptorsKept, Crash, ClientFds, Reserved, ClientsApart, Present,
       OpenSlots

(* A client goes and its descriptor with it.                               *)
LEMMA LeavingDescriptors ==
  ASSUME DescriptorInv, pc \notin {"start", "exit"}, pc' # "start", cur \in Present,
         m' = FreeClient(m, clients[cur]), clients' = [clients EXCEPT ![cur] = NoClient]
  PROVE  DescriptorsKept
<1> DEFINE f == clients[cur].fd
<1>1. m \in Memory /\ clients \in [Slots -> Client \union {NoClient}] /\ cur \in Slots
  BY DEF DescriptorInv, ChannelInv, TypeOK
<1>2. Present' = Present \ {cur} /\ \A s \in Present' : clients'[s] = clients[s]
  BY <1>1 DEF Present, OpenSlots
<1>3. m' = CloseFds(m, {f}) /\ m'.wild = m.wild /\ f \in ClientFds
  BY <1>1 DEF FreeClient, CloseFds, Memory, ClientFds, Present
<1>4. ClientFds' \subseteq ClientFds
  BY <1>2 DEF ClientFds, Present
<1>5. ~m.wild => f \notin ClientFds'
  BY <1>2 DEF DescriptorInv, ClientsApart, ClientFds, Present
<1>6. Descriptors(m, ClientFds, {FdZero, ServerFd})
  BY ReservedRunning DEF DescriptorInv
<1>7. Descriptors(m', ClientFds \ {f}, {FdZero, ServerFd})
  BY <1>1, <1>3, <1>6, CloseDescriptors
<1>8. Descriptors(m', ClientFds', Reserved')
  BY <1>3, <1>4, <1>5, <1>7 DEF Descriptors, FdsApart, Reserved
<1>9. ClientsApart'
  BY <1>2, <1>3 DEF DescriptorInv, ClientsApart
<1> QED
  BY <1>8, <1>9 DEF DescriptorsKept

LEMMA ShutdownDescriptors == ASSUME DescriptorInv, Shutdown PROVE DescriptorsKept
<1>1. m \in Memory
  BY DEF DescriptorInv, ChannelInv, TypeOK
<1>2. Present' = {} /\ ClientFds' = {} /\ Reserved' \subseteq Reserved
  BY DEF Shutdown, Present, OpenSlots, ClientFds, Reserved
<1>3. Descriptors(m', {}, Reserved)
  BY <1>1, ReservedKnown, CloseDescriptors DEF DescriptorInv, Shutdown
<1>4. Descriptors(m', ClientFds', Reserved')
  BY <1>2, <1>3 DEF Descriptors, FdsApart
<1> QED
  BY <1>2, <1>4 DEF DescriptorsKept, ClientsApart

LEMMA ListenDescriptors == ASSUME DescriptorInv, Listen PROVE DescriptorsKept
<1>1. m \in Memory
  BY DEF DescriptorInv, ChannelInv, TypeOK
<1>2. Present' = Present /\ ClientFds' = ClientFds
      /\ m'.heap = m.heap /\ m'.blk = m.blk /\ m'.wild = m.wild
      /\ m.open \subseteq m'.open
      /\ (pc' = "accept" => ServerFd \in m'.open)
      /\ pc' \in {"accept", "exit"}
  BY <1>1 DEF Listen, Present, OpenSlots, ClientFds, Memory
<1>3. ~m.wild => FdsApart(m', ClientFds, Reserved')
  BY <1>2 DEF DescriptorInv, Descriptors, FdsApart, Reserved
<1>4. Descriptors(m', ClientFds', Reserved')
  BY <1>2, <1>3 DEF DescriptorInv, Descriptors, BlocksSound
<1>5. ClientsApart'
  BY <1>2 DEF DescriptorInv, ClientsApart, Listen
<1> QED
  BY <1>4, <1>5 DEF DescriptorsKept

LEMMA AcceptDescriptors == ASSUME DescriptorInv, Accept PROVE DescriptorsKept
<1>1. m \in Memory /\ clients \in [Slots -> Client \union {NoClient}]
  BY DEF DescriptorInv, ChannelInv, TypeOK
<1>2. CASE AcceptNobody
  BY <1>2, QuietStep DEF AcceptNobody, Present, OpenSlots
<1>3. CASE AcceptFails
  BY <1>3, ShutdownDescriptors DEF AcceptFails
<1>4. CASE AcceptClient
  <2>1. PICK f \in Fd \ m.open, s \in OpenSlots :
          /\ clients' = [clients EXCEPT ![s] = NewClient(f)]
          /\ m' = [m EXCEPT !.open = @ \union {f}]
    BY <1>4 DEF AcceptClient
  <2>2. clients'[s].fd = f /\ \A t \in Slots \ {s} : clients'[t] = clients[t]
    BY <1>1, <2>1, NewClientType DEF OpenSlots
  <2>3. Present' = Present \union {s} /\ s \notin Present
    BY <1>1, <2>1, <2>2, NewClientType, NoClientAssumption DEF Present, OpenSlots
  <2>4. ClientFds' = ClientFds \union {f}
    BY <2>2, <2>3 DEF ClientFds, Present
  <2>5. Reserved' = {FdZero, ServerFd} /\ Reserved = {FdZero, ServerFd}
    BY <1>4 DEF AcceptClient, Reserved
  <2>6. Descriptors(m, ClientFds, {FdZero, ServerFd})
    BY <2>5 DEF DescriptorInv
  <2>7. Descriptors(m', ClientFds', Reserved')
    BY <1>1, <2>1, <2>4, <2>5, <2>6, OpenDescriptor
  <2>8. m'.wild = m.wild
    BY <1>1, <2>1 DEF Memory
  <2>9. ~m.wild => f \notin ClientFds
    BY <2>6 DEF Descriptors, FdsApart
  <2>10. ClientsApart'
    BY <2>2, <2>3, <2>8, <2>9 DEF DescriptorInv, ClientsApart, ClientFds, Present
  <2> QED
    BY <2>7, <2>10 DEF DescriptorsKept
<1>5. CASE AcceptRefused
  <2>1. CASE m' = m
    BY <1>5, <2>1, QuietStep DEF AcceptRefused, Present, OpenSlots
  <2>2. CASE m' = [CloseFds(m, {FdZero}) EXCEPT !.wild = TRUE]
    <3>1. m'.heap = m.heap /\ m'.blk = m.blk /\ m'.wild
      BY <1>1, <2>2 DEF Memory, CloseFds
    <3>2. Descriptors(m', ClientFds, {FdZero, ServerFd})
      BY <3>1 DEF DescriptorInv, Descriptors, BlocksSound
    <3> QED
      BY <1>5, <3>1, <3>2, PassStep DEF AcceptRefused
  <2> QED
    BY <1>5, <2>1, <2>2 DEF AcceptRefused
<1> QED
  BY <1>2, <1>3, <1>4, <1>5 DEF Accept

-----------------------------------------------------------------------------
(* dtp_poll() pushes the channel c back, with other words in its block.    *)
LEMMA RequeueDescriptors ==
  ASSUME DescriptorInv, NEW c \in Chans, Polling(c), NEW b \in Block, Requeue(c, b),
         b.remote_fd \in {NoFd, m.blk[c].remote_fd},
         b.listen_fd = m.blk[c].listen_fd, b.iface = m.blk[c].iface,
         c \in m.heap => BlockSound(b)
  PROVE  DescriptorsKept
<1> DEFINE mem == [m EXCEPT !.blk[c] = b]
<1>1. m \in Memory /\ mem \in Memory /\ pc = "poll"
  BY StoreType DEF DescriptorInv, ChannelInv, TypeOK, Polling
<1>2. Descriptors(m, ClientFds, {FdZero, ServerFd})
  BY <1>1, ReservedRunning DEF DescriptorInv
<1>3. Descriptors(mem, ClientFds, {FdZero, ServerFd})
  BY <1>1, <1>2, StoreDescriptors
<1>4. Descriptors(Requeued(mem, c), ClientFds, {FdZero, ServerFd})
  BY <1>1, <1>3, RequeuedDescriptors
<1>5. Requeued(mem, c).wild = m.wild
  BY <1>1 DEF Requeued, Memory
<1> QED
  BY <1>1, <1>4, <1>5, PassStep DEF Requeue

(* The blocks that dtp_poll() leaves.                                      *)
LEMMA PolledBlocksSound ==
  ASSUME NEW b \in Block
  PROVE  /\ LET e == SetState(b, "ERROR")
            IN  /\ e.remote_fd = b.remote_fd /\ e.listen_fd = b.listen_fd /\ e.iface = b.iface
                /\ BlockSound(b) => BlockSound(e)
         /\ LET r == Ready(b)
            IN  /\ r.remote_fd = b.remote_fd /\ r.listen_fd = b.listen_fd /\ r.iface = b.iface
                /\ BlockSound(b) /\ b.state = "ESTABLISHED" => BlockSound(r)
         /\ \A r \in SendResults(b) :
              /\ r.remote_fd \in {NoFd, b.remote_fd}
              /\ r.listen_fd = b.listen_fd /\ r.iface = b.iface
              /\ BlockSound(b) => BlockSound(r)
              /\ r.state = "CLOSED" /\ b.state = "SENDING" => r.remote_fd = NoFd
<1>1. LET e == SetState(b, "ERROR")
      IN  /\ e.remote_fd = b.remote_fd /\ e.listen_fd = b.listen_fd /\ e.iface = b.iface
          /\ BlockSound(b) => BlockSound(e)
  BY DEF SetState, Block, BlockSound
<1>2. LET r == Ready(b)
      IN  /\ r.remote_fd = b.remote_fd /\ r.listen_fd = b.listen_fd /\ r.iface = b.iface
          /\ BlockSound(b) /\ b.state = "ESTABLISHED" => BlockSound(r)
  BY DEF Ready, SetState, Block, BlockSound
<1>3. ASSUME NEW r \in SendResults(b)
      PROVE  /\ r.remote_fd \in {NoFd, b.remote_fd}
             /\ r.listen_fd = b.listen_fd /\ r.iface = b.iface
             /\ BlockSound(b) => BlockSound(r)
             /\ r.state = "CLOSED" /\ b.state = "SENDING" => r.remote_fd = NoFd
  <2>1. CASE r = b
    BY <2>1
  <2>2. CASE r = SetState(b, "ERROR")
    BY <1>1, <2>2 DEF SetState, Block
  <2>3. CASE r = Finished(b)
    BY <2>3 DEF Finished, SetState, Block, BlockSound
  <2> QED
    BY <2>1, <2>2, <2>3 DEF SendResults
<1> QED
  BY <1>1, <1>2, <1>3

LEMMA PollDescriptors ==
  ASSUME DescriptorInv, NEW c \in Chans, Poll(c) PROVE DescriptorsKept
<1> DEFINE b == m.blk[c]
<1>1. m \in Memory /\ b \in Block
  BY DEF DescriptorInv, ChannelInv, TypeOK, Memory
<1>2. Polling(c) \/ PollStale(c)
  BY DEF Poll, PollAccept, PollIdle, PollReady, PollSend, PollFree
<1>3. Polling(c) /\ pc = "poll"
  BY <1>2 DEF PollStale, Polling
<1>4. c \in m.heap => BlockSound(b)
  BY DEF DescriptorInv, Descriptors, BlocksSound
<1>5. Descriptors(m, ClientFds, {FdZero, ServerFd})
  BY <1>3, ReservedRunning DEF DescriptorInv
<1>6. CASE PollAccept(c)
  <2>1. CASE Requeue(c, b)
    BY <1>1, <1>3, <1>4, <2>1, RequeueDescriptors
  <2>2. CASE Requeue(c, SetState(b, "ERROR"))
    <3>1. SetState(b, "ERROR") \in Block
      BY <1>1, SetStateType DEF ChanStates
    <3> QED
      BY <1>1, <1>3, <1>4, <2>2, <3>1, PolledBlocksSound, RequeueDescriptors
  <2>3. ASSUME NEW f \in Fd \ m.open, b.listen_fd \in m.open,
               m' = Requeued(Accepted(m, c, f), c),
               UNCHANGED <<clients, pc, cur, left, fault>>
        PROVE  DescriptorsKept
    <3> DEFINE mem == Accepted(m, c, f)
    <3>1. mem \in Memory /\ mem.wild = m.wild
      BY <1>1, AcceptedType DEF Accepted, Memory
    <3>2. Descriptors(mem, ClientFds, {FdZero, ServerFd})
      BY <1>1, <1>5, <1>6, <2>3, AcceptedDescriptors DEF PollAccept
    <3> HIDE DEF mem
    <3>3. Descriptors(Requeued(mem, c), ClientFds, {FdZero, ServerFd})
      BY <3>1, <3>2, RequeuedDescriptors
    <3>4. Requeued(mem, c).wild = m.wild
      BY <3>1 DEF Requeued, Memory
    <3> QED
      BY <1>3, <2>3, <3>3, <3>4, PassStep DEF mem
  <2> QED
    BY <1>6, <2>1, <2>2, <2>3 DEF PollAccept
<1>7. CASE PollIdle(c)
  BY <1>1, <1>3, <1>4, <1>7, RequeueDescriptors DEF PollIdle
<1>8. CASE PollReady(c)
  <2>1. Ready(b) \in Block
    BY <1>1, ReadyType
  <2> QED
    BY <1>1, <1>3, <1>4, <1>8, <2>1, PolledBlocksSound, RequeueDescriptors DEF PollReady
<1>9. CASE PollSend(c)
  <2>1. PICK r \in SendResults(b) :
          \/ Requeue(c, r)
          \/ /\ r.state = "CLOSED"
             /\ m' = Requeued([CloseFds(m, {b.remote_fd}) EXCEPT !.blk[c] = r], c)
             /\ UNCHANGED <<clients, pc, cur, left, fault>>
    BY <1>9 DEF PollSend
  <2>2. r \in Block
    BY <1>1, SendResultsType
  <2>3. /\ r.remote_fd \in {NoFd, b.remote_fd}
        /\ r.listen_fd = b.listen_fd /\ r.iface = b.iface
        /\ c \in m.heap => BlockSound(r)
        /\ r.state = "CLOSED" => r.remote_fd = NoFd
    BY <1>1, <1>4, <1>9, PolledBlocksSound DEF PollSend
  <2>4. CASE Requeue(c, r)
    BY <1>3, <2>2, <2>3, <2>4, RequeueDescriptors
  <2>5. CASE /\ r.state = "CLOSED"
             /\ m' = Requeued([CloseFds(m, {b.remote_fd}) EXCEPT !.blk[c] = r], c)
             /\ UNCHANGED <<clients, pc, cur, left, fault>>
    <3> DEFINE over == [m EXCEPT !.blk[c] = r]
               mem  == CloseFds(over, {b.remote_fd})
    <3>1. over \in Memory
      BY <1>1, <2>2, StoreType
    <3>2. Descriptors(over, ClientFds, {FdZero, ServerFd})
      BY <1>1, <1>5, <2>2, <2>3, StoreDescriptors
    <3>3. /\ over.heap = m.heap /\ over.wild = m.wild /\ over.open = m.open
          /\ over.blk[c] = r /\ \A d \in Chans \ {c} : over.blk[d] = m.blk[d]
          /\ m.heap \subseteq Chans
      BY <1>1 DEF Memory
    <3> HIDE DEF over
    <3>4. b.remote_fd # NoFd => c \in m.heap /\ b.iface = "passive" /\ b.listen_fd = NoFd
      BY DEF DescriptorInv, Descriptors, BlocksSound, BlockSound
    <3>5. b.remote_fd # NoFd => b.remote_fd \in ChannelFds(b)
      BY DEF ChannelFds
    <3>6. ~over.wild =>
            /\ ({b.remote_fd} \ {NoFd}) \intersect (ClientFds \union {FdZero, ServerFd}) = {}
            /\ \A d \in over.heap :
                 ({b.remote_fd} \ {NoFd}) \intersect ChannelFds(over.blk[d]) = {}
      <4> SUFFICES ASSUME ~m.wild, b.remote_fd # NoFd
                   PROVE  /\ b.remote_fd \notin ClientFds \union {FdZero, ServerFd}
                          /\ \A d \in m.heap : b.remote_fd \notin ChannelFds(over.blk[d])
        BY <3>3
      <4>1. FdsApart(m, ClientFds, {FdZero, ServerFd})
        BY <1>5 DEF Descriptors
      <4>2. b.remote_fd \notin ClientFds \union {FdZero, ServerFd}
        BY <3>4, <3>5, <4>1 DEF FdsApart
      <4>3. \A d \in m.heap \ {c} : b.remote_fd \notin ChannelFds(over.blk[d])
        BY <3>3, <3>4, <3>5, <4>1 DEF FdsApart
      <4>4. b.remote_fd \notin ChannelFds(r)
        BY <2>3, <2>5, <3>4 DEF ChannelFds
      <4> QED
        BY <3>3, <4>2, <4>3, <4>4
    <3>7. Descriptors(CloseFds(over, {b.remote_fd} \ {NoFd}), ClientFds, {FdZero, ServerFd})
      BY <3>1, <3>2, <3>6, CloseUnusedDescriptors
    <3>8. mem = CloseFds(over, {b.remote_fd} \ {NoFd})
      <4>1. NoFd \notin over.open
        BY <3>1, ChannelAssumption DEF Memory
      <4>2. over.open \ {b.remote_fd} = over.open \ ({b.remote_fd} \ {NoFd})
        BY <4>1
      <4> QED
        BY <4>2 DEF CloseFds
    <3>9. mem = [CloseFds(m, {b.remote_fd}) EXCEPT !.blk[c] = r]
      BY <1>1 DEF over, CloseFds, Memory
    <3>10. mem \in Memory /\ mem.wild = m.wild
      BY <3>1, <3>3, CloseFdsType DEF CloseFds, Memory
    <3> HIDE DEF mem
    <3>11. Descriptors(Requeued(mem, c), ClientFds, {FdZero, ServerFd})
      BY <3>7, <3>8, <3>10, RequeuedDescriptors
    <3>12. Requeued(mem, c).wild = m.wild
      BY <3>10 DEF Requeued, Memory
    <3> QED
      BY <1>3, <2>5, <3>9, <3>11, <3>12, PassStep
  <2> QED
    BY <2>1, <2>4, <2>5
<1>10. CASE PollFree(c)
  <2>1. CASE Crash("bad free")
    BY <2>1, CrashDescriptors
  <2>2. CASE c \in m.heap /\ m' = FreeChannel(Unlinked(m, c), c) /\ UNCHANGED <<clients, pc>>
    <3> DEFINE z   == [b EXCEPT !.next = Null]
               mid == [m EXCEPT !.blk[c] = z]
               mem == Unlinked(m, c)
    <3>1. mem \in Memory
      BY <1>1, UnlinkedType
    <3>2. /\ z \in Block /\ z.remote_fd = b.remote_fd /\ z.listen_fd = b.listen_fd
          /\ z.iface = b.iface /\ (BlockSound(b) => BlockSound(z))
      BY <1>1 DEF Block, Ptr, BlockSound
    <3>3. Descriptors(mid, ClientFds, {FdZero, ServerFd})
      BY <1>1, <1>4, <1>5, <3>2, StoreDescriptors
    <3>4. /\ mem.heap = mid.heap /\ mem.blk = mid.blk /\ mem.open = mid.open
          /\ mem.wild = mid.wild /\ mem.heap = m.heap /\ mem.wild = m.wild
      BY <1>1 DEF Unlinked, Memory
    <3> HIDE DEF mid, mem
    <3>5. Descriptors(mem, ClientFds, {FdZero, ServerFd})
      BY <3>3, <3>4 DEF Descriptors, BlocksSound, FdsApart
    <3>6. Descriptors(FreeChannel(mem, c), ClientFds, {FdZero, ServerFd})
      BY <2>2, <3>1, <3>4, <3>5, FreeDescriptors
    <3>7. mem.wild => FreeChannel(mem, c).wild
      BY <3>1 DEF FreeChannel, Memory
    <3> QED
      BY <1>3, <2>2, <3>4, <3>6, <3>7, PassStep DEF mem
  <2> QED
    BY <1>10, <2>1, <2>2 DEF PollFree
<1>11. CASE PollStale(c)
  BY <1>11, CrashDescriptors DEF PollStale
<1> QED
  BY <1>6, <1>7, <1>8, <1>9, <1>10, <1>11 DEF Poll

-----------------------------------------------------------------------------
(* handle_data_events() stores a state and no descriptor.                  *)
LEMMA DataEventsDescriptors ==
  ASSUME DescriptorInv, fault = "none", DataEvents PROVE DescriptorsKept
<1> DEFINE cl   == clients[cur]
           done == Released(cl)
<1>1. /\ m \in Memory /\ cl \in Client /\ cur \in Slots /\ pc = "data"
      /\ clients \in [Slots -> Client \union {NoClient}] /\ cl # NoClient
  BY PresentClient DEF DescriptorInv, ChannelInv, TypeOK, DataEvents
<1>2. /\ done \in Client /\ done.fd = cl.fd
      /\ Reply(done) \in Client /\ Reply(done).fd = cl.fd
  <2>1. cl.state \ {"DATA"} \in SUBSET Flags /\ Null \in Ptr
    BY <1>1 DEF Client, Ptr
  <2>2. done \in Client
    BY <1>1, <2>1, ClientUpdates DEF Released
  <2>3. done.fd = cl.fd
    BY <1>1 DEF Client, Released
  <2> QED
    BY <2>2, <2>3, ReplyType
<1>3. Present' = Present /\ \A s \in Present : clients'[s].fd = clients[s].fd
  BY <1>1, <1>2, NoClientAssumption DEF DataEvents, Present, OpenSlots
<1>4. pc' \in {"control", "output"}
  BY DEF DataEvents
<1>5. CASE UNCHANGED m
  BY <1>1, <1>3, <1>4, <1>5, QuietStep
<1>6. CASE cl.data # Null /\ m' = [m EXCEPT !.blk[cl.data] = SetState(@, "FREE")]
  <2> DEFINE c == cl.data
             b == SetState(m.blk[c], "FREE")
  <2>1. c \in Chans /\ m.blk[c] \in Block
    BY <1>1, <1>6 DEF Client, Ptr, Memory
  <2>2. b \in Block
    BY <2>1, SetStateType DEF ChanStates
  <2>3. /\ b.remote_fd = m.blk[c].remote_fd /\ b.listen_fd = m.blk[c].listen_fd
        /\ b.iface = m.blk[c].iface /\ (BlockSound(m.blk[c]) => BlockSound(b))
    BY <2>1 DEF SetState, Block, BlockSound
  <2>4. Descriptors(m, ClientFds, {FdZero, ServerFd})
    BY <1>1, ReservedRunning DEF DescriptorInv
  <2>5. m' = [m EXCEPT !.blk[c] = b]
    BY <1>6
  <2>6. Descriptors(m', ClientFds, {FdZero, ServerFd})
    <3>1. b.remote_fd \in {NoFd, m.blk[c].remote_fd}
      BY <2>3
    <3>2. c \in m.heap => BlockSound(b)
      BY <2>3, <2>4 DEF Descriptors, BlocksSound
    <3>3. Descriptors([m EXCEPT !.blk[c] = b], ClientFds, {FdZero, ServerFd})
      <4> HIDE DEF b
      <4> QED
        BY <1>1, <2>1, <2>2, <2>3, <2>4, <3>1, <3>2, StoreDescriptors
    <3> QED
      BY <2>5, <3>3
  <2>7. m'.wild = m.wild
    BY <1>1, <2>5 DEF Memory
  <2> QED
    BY <1>1, <1>3, <1>4, <2>6, <2>7, SameClientsStep
<1> QED
  BY <1>5, <1>6 DEF DataEvents

LEMMA OutputDescriptors ==
  ASSUME DescriptorInv, fault = "none", Output PROVE DescriptorsKept
<1>1. /\ clients[cur] \in Client /\ clients[cur] # NoClient /\ cur \in Slots
      /\ clients \in [Slots -> Client \union {NoClient}] /\ pc = "output"
  BY PresentClient DEF DescriptorInv, ChannelInv, TypeOK, Output
<1>2. pc' \in {"data", "input"}
  BY NextSlotType DEF Output, DescriptorInv, ChannelInv, TypeOK
<1>3. CASE m' = FreeClient(m, clients[cur]) /\ clients' = [clients EXCEPT ![cur] = NoClient]
  BY <1>1, <1>2, <1>3, LeavingDescriptors DEF Present, OpenSlots
<1>4. CASE clients' = [clients EXCEPT ![cur].out = 0] /\ UNCHANGED m
  <2>1. clients'[cur] \in Client /\ clients'[cur].fd = clients[cur].fd
        /\ \A s \in Slots \ {cur} : clients'[s] = clients[s]
    BY <1>1, <1>4, ServerAssumption DEF Client
  <2>2. Present' = Present /\ \A s \in Present : clients'[s].fd = clients[s].fd
    BY <1>1, <2>1, NoClientAssumption DEF Present, OpenSlots
  <2> QED
    BY <1>1, <1>2, <1>4, <2>2, QuietStep
<1> QED
  BY <1>3, <1>4 DEF Output

LEMMA DisconnectedDescriptors ==
  ASSUME DescriptorInv, fault = "none", Disconnected PROVE DescriptorsKept
<1>1. clients[cur] # NoClient /\ cur \in Slots /\ pc = "control"
  BY DEF DescriptorInv, ChannelInv, TypeOK, Disconnected
<1>2. pc' # "start"
  BY <1>1, NextSlotType DEF Disconnected, DescriptorInv, ChannelInv, TypeOK
<1> QED
  BY <1>1, <1>2, LeavingDescriptors DEF Disconnected, Present, OpenSlots

-----------------------------------------------------------------------------
(* The handler of a line leaves its client the connection.                 *)
LEMMA HandledDescriptors ==
  ASSUME DescriptorInv, fault = "none", pc = "cmd", NEW cl \in Client,
         cl.fd = clients[cur].fd, NEW mem, Handled(cl, mem),
         Descriptors(mem, ClientFds, {FdZero, ServerFd}), m.wild => mem.wild
  PROVE  DescriptorsKept
<1>1. /\ clients[cur] # NoClient /\ cur \in Slots
      /\ clients \in [Slots -> Client \union {NoClient}]
  BY DEF DescriptorInv, ChannelInv, TypeOK
<1>2. Present' = Present /\ \A s \in Present : clients'[s].fd = clients[s].fd
  BY <1>1, NoClientAssumption DEF Handled, Present, OpenSlots
<1> QED
  BY <1>2, SameClientsStep DEF Handled

LEMMA AnsweredDescriptors ==
  ASSUME DescriptorInv, fault = "none", pc = "cmd", NEW cl \in Client,
         cl.fd = clients[cur].fd, Handled(cl, m)
  PROVE  DescriptorsKept
BY ReservedRunning, HandledDescriptors DEF DescriptorInv

(* ftp_data_send_buffer() stores no descriptor.                            *)
LEMMA SendListingDescriptors ==
  ASSUME DescriptorInv, fault = "none", pc = "cmd", NEW cl \in Client,
         cl.fd = clients[cur].fd, NEW c \in Chans, NEW mem \in Memory,
         Descriptors(mem, ClientFds, {FdZero, ServerFd}), m.wild => mem.wild,
         SendListing(cl, c, mem)
  PROVE  DescriptorsKept
<1> DEFINE b    == mem.blk[c]
           busy == [cl EXCEPT !.state = @ \union {"DATA"}, !.data = c]
<1>1. b \in Block /\ (c \in mem.heap => BlockSound(b))
  BY DEF Memory, Descriptors, BlocksSound
<1>2. /\ busy \in Client /\ busy.fd = cl.fd
      /\ Reply(busy) \in Client /\ Reply(busy).fd = cl.fd
  <2>1. cl.state \union {"DATA"} \in SUBSET Flags /\ c \in Ptr
    BY DEF Client, Flags, Ptr
  <2>2. busy \in Client
    BY <2>1, ClientUpdates
  <2>3. busy.fd = cl.fd
    BY DEF Client
  <2> QED
    BY <2>2, <2>3, ReplyType
<1> HIDE DEF busy
<1>3. ASSUME NEW r \in Block, r.remote_fd \in {NoFd, b.remote_fd}, r.listen_fd = b.listen_fd,
             r.iface = b.iface, c \in mem.heap => BlockSound(r),
             NEW after \in Client, after.fd = cl.fd,
             Handled(after, [mem EXCEPT !.blk[c] = r])
      PROVE  DescriptorsKept
  <2> DEFINE new == [mem EXCEPT !.blk[c] = r]
  <2>1. Descriptors(new, ClientFds, {FdZero, ServerFd})
    BY <1>3, StoreDescriptors
  <2>2. new.wild = mem.wild
    BY DEF Memory
  <2> HIDE DEF new
  <2>3. Handled(after, new)
    BY <1>3 DEF new
  <2> QED
    BY <1>3, <2>1, <2>2, <2>3, HandledDescriptors
<1>4. CASE IsConnected(b) /\ CanQueue(b)
  <2>1. PICK listing \in {"listing", "null"} :
          Handled(busy, [mem EXCEPT !.blk[c] = Queued(b, listing)])
    BY <1>4 DEF SendListing, busy
  <2>2. Queued(b, listing) \in Block
    BY <1>1, QueuedType
  <2>3. /\ Queued(b, listing).remote_fd = b.remote_fd
        /\ Queued(b, listing).listen_fd = b.listen_fd
        /\ Queued(b, listing).iface = b.iface
        /\ BlockSound(b) => BlockSound(Queued(b, listing))
    BY <1>1 DEF Queued, Block, BlockSound
  <2> QED
    BY <1>1, <1>2, <1>3, <2>1, <2>2, <2>3
<1>5. CASE IsConnected(b) /\ ~CanQueue(b)
  <2>1. Handled(Reply(busy), mem)
    BY <1>5 DEF SendListing, busy
  <2> QED
    BY <1>2, <2>1, HandledDescriptors
<1>6. CASE ~IsConnected(b)
  <2> DEFINE r == [b EXCEPT !.remote_fd = NoFd]
  <2>1. Handled(Reply(busy), [mem EXCEPT !.blk[c] = r])
    BY <1>6 DEF SendListing, busy
  <2>2. /\ r \in Block /\ r.remote_fd = NoFd /\ r.listen_fd = b.listen_fd
        /\ r.iface = b.iface
    BY <1>1 DEF Block, MaybeFd
  <2>3. BlockSound(b) => BlockSound(r)
    BY <1>1, <1>6 DEF Block, BlockSound, IsConnected
  <2> HIDE DEF r
  <2> QED
    BY <1>1, <1>2, <1>3, <2>1, <2>2, <2>3
<1> QED
  BY <1>4, <1>5, <1>6

(* do_passive() frees the former channel and opens a new one.              *)
LEMMA PasvDescriptors ==
  ASSUME DescriptorInv, fault = "none", pc = "cmd", clients[cur] \in Client,
         Pasv(clients[cur])
  PROVE  DescriptorsKept
<1> DEFINE cl  == clients[cur]
           mem == IF cl.data = Null THEN m ELSE FreeChannel(m, cl.data)
<1>1. m \in Memory /\ clients[cur] # NoClient /\ cur \in Slots
  BY DEF DescriptorInv, ChannelInv, TypeOK
<1>2. CASE Crash("bad free") \/ Crash("null deref")
  BY <1>2, CrashDescriptors
<1>3. CASE ~(Crash("bad free") \/ Crash("null deref"))
  <2>1. cl.data # Null => cl.data \in m.heap /\ cl.data \in Chans
    BY <1>1 DEF DescriptorInv, ChannelInv, ChannelOwnership, OpenSlots, Client, Ptr
  <2>2. mem \in Memory /\ (m.wild => mem.wild)
    <3>1. CASE cl.data = Null
      BY <1>1, <3>1
    <3>2. CASE cl.data # Null
      <4>1. FreeChannel(m, cl.data) \in Memory
        BY <1>1, <2>1, <3>2, FreeChannelType
      <4>2. m.wild => FreeChannel(m, cl.data).wild
        BY <1>1 DEF FreeChannel, Memory
      <4> QED
        BY <3>2, <4>1, <4>2
    <3> QED
      BY <3>1, <3>2
  <2>3. Descriptors(m, ClientFds, {FdZero, ServerFd})
    BY ReservedRunning DEF DescriptorInv
  <2>4. Descriptors(mem, ClientFds, {FdZero, ServerFd})
    BY <1>1, <2>1, <2>3, FreeDescriptors
  <2> HIDE DEF mem
  <2>5. PICK c \in Chans \ mem.heap, f \in Fd \ mem.open :
          Handled(Reply([cl EXCEPT !.data = c]), NewPassive(mem, c, f))
    BY <1>3 DEF Pasv, mem
  <2>6. Descriptors(NewPassive(mem, c, f), ClientFds, {FdZero, ServerFd})
    BY <2>2, <2>4, NewPassiveDescriptors
  <2>7. NewPassive(mem, c, f).wild = mem.wild
    BY <2>2 DEF NewPassive, NewChannel, Memory
  <2>8. [cl EXCEPT !.data = c] \in Client /\ [cl EXCEPT !.data = c].fd = cl.fd
    BY DEF Client, Ptr
  <2> DEFINE after == Reply([cl EXCEPT !.data = c])
             new   == NewPassive(mem, c, f)
  <2>9. after \in Client /\ after.fd = cl.fd
    BY <2>8, ReplyType
  <2>10. Handled(after, new)
    BY <2>5
  <2> HIDE DEF after, new
  <2>11. Descriptors(new, ClientFds, {FdZero, ServerFd}) /\ (m.wild => new.wild)
    BY <2>2, <2>6, <2>7 DEF new
  <2> QED
    BY <2>9, <2>10, <2>11, HandledDescriptors
<1> QED
  BY <1>2, <1>3

(* new_active_channel() on behalf of a client.                             *)
LEMMA NewActiveInPass ==
  ASSUME DescriptorInv, pc = "cmd", NEW c \in Chans \ m.heap, NEW garbage \in UninitFd
  PROVE  LET new == NewActive(m, c, garbage)
         IN  /\ new \in Memory /\ new.wild = m.wild
             /\ Descriptors(new, ClientFds, {FdZero, ServerFd})
<1>1. m \in Memory
  BY DEF DescriptorInv, ChannelInv, TypeOK
<1>2. Descriptors(m, ClientFds, {FdZero, ServerFd})
  BY ReservedRunning DEF DescriptorInv
<1>3. NewActive(m, c, garbage).wild = m.wild
  BY <1>1 DEF NewActive, NewChannel, Memory
<1> QED
  BY <1>1, <1>2, <1>3, NewActiveType, NewActiveDescriptors

LEMMA PortDescriptors ==
  ASSUME DescriptorInv, fault = "none", pc = "cmd", clients[cur] \in Client,
         Port(clients[cur])
  PROVE  DescriptorsKept
<1> DEFINE cl == clients[cur]
<1>1. CASE Crash("null deref")
  BY <1>1, CrashDescriptors
<1>2. ASSUME NEW c \in Chans \ m.heap, NEW garbage \in UninitFd,
             Handled([cl EXCEPT !.data = c], NewActive(m, c, garbage))
      PROVE  DescriptorsKept
  <2>1. [cl EXCEPT !.data = c] \in Client /\ [cl EXCEPT !.data = c].fd = cl.fd
    BY DEF Client, Ptr
  <2> QED
    BY <1>2, <2>1, NewActiveInPass, HandledDescriptors
<1> QED
  BY <1>1, <1>2 DEF Port

LEMMA ListDescriptors ==
  ASSUME DescriptorInv, fault = "none", pc = "cmd", clients[cur] \in Client,
         List(clients[cur])
  PROVE  DescriptorsKept
<1> DEFINE cl == clients[cur]
<1>1. CASE Crash("null deref")
  BY <1>1, CrashDescriptors
<1>2. CASE cl.data # Null /\ SendListing(cl, cl.data, m)
  <2>1. cl.data \in Chans /\ m \in Memory
    BY <1>2 DEF Client, Ptr, DescriptorInv, ChannelInv, TypeOK
  <2>2. Descriptors(m, ClientFds, {FdZero, ServerFd})
    BY ReservedRunning DEF DescriptorInv
  <2> QED
    BY <1>2, <2>1, <2>2, SendListingDescriptors
<1>3. ASSUME NEW c \in Chans \ m.heap, NEW garbage \in UninitFd,
             SendListing(cl, c, NewActive(m, c, garbage))
      PROVE  DescriptorsKept
  BY <1>3, NewActiveInPass, SendListingDescriptors
<1> QED
  BY <1>1, <1>2, <1>3 DEF List

LEMMA CommandDescriptors ==
  ASSUME DescriptorInv, fault = "none", Command PROVE DescriptorsKept
<1> DEFINE cl == clients[cur]
<1>1. pc = "cmd" /\ cl \in Client
  BY PresentClient DEF Command, DescriptorInv, ChannelInv, TypeOK
<1>2. PICK cmd \in Commands : Invoke(cl, cmd)
  BY DEF Command
<1>3. CASE Handled(Reply(cl), m) \/ Handled(cl, m)
  BY <1>1, <1>3, ReplyType, AnsweredDescriptors
<1>4. CASE User(cl) \/ Pass(cl) \/ Quit(cl) \/ Rein(cl)
  <2>1. ASSUME NEW st \in SUBSET Flags, Handled(Reply([cl EXCEPT !.state = st]), m)
        PROVE  DescriptorsKept
    <3>1. [cl EXCEPT !.state = st] \in Client /\ [cl EXCEPT !.state = st].fd = cl.fd
      BY <1>1 DEF Client
    <3> QED
      BY <1>1, <2>1, <3>1, ReplyType, AnsweredDescriptors
  <2>2. /\ {"USER"} \in SUBSET Flags
        /\ (IF cl.state = {"USER"} THEN {"AUTH"} ELSE cl.state) \in SUBSET Flags
        /\ cl.state \union {"DISCONN"} \in SUBSET Flags
        /\ {} \in SUBSET Flags
    BY <1>1 DEF Client, Flags
  <2> QED
    BY <1>4, <2>1, <2>2 DEF User, Pass, Quit, Rein
<1> QED
  BY <1>1, <1>2, <1>3, <1>4, PasvDescriptors, PortDescriptors, ListDescriptors DEF Invoke

-----------------------------------------------------------------------------
LEMMA DescriptorStep == ASSUME DescriptorInv, [Next]_vars PROVE DescriptorInv'
<1>1. ChannelInv'
  BY ChannelStep DEF DescriptorInv
<1>2. CASE UNCHANGED vars
  <2>1. DescriptorsKept
    BY <1>2 DEF DescriptorInv, DescriptorsKept, vars, ClientFds, Reserved, ClientsApart,
                Present, OpenSlots
  <2> QED
    BY <1>1, <2>1 DEF DescriptorInv, DescriptorsKept
<1>3. CASE ~Halted /\ Server
  <2> SUFFICES DescriptorsKept
    BY <1>1 DEF DescriptorInv, DescriptorsKept
  <2>1. fault = "none"
    BY <1>3 DEF Halted
  <2>2. m \in Memory /\ cur \in Slots
    BY DEF DescriptorInv, ChannelInv, TypeOK
  <2>3. CASE PollEnd
    <3>1. /\ m'.heap = m.heap /\ m'.blk = m.blk /\ m'.open = m.open /\ m'.wild = m.wild
          /\ UNCHANGED clients /\ pc = "poll" /\ pc' = "data"
      BY <2>2, <2>3 DEF PollEnd, ListsSwapped, Memory
    <3>2. Descriptors(m', ClientFds, {FdZero, ServerFd})
      BY <3>1, ReservedRunning DEF DescriptorInv, Descriptors, BlocksSound, FdsApart
    <3> QED
      BY <3>1, <3>2, PassStep
  <2>4. CASE SkipSlot
    BY <2>2, <2>4, NextSlotType, QuietStep DEF SkipSlot, Present, OpenSlots
  <2>5. CASE Receive
    BY <2>5, QuietStep DEF Receive, Present, OpenSlots
  <2>6. CASE Input
    BY <2>6, ShutdownDescriptors, QuietStep DEF Input, Present, OpenSlots
  <2> QED
    BY <1>3, <2>1, <2>3, <2>4, <2>5, <2>6, ListenDescriptors, AcceptDescriptors,
       PollDescriptors, DataEventsDescriptors, DisconnectedDescriptors, CommandDescriptors,
       OutputDescriptors DEF Server
<1> QED
  BY <1>2, <1>3 DEF Next

LEMMA DescriptorInvariant == Spec => []DescriptorInv
BY DescriptorInit, DescriptorStep, PTL DEF Spec

(***************************************************************************)
(* Until a descriptor is closed that its owner never stored, each open     *)
(* descriptor has one user, in every behaviour, also after a channel was   *)
(* freed that was still linked.                                            *)
(***************************************************************************)
THEOREM DescriptorsOwned == Spec => []FdOwnership
<1>1. DescriptorInv => FdOwnership
  <2> SUFFICES ASSUME DescriptorInv, ~m.wild PROVE FdOwnership
    BY DEF FdOwnership
  <2>1. FdsApart(m, ClientFds, Reserved) /\ BlocksSound(m)
    BY DEF DescriptorInv, Descriptors
  <2>2. FdZero \in m.open /\ (pc \notin {"start", "exit"} => ServerFd \in m.open)
    BY <2>1 DEF FdsApart, Reserved
  <2>3. \A s, t \in Slots \ OpenSlots : clients[s].fd = clients[t].fd => s = t
    BY DEF DescriptorInv, ClientsApart, Present
  <2>4. \A c \in m.heap :
          /\ ChannelFds(m.blk[c]) \subseteq (m.open \ {FdZero, ServerFd}) \ ClientFds
          /\ m.blk[c].remote_fd # NoFd => m.blk[c].remote_fd # m.blk[c].listen_fd
          /\ \A d \in m.heap \ {c} : ChannelFds(m.blk[c]) \intersect ChannelFds(m.blk[d]) = {}
    BY <2>1 DEF FdsApart, BlocksSound, BlockSound
  <2>5. ClientFds \subseteq m.open \ {FdZero, ServerFd}
    BY <2>1 DEF FdsApart
  <2> QED
    BY <2>2, <2>3, <2>4, <2>5 DEF FdOwnership
<1> QED
  BY <1>1, DescriptorInvariant, PTL

(***************************************************************************)
(* A channel that sends is connected and has a listing, in every           *)
(* behaviour: no client waits for a transfer that cannot start.            *)
(***************************************************************************)
THEOREM SendersReady == Spec => []NoStalledSend
<1>1. DescriptorInv => NoStalledSend
  BY DEF DescriptorInv, Descriptors, BlocksSound, BlockSound, NoStalledSend
<1> QED
  BY <1>1, DescriptorInvariant, PTL

-----------------------------------------------------------------------------
(***************************************************************************)
(* Module FtpServer implements module ChannelRegistry: step by step, for   *)
(* any number of channels, the lists of dtp_poll() do what the registry    *)
(* promises.                                                               *)
(***************************************************************************)

(***************************************************************************)
(* What is threaded on a list, as a function of the memory: the least set  *)
(* that holds the head and the successors of its members.                  *)
(***************************************************************************)
Leads(mem, head, S) ==
  /\ head \in S \union {Null}
  /\ \A d \in S : mem.blk[d].next \in S \union {Null}

Reach(mem, head) ==
  {c \in mem.heap : \A S \in SUBSET mem.heap : Leads(mem, head, S) => c \in S}

(* The registry that the memory stands for.                                *)
Todo(mem)  == Reach(mem, mem.list)
Later(mem) == Reach(mem, mem.nlist)
Given(mem) == {c \in mem.heap : mem.blk[c].state = "FREE"}

LEMMA ReachIn ==
  ASSUME NEW mem, NEW head PROVE Reach(mem, head) \subseteq mem.heap
BY DEF Reach

LEMMA ReachLeast ==
  ASSUME NEW mem, NEW head, NEW S \in SUBSET mem.heap, Leads(mem, head, S)
  PROVE  Reach(mem, head) \subseteq S
BY DEF Reach

LEMMA ReachLeads ==
  ASSUME NEW mem, PointersLive(mem), NEW head \in mem.heap \union {Null}
  PROVE  Leads(mem, head, Reach(mem, head))
<1>1. head \in Reach(mem, head) \union {Null}
  BY DEF Reach, Leads
<1>2. ASSUME NEW d \in Reach(mem, head)
      PROVE  mem.blk[d].next \in Reach(mem, head) \union {Null}
  BY DEF Reach, Leads, PointersLive
<1> QED
  BY <1>1, <1>2 DEF Leads

LEMMA ReachNothing == ASSUME NEW mem PROVE Reach(mem, Null) = {}
<1>1. {} \in SUBSET mem.heap /\ Leads(mem, Null, {})
  BY DEF Leads
<1> QED
  BY <1>1, ReachLeast

(* The list from c on is c and what follows.                               *)
LEMMA ReachHead ==
  ASSUME NEW mem, PointersLive(mem), NEW c \in mem.heap, c # Null
  PROVE  Reach(mem, c) = {c} \union Reach(mem, mem.blk[c].next)
<1> DEFINE n == mem.blk[c].next
<1>1. n \in mem.heap \union {Null}
  BY DEF PointersLive
<1>2. Leads(mem, n, Reach(mem, n)) /\ Leads(mem, c, Reach(mem, c))
  BY <1>1, ReachLeads
<1>3. Reach(mem, c) \subseteq {c} \union Reach(mem, n)
  <2> DEFINE S == {c} \union Reach(mem, n)
  <2>1. S \in SUBSET mem.heap
    BY ReachIn
  <2>2. Leads(mem, c, S)
    BY <1>2 DEF Leads
  <2> HIDE DEF S
  <2>3. Reach(mem, c) \subseteq S
    BY <2>1, <2>2, ReachLeast
  <2> QED
    BY <2>3 DEF S
<1>4. c \in Reach(mem, c)
  BY DEF Reach, Leads, PointersLive
<1>5. Reach(mem, n) \subseteq Reach(mem, c)
  <2>1. Leads(mem, n, Reach(mem, c))
    BY <1>2, <1>4 DEF Leads
  <2>2. Reach(mem, c) \in SUBSET mem.heap
    BY ReachIn
  <2> QED
    BY <2>1, <2>2, ReachLeast
<1> QED
  BY <1>3, <1>4, <1>5

(* A block no pointer leads to is on no list it does not head.             *)
LEMMA ReachAvoids ==
  ASSUME NEW mem, PointersLive(mem), NEW c \in mem.heap, c # Null,
         \A d \in mem.heap : mem.blk[d].next # c,
         NEW head \in mem.heap \union {Null}, head # c
  PROVE  c \notin Reach(mem, head)
<1> DEFINE S == mem.heap \ {c}
<1>1. Leads(mem, head, S)
  BY DEF Leads, PointersLive
<1>2. S \in SUBSET mem.heap
  OBVIOUS
<1> HIDE DEF S
<1>3. Reach(mem, head) \subseteq S
  BY <1>1, <1>2, ReachLeast
<1> QED
  BY <1>3 DEF S

(* A list is not changed by what happens to the blocks that are not on it. *)
LEMMA ReachFrame ==
  ASSUME NEW mem, NEW new, PointersLive(mem), PointersLive(new),
         NEW head, head \in mem.heap \union {Null}, head \in new.heap \union {Null},
         Reach(mem, head) \subseteq new.heap,
         \A d \in Reach(mem, head) : new.blk[d].next = mem.blk[d].next
  PROVE  Reach(new, head) = Reach(mem, head)
<1> DEFINE X == Reach(mem, head)
           Y == Reach(new, head)
<1>1. Leads(mem, head, X) /\ Leads(new, head, Y)
  BY ReachLeads
<1>2. Y \subseteq X
  <2>1. Leads(new, head, X)
    BY <1>1 DEF Leads
  <2> QED
    BY <2>1, ReachLeast
<1>3. X \subseteq Y
  <2>1. Leads(mem, head, Y)
    BY <1>1, <1>2 DEF Leads
  <2>2. Y \in SUBSET mem.heap
    BY <1>2, ReachIn
  <2> HIDE DEF X, Y
  <2>3. Reach(mem, head) \subseteq Y
    BY <2>1, <2>2, ReachLeast
  <2> QED
    BY <2>3 DEF X
<1> QED
  BY <1>2, <1>3

(* Every allocated block is on one of the lists.                           *)
LEMMA ListsHoldAll ==
  ASSUME NEW mem, Sound(mem) PROVE Todo(mem) \union Later(mem) = mem.heap
<1> DEFINE S == Todo(mem) \union Later(mem)
<1>1. Leads(mem, mem.list, Todo(mem)) /\ Leads(mem, mem.nlist, Later(mem))
  BY ReachLeads DEF Sound, PointersLive, Todo, Later
<1>2. S \in SUBSET mem.heap
  BY ReachIn DEF Todo, Later
<1>3. Closed(mem, S)
  BY <1>1 DEF Leads, Closed
<1> HIDE DEF S
<1>4. S = mem.heap
  BY <1>2, <1>3 DEF Sound, AllLinked
<1> QED
  BY <1>4 DEF S

-----------------------------------------------------------------------------
(***************************************************************************)
(* What the operators of module DataChannels do to the registry.           *)
(***************************************************************************)

(* A block takes the place of another, with the same next.                 *)
LEMMA StoreView ==
  ASSUME NEW mem \in Memory, Sound(mem), NEW c \in Chans, NEW b \in Block,
         b.next = mem.blk[c].next
  PROVE  LET new == [mem EXCEPT !.blk[c] = b]
         IN  /\ new \in Memory /\ Sound(new)
             /\ new.heap = mem.heap /\ new.list = mem.list /\ new.early = mem.early
             /\ Todo(new) = Todo(mem) /\ Later(new) = Later(mem)
             /\ b.state = mem.blk[c].state => Given(new) = Given(mem)
<1> DEFINE new == [mem EXCEPT !.blk[c] = b]
<1>1. new \in Memory /\ Sound(new)
  BY StoreType, StoreKeeps
<1>2. /\ new.heap = mem.heap /\ new.list = mem.list /\ new.nlist = mem.nlist
      /\ new.early = mem.early /\ new.blk[c] = b
      /\ \A d \in Chans \ {c} : new.blk[d] = mem.blk[d]
      /\ mem.heap \subseteq Chans
  BY DEF Memory
<1> HIDE DEF new
<1>3. \A h \in {mem.list, mem.nlist} : Reach(new, h) = Reach(mem, h)
  BY <1>1, <1>2, ReachIn, ReachFrame DEF Sound, PointersLive
<1>4. Todo(new) = Todo(mem) /\ Later(new) = Later(mem)
  BY <1>2, <1>3 DEF Todo, Later
<1>5. b.state = mem.blk[c].state => Given(new) = Given(mem)
  BY <1>2 DEF Given
<1> QED
  BY <1>1, <1>2, <1>4, <1>5 DEF new

(* The head of dtp_list goes to next_dtp_list.                             *)
LEMMA RequeuedView ==
  ASSUME NEW mem \in Memory, Sound(mem), NEW c \in Chans, mem.list = c, c # Null
  PROVE  LET new == Requeued(mem, c)
         IN  /\ c \in Todo(mem)
             /\ Todo(new) = Todo(mem) \ {c}
             /\ Later(new) = Later(mem) \union {c}
             /\ Given(new) = Given(mem)
             /\ new.early = mem.early
<1> DEFINE new == Requeued(mem, c)
           n   == mem.blk[c].next
<1>1. Sound(new)
  BY RequeuedSound
<1>2. /\ new.heap = mem.heap /\ new.list = n /\ new.nlist = c
      /\ new.blk[c].next = mem.nlist
      /\ \A d \in Chans : new.blk[d].state = mem.blk[d].state
      /\ \A d \in Chans \ {c} : new.blk[d].next = mem.blk[d].next
      /\ new.early = mem.early
      /\ mem.heap \subseteq Chans
  BY DEF Requeued, Memory, Block
<1> HIDE DEF new
<1>3. /\ c \in mem.heap /\ n \in mem.heap \union {Null} /\ n # c
      /\ mem.nlist \in mem.heap \union {Null} /\ mem.nlist # c
      /\ \A d \in mem.heap : mem.blk[d].next # c
  BY DEF Sound, PointersLive, PointersDistinct
<1>4. c \notin Reach(mem, n) /\ c \notin Reach(mem, mem.nlist)
  BY <1>3, ReachAvoids DEF Sound
<1>5. \A h \in {n, mem.nlist} : Reach(new, h) = Reach(mem, h)
  <2> SUFFICES ASSUME NEW h \in {n, mem.nlist} PROVE Reach(new, h) = Reach(mem, h)
    OBVIOUS
  <2>1. Reach(mem, h) \subseteq mem.heap \ {c}
    BY <1>4, ReachIn
  <2> QED
    BY <1>1, <1>2, <1>3, <2>1, ReachFrame DEF Sound
<1>6. Reach(mem, c) = {c} \union Reach(mem, n)
  BY <1>3, ReachHead DEF Sound
<1>7. Reach(new, c) = {c} \union Reach(new, mem.nlist)
  BY <1>1, <1>2, <1>3, ReachHead DEF Sound
<1>8. Todo(new) = Todo(mem) \ {c} /\ c \in Todo(mem)
  BY <1>2, <1>4, <1>5, <1>6 DEF Todo
<1>9. Later(new) = Later(mem) \union {c}
  BY <1>2, <1>5, <1>7 DEF Later
<1>10. Given(new) = Given(mem)
  BY <1>2 DEF Given
<1> QED
  BY <1>2, <1>8, <1>9, <1>10 DEF new

(* The head of dtp_list is freed.                                          *)
LEMMA FreedView ==
  ASSUME NEW mem \in Memory, Sound(mem), NEW c \in Chans, mem.list = c, c # Null
  PROVE  LET new == FreeChannel(Unlinked(mem, c), c)
         IN  /\ c \in Todo(mem)
             /\ Todo(new) = Todo(mem) \ {c}
             /\ Later(new) = Later(mem)
             /\ Given(new) = Given(mem) \ {c}
<1> DEFINE new == FreeChannel(Unlinked(mem, c), c)
           n   == mem.blk[c].next
<1>1. Sound(new)
  BY FreedHeadSound
<1>2. /\ new.heap = mem.heap \ {c} /\ new.list = n /\ new.nlist = mem.nlist
      /\ \A d \in Chans \ {c} : new.blk[d] = mem.blk[d]
      /\ mem.heap \subseteq Chans
  BY DEF FreeChannel, Unlinked, Memory, Block
<1> HIDE DEF new
<1>3. /\ c \in mem.heap /\ n \in mem.heap \union {Null} /\ n # c
      /\ mem.nlist \in mem.heap \union {Null} /\ mem.nlist # c
      /\ \A d \in mem.heap : mem.blk[d].next # c
  BY DEF Sound, PointersLive, PointersDistinct
<1>4. c \notin Reach(mem, n) /\ c \notin Reach(mem, mem.nlist)
  BY <1>3, ReachAvoids DEF Sound
<1>5. \A h \in {n, mem.nlist} : Reach(new, h) = Reach(mem, h)
  <2> SUFFICES ASSUME NEW h \in {n, mem.nlist} PROVE Reach(new, h) = Reach(mem, h)
    OBVIOUS
  <2>1. Reach(mem, h) \subseteq mem.heap \ {c}
    BY <1>4, ReachIn
  <2> QED
    BY <1>1, <1>2, <1>3, <2>1, ReachFrame DEF Sound
<1>6. Reach(mem, c) = {c} \union Reach(mem, n)
  BY <1>3, ReachHead DEF Sound
<1>7. Todo(new) = Todo(mem) \ {c} /\ c \in Todo(mem) /\ Later(new) = Later(mem)
  BY <1>2, <1>4, <1>5, <1>6 DEF Todo, Later
<1>8. Given(new) = Given(mem) \ {c}
  BY <1>2 DEF Given
<1> QED
  BY <1>7, <1>8 DEF new

(* The pass is over.                                                       *)
LEMMA SwappedView ==
  ASSUME NEW mem \in Memory, Sound(mem), mem.list = Null
  PROVE  LET new == ListsSwapped(mem)
         IN  /\ Todo(mem) = {}
             /\ Todo(new) = Later(mem)
             /\ Later(new) = {}
             /\ Given(new) = Given(mem)
             /\ new.early = mem.early
<1> DEFINE new == ListsSwapped(mem)
<1>1. /\ new.heap = mem.heap /\ new.list = mem.nlist /\ new.nlist = Null
      /\ new.blk = mem.blk /\ new.early = mem.early
  BY DEF ListsSwapped, Memory
<1> HIDE DEF new
<1>2. Todo(mem) = {} /\ Later(new) = {}
  BY <1>1, ReachNothing DEF Todo, Later
<1>3. Todo(new) = Later(mem) /\ Given(new) = Given(mem)
  BY <1>1 DEF Todo, Later, Reach, Leads, Given
<1> QED
  BY <1>1, <1>2, <1>3 DEF new

(* A new channel waits for the next pass.                                  *)
LEMMA NewView ==
  ASSUME NEW mem \in Memory, Sound(mem), NEW c \in Chans \ mem.heap,
         NEW iface \in {"passive", "active"}, NEW f \in MaybeFd
  PROVE  LET new == NewChannel(mem, c, iface, f)
         IN  /\ new \in Memory /\ Sound(new)
             /\ c \notin Todo(mem) \union Later(mem)
             /\ Todo(new) = Todo(mem)
             /\ Later(new) = Later(mem) \union {c}
             /\ Given(new) = Given(mem)
             /\ new.early = mem.early
<1> DEFINE new == NewChannel(mem, c, iface, f)
<1>1. new \in Memory /\ Sound(new)
  BY NewChannelType, NewChannelSound
<1>2. /\ new.heap = mem.heap \union {c} /\ new.list = mem.list /\ new.nlist = c
      /\ new.blk[c].next = mem.nlist /\ new.blk[c].state = "PENDING"
      /\ \A d \in Chans \ {c} : new.blk[d] = mem.blk[d]
      /\ new.early = mem.early
      /\ mem.heap \subseteq Chans
  BY DEF NewChannel, Memory
<1> HIDE DEF new
<1>3. \A h \in {mem.list, mem.nlist} : c \notin Reach(mem, h) /\ Reach(new, h) = Reach(mem, h)
  <2> SUFFICES ASSUME NEW h \in {mem.list, mem.nlist}
               PROVE  c \notin Reach(mem, h) /\ Reach(new, h) = Reach(mem, h)
    OBVIOUS
  <2>1. Reach(mem, h) \subseteq mem.heap /\ h \in mem.heap \union {Null}
    BY ReachIn DEF Sound, PointersLive
  <2> QED
    BY <1>1, <1>2, <2>1, ReachFrame DEF Sound
<1>4. Reach(new, c) = {c} \union Reach(new, mem.nlist)
  BY <1>1, <1>2, ReachHead, ChannelAssumption DEF Sound
<1>5. /\ Todo(new) = Todo(mem) /\ Later(new) = Later(mem) \union {c}
      /\ c \notin Todo(mem) \union Later(mem)
  BY <1>2, <1>3, <1>4 DEF Todo, Later
<1>6. Given(new) = Given(mem)
  BY <1>2 DEF Given
<1> QED
  BY <1>1, <1>2, <1>5, <1>6 DEF new

-----------------------------------------------------------------------------
(***************************************************************************)
(* The steps of the registry, told of the memory.  From here on nothing is *)
(* broken before or after a step: a step that breaks is Registry!Break.    *)
(***************************************************************************)
Intact == ~m.early /\ ~Halted

SameView == Todo(m') = Todo(m) /\ Later(m') = Later(m) /\ Given(m') = Given(m)

LEMMA ViewOfLists ==
  /\ Threaded(m.list) = Todo(m) /\ Threaded(m.list)' = Todo(m')
  /\ Threaded(m.nlist) = Later(m) /\ Threaded(m.nlist)' = Later(m')
BY DEF Threaded, Todo, Later, Reach, Leads

RegistryStep == Registry!Next \/ UNCHANGED Registry!registry

LEMMA BreakStep == ASSUME ~Intact' PROVE RegistryStep
BY DEF RegistryStep, Registry!Next, Registry!Break, Intact

LEMMA StutterStep ==
  ASSUME Intact, Intact', SameView, pc = "poll" <=> pc' = "poll" PROVE RegistryStep
<1>1. (m.early \/ Halted)' = (m.early \/ Halted)
  BY DEF Intact
<1>2. (pc = "poll")' = (pc = "poll")
  OBVIOUS
<1> QED
  BY <1>1, <1>2, ViewOfLists
  DEF RegistryStep, Registry!registry, SameView, Given

LEMMA StartPassStep ==
  ASSUME Intact, Intact', SameView, pc # "poll", pc' = "poll" PROVE RegistryStep
BY ViewOfLists DEF RegistryStep, Registry!Next, Registry!StartPass, SameView, Given, Intact

LEMMA EndPassStep ==
  ASSUME Intact, Intact', pc = "poll", pc' # "poll",
         Todo(m) = {}, Todo(m') = Later(m), Later(m') = {}, Given(m') = Given(m)
  PROVE  RegistryStep
BY ViewOfLists DEF RegistryStep, Registry!Next, Registry!EndPass, Given, Intact

LEMMA CreateStep ==
  ASSUME Intact, Intact', pc # "poll", pc' # "poll",
         NEW c \in Chans \ (Todo(m) \union Later(m)), Later(m') = Later(m) \union {c},
         Todo(m') = Todo(m), Given(m') = Given(m)
  PROVE  RegistryStep
BY ViewOfLists DEF RegistryStep, Registry!Next, Registry!Create, Given, Intact

LEMMA GiveUpStep ==
  ASSUME Intact, Intact', pc # "poll", pc' # "poll",
         NEW c \in (Todo(m) \union Later(m)) \ Given(m), Given(m') = Given(m) \union {c},
         Todo(m') = Todo(m), Later(m') = Later(m)
  PROVE  RegistryStep
BY ViewOfLists DEF RegistryStep, Registry!Next, Registry!GiveUp, Given, Intact

LEMMA KeepStep ==
  ASSUME Intact, Intact', pc = "poll", pc' = "poll",
         NEW c \in Todo(m) \ Given(m), Later(m') = Later(m) \union {c},
         Todo(m') = Todo(m) \ {c}, Given(m') = Given(m)
  PROVE  RegistryStep
BY ViewOfLists DEF RegistryStep, Registry!Next, Registry!Visit, Registry!Keep, Given, Intact

LEMMA FreeStep ==
  ASSUME Intact, Intact', pc = "poll", pc' = "poll",
         NEW c \in Todo(m) \intersect Given(m), Later(m') = Later(m),
         Todo(m') = Todo(m) \ {c}, Given(m') = Given(m) \ {c}
  PROVE  RegistryStep
BY ViewOfLists DEF RegistryStep, Registry!Next, Registry!Visit, Registry!Free, Given, Intact

-----------------------------------------------------------------------------
(***************************************************************************)
(* The steps of the server.                                                *)
(***************************************************************************)

(* Descriptors and clients are nothing to the registry.                    *)
LEMMA SameBlocks ==
  ASSUME m'.heap = m.heap, m'.blk = m.blk, m'.list = m.list, m'.nlist = m.nlist
  PROVE  SameView
BY DEF SameView, Todo, Later, Given, Reach, Leads

LEMMA CloseView == ASSUME m \in Memory, NEW fds, m' = CloseFds(m, fds) PROVE SameView
<1>1. m'.heap = m.heap /\ m'.blk = m.blk /\ m'.list = m.list /\ m'.nlist = m.nlist
  BY DEF CloseFds, Memory
<1> QED
  BY <1>1, SameBlocks

LEMMA SameMemory == ASSUME UNCHANGED m PROVE SameView
BY SameBlocks

(* dtp_poll() keeps the channel c, with another state perhaps.             *)
LEMMA RequeueView ==
  ASSUME ChannelInv, Intact, Intact', NEW c \in Chans, Polling(c), NEW b \in Block,
         b.next = m.blk[c].next, b.state # "FREE", m.blk[c].state # "FREE",
         NEW mem \in Memory, mem.blk[c] = b, \A d \in Chans \ {c} : mem.blk[d] = m.blk[d],
         mem.heap = m.heap, mem.list = m.list, mem.nlist = m.nlist,
         m' = Requeued(mem, c), UNCHANGED pc
  PROVE  RegistryStep
<1>1. m \in Memory /\ Sound(m) /\ pc = "poll" /\ m.list = c /\ c # Null
  BY DEF ChannelInv, TypeOK, ListsSound, Intact, Polling
<1>2. m.heap \subseteq Chans
  BY <1>1 DEF Memory
<1>3. Sound(mem)
  <2>1. \A d \in Chans : mem.blk[d].next = m.blk[d].next
    OBVIOUS
  <2> QED
    BY <1>1, <2>1, SameLinks
<1>4. \A h \in {m.list, m.nlist} : Reach(mem, h) = Reach(m, h)
  <2> SUFFICES ASSUME NEW h \in {m.list, m.nlist} PROVE Reach(mem, h) = Reach(m, h)
    OBVIOUS
  <2>1. h \in m.heap \union {Null} /\ PointersLive(m) /\ PointersLive(mem)
    BY <1>1, <1>3 DEF Sound, PointersLive
  <2>2. Reach(m, h) \subseteq mem.heap /\ h \in mem.heap \union {Null}
    BY <2>1, ReachIn
  <2>3. \A d \in Reach(m, h) : mem.blk[d].next = m.blk[d].next
    BY <1>2, <2>2
  <2> QED
    BY <2>1, <2>2, <2>3, ReachFrame
<1>5. Todo(mem) = Todo(m) /\ Later(mem) = Later(m)
  BY <1>4 DEF Todo, Later
<1>6. Given(mem) = Given(m) /\ c \notin Given(m)
  BY <1>2 DEF Given
<1>7. /\ c \in Todo(mem)
      /\ Todo(m') = Todo(mem) \ {c}
      /\ Later(m') = Later(mem) \union {c}
      /\ Given(m') = Given(mem)
  BY <1>1, <1>3, RequeuedView
<1> QED
  BY <1>1, <1>5, <1>6, <1>7, KeepStep

LEMMA StoredRequeue ==
  ASSUME ChannelInv, Intact, Intact', NEW c \in Chans, Polling(c), NEW b \in Block,
         b.next = m.blk[c].next, b.state # "FREE", m.blk[c].state # "FREE", Requeue(c, b)
  PROVE  RegistryStep
<1> DEFINE mem == [m EXCEPT !.blk[c] = b]
<1>1. mem \in Memory
  BY StoreType DEF ChannelInv, TypeOK
<1>2. /\ mem.blk[c] = b /\ \A d \in Chans \ {c} : mem.blk[d] = m.blk[d]
      /\ mem.heap = m.heap
      /\ mem.list = m.list /\ mem.nlist = m.nlist
  BY DEF ChannelInv, TypeOK, Memory
<1>3. m' = Requeued(mem, c) /\ UNCHANGED pc
  BY DEF Requeue
<1> HIDE DEF mem
<1> QED
  BY <1>1, <1>2, <1>3, RequeueView

LEMMA PollVisits ==
  ASSUME ChannelInv, Intact, Intact', NEW c \in Chans, Poll(c) PROVE RegistryStep
<1> DEFINE b == m.blk[c]
<1>1. m \in Memory /\ b \in Block /\ Sound(m)
  BY DEF ChannelInv, TypeOK, Memory, ListsSound, Intact
<1>2. fault' = "none"
  BY DEF Intact, Halted
<1>3. CASE PollAccept(c)
  <2>1. Polling(c) /\ b.state # "FREE"
    BY <1>3 DEF PollAccept
  <2>2. SetState(b, "ERROR") \in Block
    BY <1>1, SetStateType DEF ChanStates
  <2>3. CASE Requeue(c, b) \/ Requeue(c, SetState(b, "ERROR"))
    BY <1>1, <2>1, <2>2, <2>3, PolledBlocks, StoredRequeue
  <2>4. ASSUME NEW f \in Fd \ m.open, m' = Requeued(Accepted(m, c, f), c), UNCHANGED pc
        PROVE  RegistryStep
    <3> DEFINE mem == Accepted(m, c, f)
               r   == mem.blk[c]
    <3>1. mem \in Memory
      BY <1>1, AcceptedType
    <3>2. /\ mem.blk[c] = r /\ \A d \in Chans \ {c} : mem.blk[d] = m.blk[d]
          /\ mem.heap = m.heap
          /\ mem.list = m.list /\ mem.nlist = m.nlist
          /\ r.next = b.next /\ r.state = "ESTABLISHED"
      BY <1>1 DEF Accepted, SetState, Memory, Block
    <3>3. r \in Block
      BY <3>1 DEF Memory
    <3> HIDE DEF mem
    <3>4. m' = Requeued(mem, c)
      BY <2>4 DEF mem
    <3> QED
      BY <2>1, <2>4, <3>1, <3>2, <3>3, <3>4, RequeueView
  <2> QED
    BY <1>3, <2>3, <2>4 DEF PollAccept
<1>4. CASE PollIdle(c)
  BY <1>1, <1>4, StoredRequeue DEF PollIdle
<1>5. CASE PollReady(c)
  BY <1>1, <1>5, ReadyType, PolledBlocks, StoredRequeue DEF PollReady
<1>6. CASE PollSend(c)
  <2>1. PICK r \in SendResults(b) :
          \/ Requeue(c, r)
          \/ /\ m' = Requeued([CloseFds(m, {b.remote_fd}) EXCEPT !.blk[c] = r], c)
             /\ UNCHANGED <<clients, pc, cur, left, fault>>
    BY <1>6 DEF PollSend
  <2>2. r \in Block /\ r.state # "FREE" /\ r.next = b.next /\ Polling(c) /\ b.state # "FREE"
    BY <1>1, <1>6, SendResultsType, PolledBlocks DEF PollSend
  <2>3. CASE Requeue(c, r)
    BY <2>2, <2>3, StoredRequeue
  <2>4. CASE /\ m' = Requeued([CloseFds(m, {b.remote_fd}) EXCEPT !.blk[c] = r], c)
             /\ UNCHANGED pc
    <3> DEFINE mem == [CloseFds(m, {b.remote_fd}) EXCEPT !.blk[c] = r]
    <3>1. mem \in Memory
      BY <1>1, <2>2, CloseFdsType, StoreType
    <3>2. /\ mem.blk[c] = r /\ \A d \in Chans \ {c} : mem.blk[d] = m.blk[d]
          /\ mem.heap = m.heap
          /\ mem.list = m.list /\ mem.nlist = m.nlist
      BY <1>1 DEF CloseFds, Memory
    <3> HIDE DEF mem
    <3>3. m' = Requeued(mem, c)
      BY <2>4 DEF mem
    <3> QED
      BY <2>2, <2>4, <3>1, <3>2, <3>3, RequeueView
  <2> QED
    BY <2>1, <2>3, <2>4
<1>7. CASE PollFree(c)
  <2>1. m' = FreeChannel(Unlinked(m, c), c) /\ UNCHANGED pc
    BY <1>2, <1>7 DEF PollFree, Crash
  <2>2. pc = "poll" /\ m.list = c /\ c # Null /\ b.state = "FREE" /\ c \in m.heap
    BY <1>2, <1>7 DEF PollFree, Polling, Crash
  <2>3. c \in Given(m)
    BY <2>2 DEF Given
  <2>4. /\ c \in Todo(m) /\ Todo(m') = Todo(m) \ {c} /\ Later(m') = Later(m)
        /\ Given(m') = Given(m) \ {c}
    BY <1>1, <2>1, <2>2, FreedView
  <2> QED
    BY <2>1, <2>2, <2>3, <2>4, FreeStep
<1>8. CASE PollStale(c)
  BY <1>2, <1>8 DEF PollStale, Crash
<1> QED
  BY <1>3, <1>4, <1>5, <1>6, <1>7, <1>8 DEF Poll

(* handle_data_events() gives the dead channel of its client up.           *)
LEMMA DataEventsView ==
  ASSUME ChannelInv, Intact, Intact', DataEvents PROVE RegistryStep
<1> DEFINE cl == clients[cur]
           c  == cl.data
<1>1. /\ m \in Memory /\ cl \in Client /\ cur \in Slots /\ Sound(m)
      /\ pc = "data" /\ pc' \in {"control", "output"}
  BY PresentClient DEF ChannelInv, TypeOK, ListsSound, Intact, DataEvents
<1>2. CASE UNCHANGED m
  BY <1>1, <1>2, SameMemory, StutterStep
<1>3. CASE c # Null /\ m' = [m EXCEPT !.blk[c] = SetState(@, "FREE")]
  <2> DEFINE b == SetState(m.blk[c], "FREE")
  <2>1. c \in Chans /\ c \in m.heap /\ m.blk[c].state # "FREE"
    BY <1>1, <1>3 DEF Client, Ptr, ChannelInv, ChannelOwnership, DataEvents, OpenSlots
  <2>2. m.blk[c] \in Block /\ "FREE" \in ChanStates
    BY <1>1, <2>1 DEF Memory, ChanStates
  <2>3. b \in Block /\ b.next = m.blk[c].next /\ b.state = "FREE"
    BY <2>2, SetStateType DEF SetState, Block
  <2>4. m' = [m EXCEPT !.blk[c] = b]
    BY <1>3
  <2>5. Todo(m') = Todo(m) /\ Later(m') = Later(m)
    BY <1>1, <2>1, <2>3, <2>4, StoreView
  <2>6. m'.heap = m.heap /\ m'.blk[c] = b /\ \A d \in Chans \ {c} : m'.blk[d] = m.blk[d]
    BY <1>1, <2>1, <2>4 DEF Memory
  <2>7. m.heap \subseteq Chans
    BY <1>1 DEF Memory
  <2>8. Given(m') = Given(m) \union {c} /\ c \notin Given(m)
    BY <2>1, <2>3, <2>6, <2>7 DEF Given
  <2>9. c \in Todo(m) \union Later(m)
    BY <1>1, <2>1, ListsHoldAll
  <2> QED
    BY <1>1, <2>5, <2>8, <2>9, GiveUpStep
<1> QED
  BY <1>2, <1>3 DEF DataEvents

-----------------------------------------------------------------------------
(* ftp_data_send_buffer() stores what is to be sent.                       *)
LEMMA SendListingView ==
  ASSUME NEW cl \in Client, NEW c \in Chans, NEW mem \in Memory, Sound(mem),
         SendListing(cl, c, mem)
  PROVE  /\ Todo(m') = Todo(mem) /\ Later(m') = Later(mem) /\ Given(m') = Given(mem)
         /\ pc' \in {"cmd", "output"}
<1> DEFINE b == mem.blk[c]
<1>1. b \in Block
  BY DEF Memory
<1>2. ASSUME NEW r \in Block, r.next = b.next, r.state = b.state, NEW after,
             Handled(after, [mem EXCEPT !.blk[c] = r])
      PROVE  /\ Todo(m') = Todo(mem) /\ Later(m') = Later(mem) /\ Given(m') = Given(mem)
             /\ pc' \in {"cmd", "output"}
  <2> DEFINE new == [mem EXCEPT !.blk[c] = r]
  <2>1. Todo(new) = Todo(mem) /\ Later(new) = Later(mem) /\ Given(new) = Given(mem)
    BY <1>2, StoreView
  <2>2. m' = new /\ pc' \in {"cmd", "output"}
    BY <1>2 DEF Handled
  <2> QED
    BY <2>1, <2>2
<1>3. CASE IsConnected(b) /\ CanQueue(b)
  <2>1. PICK listing \in {"listing", "null"} :
          \E after : Handled(after, [mem EXCEPT !.blk[c] = Queued(b, listing)])
    BY <1>3 DEF SendListing
  <2>2. Queued(b, listing) \in Block
    BY <1>1, QueuedType
  <2>3. Queued(b, listing).next = b.next /\ Queued(b, listing).state = b.state
    BY <1>1 DEF Queued, Block
  <2> QED
    BY <1>2, <2>1, <2>2, <2>3
<1>4. CASE IsConnected(b) /\ ~CanQueue(b)
  BY <1>4 DEF SendListing, Handled
<1>5. CASE ~IsConnected(b)
  <2> DEFINE r == [b EXCEPT !.remote_fd = NoFd]
  <2>1. PICK after : Handled(after, [mem EXCEPT !.blk[c] = r])
    BY <1>5 DEF SendListing
  <2>2. r \in Block /\ r.next = b.next /\ r.state = b.state
    BY <1>1 DEF Block, MaybeFd
  <2> HIDE DEF r
  <2> QED
    BY <1>2, <2>1, <2>2
<1> QED
  BY <1>3, <1>4, <1>5

(* new_active_channel() in a handler.                                      *)
LEMMA ActiveView ==
  ASSUME m \in Memory, Sound(m), NEW c \in Chans \ m.heap, NEW garbage \in UninitFd
  PROVE  LET new == NewActive(m, c, garbage)
         IN  /\ new \in Memory /\ Sound(new)
             /\ c \notin Todo(m) \union Later(m)
             /\ Todo(new) = Todo(m) /\ Later(new) = Later(m) \union {c}
             /\ Given(new) = Given(m)
<1>1. garbage \in MaybeFd
  BY ChannelAssumption DEF MaybeFd
<1> QED
  BY <1>1, NewView DEF NewActive

LEMMA PasvCreates ==
  ASSUME ChannelInv, Intact, Intact', pc = "cmd", clients[cur] \in Client, Pasv(clients[cur])
  PROVE  RegistryStep
<1> DEFINE cl == clients[cur]
<1>1. m \in Memory /\ Sound(m) /\ clients[cur] # NoClient /\ cur \in Slots
  BY DEF ChannelInv, TypeOK, ListsSound, Intact, Halted
<1>2. fault' = "none"
  BY DEF Intact, Halted
<1>3. CASE cl.data = Null
  <2>1. PICK c \in Chans \ m.heap, f \in Fd \ m.open :
          Handled(Reply([cl EXCEPT !.data = c]), NewPassive(m, c, f))
    BY <1>2, <1>3 DEF Pasv, Crash
  <2> DEFINE chan == NewChannel(m, c, "passive", f)
  <2>2. /\ chan \in Memory
        /\ c \notin Todo(m) \union Later(m)
        /\ Todo(chan) = Todo(m) /\ Later(chan) = Later(m) \union {c}
        /\ Given(chan) = Given(m)
    BY <1>1, NewView DEF MaybeFd
  <2>3. m' = NewPassive(m, c, f) /\ pc' \in {"cmd", "output"}
    BY <2>1 DEF Handled
  <2> HIDE DEF chan
  <2>4. m'.heap = chan.heap /\ m'.blk = chan.blk /\ m'.list = chan.list /\ m'.nlist = chan.nlist
    BY <2>2, <2>3 DEF NewPassive, Memory, chan
  <2>5. Todo(m') = Todo(chan) /\ Later(m') = Later(chan) /\ Given(m') = Given(chan)
    BY <2>4 DEF Todo, Later, Given, Reach, Leads
  <2> QED
    BY <2>2, <2>3, <2>5, CreateStep
<1>4. CASE cl.data # Null
  <2> DEFINE mem == FreeChannel(m, cl.data)
  <2>1. cl.data \in m.heap /\ m.blk[cl.data].state # "FREE" /\ cl.data \in Chans
    BY <1>1, <1>4 DEF ChannelInv, ChannelOwnership, OpenSlots, Client, Ptr
  <2>2. mem \in Memory /\ mem.early
    <3>1. mem \in Memory
      BY <1>1, <2>1, FreeChannelType
    <3>2. mem.early = IF m.blk[cl.data].state = "FREE" THEN m.early ELSE TRUE
      BY <1>1 DEF FreeChannel, Memory
    <3> QED
      BY <2>1, <3>1, <3>2
  <2> HIDE DEF mem
  <2>3. PICK c, f : m' = NewPassive(mem, c, f)
    BY <1>2, <1>4 DEF Pasv, Crash, Handled, mem
  <2>4. m'.early
    BY <2>2, <2>3 DEF NewPassive, NewChannel, Memory
  <2> QED
    BY <2>4 DEF Intact
<1> QED
  BY <1>3, <1>4

LEMMA PortCreates ==
  ASSUME ChannelInv, Intact, Intact', pc = "cmd", clients[cur] \in Client, Port(clients[cur])
  PROVE  RegistryStep
<1>1. m \in Memory /\ Sound(m) /\ fault' = "none"
  BY DEF ChannelInv, TypeOK, ListsSound, Intact, Halted
<1>2. PICK c \in Chans \ m.heap, garbage \in UninitFd :
        Handled([clients[cur] EXCEPT !.data = c], NewActive(m, c, garbage))
  BY <1>1 DEF Port, Crash
<1>3. m' = NewActive(m, c, garbage) /\ pc' \in {"cmd", "output"}
  BY <1>2 DEF Handled
<1> QED
  BY <1>1, <1>3, ActiveView, CreateStep

LEMMA ListCreates ==
  ASSUME ChannelInv, Intact, Intact', pc = "cmd", clients[cur] \in Client, List(clients[cur])
  PROVE  RegistryStep
<1> DEFINE cl == clients[cur]
<1>1. m \in Memory /\ Sound(m) /\ fault' = "none"
  BY DEF ChannelInv, TypeOK, ListsSound, Intact, Halted
<1>2. CASE cl.data # Null /\ SendListing(cl, cl.data, m)
  <2>1. cl.data \in Chans
    BY <1>2 DEF Client, Ptr
  <2>2. SameView /\ pc' \in {"cmd", "output"}
    BY <1>1, <1>2, <2>1, SendListingView DEF SameView
  <2> QED
    BY <2>2, StutterStep
<1>3. ASSUME NEW c \in Chans \ m.heap, NEW garbage \in UninitFd,
             SendListing(cl, c, NewActive(m, c, garbage))
      PROVE  RegistryStep
  <2> DEFINE mem == NewActive(m, c, garbage)
  <2>1. /\ mem \in Memory /\ Sound(mem) /\ c \notin Todo(m) \union Later(m)
        /\ Todo(mem) = Todo(m) /\ Later(mem) = Later(m) \union {c} /\ Given(mem) = Given(m)
    BY <1>1, ActiveView
  <2> HIDE DEF mem
  <2>2. SendListing(cl, c, mem)
    BY <1>3 DEF mem
  <2>3. /\ Todo(m') = Todo(mem) /\ Later(m') = Later(mem) /\ Given(m') = Given(mem)
        /\ pc' \in {"cmd", "output"}
    BY <2>1, <2>2, SendListingView
  <2> QED
    BY <2>1, <2>3, CreateStep
<1> QED
  BY <1>1, <1>2, <1>3 DEF List, Crash

LEMMA CommandView ==
  ASSUME ChannelInv, Intact, Intact', Command PROVE RegistryStep
<1> DEFINE cl == clients[cur]
<1>1. pc = "cmd" /\ cl \in Client
  BY PresentClient DEF Command, ChannelInv, TypeOK, Intact, Halted
<1>2. PICK cmd \in Commands : Invoke(cl, cmd)
  BY DEF Command
<1>3. ASSUME NEW after, Handled(after, m) PROVE RegistryStep
  BY <1>1, <1>3, SameMemory, StutterStep DEF Handled
<1> QED
  BY <1>1, <1>2, <1>3, PasvCreates, PortCreates, ListCreates
  DEF Invoke, User, Pass, Quit, Rein

-----------------------------------------------------------------------------
(* The history variable early, once set, stays.                            *)
LEMMA PollKeepsEarly ==
  ASSUME m \in Memory, NEW c \in Chans, Poll(c), m.early PROVE m'.early
<1>1. \A mem \in Memory : Requeued(mem, c).early = mem.early
  BY RequeuedKeeps
<1>2. m.blk[c] \in Block
  BY DEF Memory
<1>3. ASSUME NEW b \in Block, Requeue(c, b) PROVE m'.early
  <2>1. [m EXCEPT !.blk[c] = b] \in Memory /\ [m EXCEPT !.blk[c] = b].early = m.early
    BY StoreType DEF Memory
  <2> QED
    BY <1>1, <1>3, <2>1 DEF Requeue
<1>4. CASE PollAccept(c)
  <2>1. CASE Requeue(c, m.blk[c]) \/ Requeue(c, SetState(m.blk[c], "ERROR"))
    BY <1>2, <1>3, <2>1, SetStateType DEF ChanStates
  <2>2. ASSUME NEW f \in Fd, m' = Requeued(Accepted(m, c, f), c) PROVE m'.early
    <3>1. Accepted(m, c, f) \in Memory /\ Accepted(m, c, f).early = m.early
      BY AcceptedType DEF Accepted, Memory
    <3> QED
      BY <1>1, <2>2, <3>1
  <2> QED
    BY <1>4, <2>1, <2>2 DEF PollAccept
<1>5. CASE PollIdle(c)
  BY <1>2, <1>3, <1>5 DEF PollIdle
<1>6. CASE PollReady(c)
  BY <1>2, <1>3, <1>6, ReadyType DEF PollReady
<1>7. CASE PollSend(c)
  <2>1. PICK b \in SendResults(m.blk[c]) :
          \/ Requeue(c, b)
          \/ m' = Requeued([CloseFds(m, {m.blk[c].remote_fd}) EXCEPT !.blk[c] = b], c)
    BY <1>7 DEF PollSend
  <2> DEFINE mem == [CloseFds(m, {m.blk[c].remote_fd}) EXCEPT !.blk[c] = b]
  <2>2. b \in Block
    BY <1>2, SendResultsType
  <2>3. mem \in Memory /\ mem.early = m.early
    BY <2>2, CloseFdsType, StoreType DEF CloseFds, Memory
  <2> QED
    BY <1>1, <1>3, <2>1, <2>2, <2>3
<1>8. CASE PollFree(c)
  BY <1>8 DEF PollFree, FreeChannel, Unlinked, Crash, Memory
<1>9. CASE PollStale(c)
  BY <1>9 DEF PollStale, Crash
<1> QED
  BY <1>4, <1>5, <1>6, <1>7, <1>8, <1>9 DEF Poll

LEMMA CommandKeepsEarly ==
  ASSUME TypeOK, fault = "none", Command, m.early PROVE m'.early
<1> DEFINE cl == clients[cur]
<1>1. m \in Memory /\ pc = "cmd" /\ cl \in Client
  BY PresentClient DEF Command, TypeOK
<1>2. PICK cmd \in Commands : Invoke(cl, cmd)
  BY DEF Command
<1>3. ASSUME NEW after, Handled(after, m) PROVE m'.early
  BY <1>3 DEF Handled
<1>4. ASSUME NEW why, Crash(why) PROVE m'.early
  BY <1>4 DEF Crash
<1>5. ASSUME NEW c \in Chans, NEW mem \in Memory, mem.early, SendListing(cl, c, mem)
      PROVE  m'.early
  BY <1>5 DEF SendListing, Handled, Memory
<1>6. CASE Pasv(cl)
  <2> DEFINE mem == IF cl.data = Null THEN m ELSE FreeChannel(m, cl.data)
  <2>1. mem \in Memory /\ mem.early
    <3>1. CASE cl.data = Null
      BY <1>1, <3>1
    <3>2. CASE cl.data # Null
      <4>1. cl.data \in Chans
        BY <1>1, <3>2 DEF Client, Ptr
      <4>2. FreeChannel(m, cl.data) \in Memory
        BY <1>1, <4>1, FreeChannelType
      <4>3. FreeChannel(m, cl.data).early
        BY <1>1 DEF FreeChannel, Memory
      <4> QED
        BY <3>2, <4>2, <4>3
    <3> QED
      BY <3>1, <3>2
  <2> HIDE DEF mem
  <2>2. CASE ~(Crash("bad free") \/ Crash("null deref"))
    <3>1. PICK c, f, after : Handled(after, NewPassive(mem, c, f))
      BY <1>6, <2>2 DEF Pasv, mem
    <3> QED
      BY <2>1, <3>1 DEF Handled, NewPassive, NewChannel, Memory
  <2> QED
    BY <1>4, <2>2
<1>7. \A c, garbage : NewActive(m, c, garbage).early = m.early
  BY <1>1 DEF NewActive, NewChannel, Memory
<1>8. CASE Port(cl)
  <2>1. CASE Crash("null deref")
    BY <1>4, <2>1
  <2>2. ASSUME NEW c \in Chans, NEW garbage \in UninitFd, NEW after,
               Handled(after, NewActive(m, c, garbage))
        PROVE  m'.early
    BY <1>7, <2>2 DEF Handled
  <2> QED
    BY <1>8, <2>1, <2>2 DEF Port
<1>9. CASE List(cl)
  <2>1. CASE cl.data # Null /\ SendListing(cl, cl.data, m)
    BY <1>1, <1>5, <2>1 DEF Client, Ptr
  <2>2. ASSUME NEW c \in Chans \ m.heap, NEW garbage \in UninitFd,
               SendListing(cl, c, NewActive(m, c, garbage))
        PROVE  m'.early
    BY <1>1, <1>5, <1>7, <2>2, NewActiveType
  <2> QED
    BY <1>4, <1>9, <2>1, <2>2 DEF List
<1> QED
  BY <1>2, <1>3, <1>6, <1>8, <1>9 DEF Invoke, User, Pass, Quit, Rein

LEMMA EarlyStays ==
  ASSUME TypeOK, fault = "none", Server, m.early PROVE m'.early
<1>1. m \in Memory
  BY DEF TypeOK
<1>2. CASE \E c \in Chans : Poll(c)
  BY <1>1, <1>2, PollKeepsEarly
<1>3. CASE Command
  BY <1>3, CommandKeepsEarly
<1>4. \A fds : CloseFds(m, fds).early = m.early
  BY <1>1 DEF CloseFds, Memory
<1>5. CASE Listen \/ Accept \/ SkipSlot \/ Receive \/ Input
  BY <1>1, <1>4, <1>5
  DEF Listen, Accept, AcceptNobody, AcceptFails, AcceptClient, AcceptRefused, SkipSlot,
      Receive, Input, Shutdown, CloseFds, Memory
<1>6. CASE PollEnd \/ DataEvents \/ Disconnected \/ Output
  BY <1>1, <1>4, <1>6
  DEF PollEnd, ListsSwapped, DataEvents, Disconnected, Output, FreeClient, Memory
<1> QED
  BY <1>2, <1>3, <1>5, <1>6 DEF Server

LEMMA RegistryNext ==
  ASSUME ChannelInv, [Next]_vars PROVE RegistryStep
<1>1. CASE ~Intact'
  BY <1>1, BreakStep
<1>2. CASE UNCHANGED vars
  <2>1. Threaded(m.list)' = Threaded(m.list) /\ Threaded(m.nlist)' = Threaded(m.nlist)
    BY <1>2 DEF vars, Threaded
  <2> QED
    BY <1>2, <2>1 DEF RegistryStep, Registry!registry, vars, Halted
<1>3. CASE Intact' /\ ~Halted /\ Server
  <2>1. m \in Memory /\ cur \in Slots /\ pc' # "exit" /\ fault' = "none" /\ ~m'.early
    BY <1>3 DEF ChannelInv, TypeOK, Intact, Halted
  <2>2. ~m.early
    BY <1>3, <2>1, EarlyStays DEF ChannelInv, Halted
  <2>3. Intact /\ Intact' /\ Sound(m)
    BY <1>3, <2>2 DEF Intact, ChannelInv, ListsSound
  <2>4. CASE Listen
    <3>1. pc = "start" /\ pc' = "accept" /\ m' = [m EXCEPT !.open = @ \union {ServerFd}]
      BY <2>1, <2>4 DEF Listen
    <3>2. SameView
      BY <2>1, <3>1, SameBlocks DEF Memory
    <3> QED
      BY <2>3, <3>1, <3>2, StutterStep
  <2>5. CASE Accept
    <3>1. pc = "accept" /\ pc' = "poll"
      BY <2>1, <2>5 DEF Accept, AcceptNobody, AcceptFails, AcceptClient, AcceptRefused, Shutdown
    <3>2. m'.heap = m.heap /\ m'.blk = m.blk /\ m'.list = m.list /\ m'.nlist = m.nlist
      BY <2>1, <2>5 DEF Accept, AcceptNobody, AcceptFails, AcceptClient, AcceptRefused,
                        Shutdown, CloseFds, Memory
    <3> QED
      BY <2>3, <3>1, <3>2, SameBlocks, StartPassStep
  <2>6. CASE PollEnd
    <3>1. pc = "poll" /\ pc' = "data" /\ m.list = Null /\ m' = ListsSwapped(m)
      BY <2>6 DEF PollEnd
    <3> QED
      BY <2>1, <2>3, <3>1, SwappedView, EndPassStep
  <2>7. CASE SkipSlot
    <3>1. pc = "data" /\ pc' \in {"data", "input"} /\ UNCHANGED m
      BY <2>1, <2>7, NextSlotType DEF SkipSlot
    <3> QED
      BY <2>3, <3>1, SameMemory, StutterStep
  <2>8. CASE Receive
    <3>1. pc = "control" /\ pc' \in {"output", "cmd"} /\ UNCHANGED m
      BY <2>8 DEF Receive
    <3> QED
      BY <2>3, <3>1, SameMemory, StutterStep
  <2>9. CASE Disconnected
    <3>1. pc = "control" /\ pc' \in {"data", "input"}
      BY <2>1, <2>9, NextSlotType DEF Disconnected
    <3>2. SameView
      BY <2>1, <2>9, CloseView DEF Disconnected, FreeClient
    <3> QED
      BY <2>3, <3>1, <3>2, StutterStep
  <2>10. CASE Output
    <3>1. pc = "output" /\ pc' \in {"data", "input"}
      BY <2>1, <2>10, NextSlotType DEF Output
    <3>2. SameView
      BY <2>1, <2>10, CloseView, SameMemory DEF Output, FreeClient
    <3> QED
      BY <2>3, <3>1, <3>2, StutterStep
  <2>11. CASE Input
    <3>1. pc = "input" /\ pc' = "accept" /\ UNCHANGED m
      BY <2>1, <2>11 DEF Input, Shutdown
    <3> QED
      BY <2>3, <3>1, SameMemory, StutterStep
  <2> QED
    BY <1>3, <2>3, <2>4, <2>5, <2>6, <2>7, <2>8, <2>9, <2>10, <2>11, PollVisits,
       DataEventsView, CommandView DEF Server
<1> QED
  BY <1>1, <1>2, <1>3 DEF Next

LEMMA RegistryInit == Init => Registry!Init
<1> SUFFICES ASSUME Init PROVE Registry!Init
  OBVIOUS
<1>1. m.heap = {} /\ ~m.early /\ pc = "start" /\ fault = "none"
  BY DEF Init, InitMemory
<1> QED
  BY <1>1 DEF Registry!Init, Threaded, Halted

(***************************************************************************)
(* The server implements the registry of channels: each pass visits every  *)
(* channel that was there when the former one ended once, and frees those  *)
(* its client has let go of, until a channel is freed outside a pass or    *)
(* the program halts.                                                      *)
(***************************************************************************)
THEOREM ImplementsRegistry == Spec => ChannelsRegistered
<1>1. ChannelInv /\ [Next]_vars => [Registry!Next]_(Registry!registry)
  BY RegistryNext DEF RegistryStep
<1> QED
  BY <1>1, RegistryInit, ChannelInvariant, PTL DEF Spec, ChannelsRegistered, Registry!Spec
=============================================================================
