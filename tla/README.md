# FTPservU in TLA+

FTPservU is an FTP server for the Wii U: one thread, up to 25 clients, a data
channel per client, non-blocking sockets, polled in a loop until HOME is
pressed. Its repository also holds the driver of the SD card, a loader of
programs, and the converter that makes the console's executable. This directory holds TLA+ models of it, the TLC runs that check them
and the proofs that TLAPS checks. Paths are relative to the repository.

## 1. The system

| Component | State | Operations | Interacts with |
|---|---|---|---|
| sessions, `src/ftp.c` | `clients[25]`: socket, flag word, two I/O buffers, data channel, current path | accept, one pass over the slots (data events, control events, output), clean-up | everything below |
| commands, `src/commands.c`, `src/commands/` | none of their own | 27 rows: login gate, then a handler; 14 handlers are empty | sessions, data channels, paths |
| data channels, `src/dtp/` | heap blocks on two intrusive lists `dtp_list` and `next_dtp_list`; state and transfer bits, `local`, `remote_fd`, `listen_fd` | new (passive, active), poll, accept, send, queue a buffer, free | `client->data` points into the lists; sockets |
| network, `src/network.c` | the ephemeral port counter | listen, accept, recv, send | the system's socket library |
| I/O buffers, `src/iobuffer.c` | bytes and head | append, next line | sessions, network |
| virtual paths, `src/vfs/vfs_path*.c` | a list of names and a flag | parse, resolve, merge, to string | CWD, CDUP, PWD, LIST |
| directory listing, `src/vfs/vfs.c` | none | two passes over a directory into one buffer | LIST |
| SD card device, `src/fs/` | C library device table, a mutex per device, position of each file | open .. ftruncate, mount, unmount | listing, paths |
| main loop and mounts, `src/ftpservu.c`, `src/main.c` | `fs_mounted`, `fsa_fd`, `iosuhaxMount` | listen, loop, remount, shut down | sessions, input, file systems |
| console, logging, input | two arrays of lines; a UDP socket and a lock; the buttons held | print, send, edges | everyone; the screen, the network, the pad |
| file loaders, `src/fs/fs_utils.c`, `src/hbl.c` | a buffer, the memory areas | load a whole file | SD card device |
| elf2rpl, `src/wut/elf2rpl` | sections, symbols, relocations, import libraries | read an ELF file, write an RPL file | the linker's script; it runs in the build, not on the console |
| heaps, exception handler, C library stubs | heap handles; a message buffer | wrappers | the system |
| shader tools (`src/slang`), headers (`src/include`), shaders | | | not part of the running server |

One pass of the main loop (`ftp_network_handler`) accepts at most one client,
moves every data channel from one list to the other (`dtp_poll`), then serves
the slots in turn: first the end of a transfer, then, if none is under way, one
`recv` and every complete line of it, then the output. There are no threads, no
signals and no timeouts in the server. What makes it hard is sharing: a channel
is reached through the lists and through `client->data`, and is freed through
either; the flag word is at once login state, transfer state and logout state,
and is assigned as a whole by some handlers; a whole packet of commands is
handled before any reply leaves; descriptors and heap blocks are handed out
again as soon as they are free.

What makes each component correct:

* sessions: a client waits only for a transfer that exists, hears of its end,
  and never reads through a stale pointer; a descriptor has one owner; a login
  is needed for everything but five commands; QUIT ends the session;
* data channels: each allocated channel is on the lists once, is polled once a
  pass, freed once, and only when nobody refers to it; what is queued is sent;
* I/O buffers: lines come out in order and whole, or the client is dropped;
* paths: the path stays absolute and normalised, `..` goes up one name;
* listing: it fits its buffer; a size shows all its digits;
* SD device: every return path unlocks; position and count agree with what the
  card did; no use of a device after its unmount;
* loaders: the buffer holds the file, in the areas and behind an ELF program too;
  every error path of `LoadFileToMem()` ends with the file closed;
* mounts: what is mounted agrees with the flags that lead to its unmounting, and
  is given back at the end; console: a row owns its line; log: a text goes out
  in order and, unless the network refuses it, whole; none is dropped because the
  socket is closed already; HOME is never overlooked;
* elf2rpl: a relocation of the output means what it meant in the input; sections
  have their number, their place in memory and in the file, and their checksum.

The file `PROJECT.json` lists the hazards of this code line by line, with the
properties that watch them.

## 2. Modules

| Module | Models | Against the code |
|---|---|---|
| `DataChannels` | the memory of `src/dtp`: blocks, heap, lists, descriptors | pure operators on a record `m`, one per C function or per step of one |
| `FtpServer` | the thread: `ftpservu.c`, `ftp.c`, `commands.c`, `commands/*.c`, `network.c` | one action from one blocking point to the next |
| `MCFtpServer` | | constants, symmetry and constraint for TLC |
| `IoBuffer` | the two byte buffers of one control connection: `iobuffer.c`, the reads and writes of `network.c`, the loops of `ftp.c` around them | one action per `recv`, per line, per flushed line |
| `VfsPath`, `MCVfsPath` | the current path of one client: `vfs_path.c`, `vfs_pathent.c`, CWD, CDUP, PWD | one action per command; each loop over characters or names as a recursive function of its rounds |
| `ChannelRegistry` | what `dtp_poll()` and `new_data_channel()` promise, without lists | refined by `FtpServer` |
| `SdFat` | the SD card device: `sd_fat_devoptab.c`, with `MountFS()` and `UmountFS()` | a call of the C library is one step to take the mutex and one per call to the card |
| `FileLoader`, `MCFileLoader` | `LoadFileToMem()`, `HBL_loadToMemory()` | a program of its own over the calls of `SdFat`, one step between two of them |
| `TransferText`, `MCTransferText` | `port.c`, the reply of `pasv.c`, the port counter, `vfs.c` | texts as sequences of small numbers; the listing entry by entry |
| `Console` | the rows of `console.c`, the datagrams of `logging.c` | pure operators on two records |
| `Appliance` | `main.c`, `ftpservu.c`, `input.c`, start and end of console and log, `dynamic.c`; uses `Console` | one action per function that `main()` or its caller calls |
| `Elf2Rpl`, `MCElf2Rpl` | `wut/elf2rpl/main.cpp` | one action per phase of `read()` and `write()` |
| `FtpServerProofs` | | what is proved of `FtpServer`: types, channels and lists, descriptors, and that it implements `ChannelRegistry` |
| `Loops` | | induction over a set, and what a loop of `n` rounds computes; used by the three modules below that reason about loops |
| `VfsPathProofs`, `TransferTextProofs`, `Elf2RplProofs` | | the module each is named after, on top of `Loops` |
| `IoBufferProofs`, `ApplianceProofs`, `FileLoaderProofs` | | the module each is named after; the last also `SdFat`, `ApplianceProofs` also `Console` |

**State.** `m` is the memory: `blk[c]` are the words of block `c` (freed or
not), `heap` the allocated blocks, `list` and `nlist` the two static pointers,
`open` the open descriptors. `clients[s]` is a `client_t` or `NoClient`; flags
are a set, `out` counts the replies in the output buffer. `pc`, `cur` and `left`
say where the thread is: in which phase of the pass, at which slot, with how
many lines of the packet still to handle. `fault` is why the program halted.
Two history bits carry no behaviour: `m.early`, a channel was freed outside
`DTP_FREE`; `m.wild`, a descriptor was closed that its owner had not stored.

**Memory.** The heap is the point of the model, so freed blocks exist: a block
keeps the words `free_data_channel()` left in it until `malloc()` hands it out
again, and a pointer to it reads those words. `PollStale` adds that a freed
block may hold anything, whence a crash. Allocation is any free block, or
failure; a NULL dereference is a crash; reading through the NULL that
`free_client()` left may trap or not (`Disconnected`).

**Network.** Each call is a choice among the results the code distinguishes:
`accept` nobody, an error, a connection with any closed descriptor; `recv`
nothing, end of file or error, up to `MaxLines` complete lines; a listing or
NULL from the file system. `network_connect()` returns -1, as in the code, so an
active channel never connects.

**Transfers.** `local` is the union of a descriptor and a pointer. `dtp_send_data()`
always treats it as a descriptor, so what `read()` makes of the word decides the
result: -1 returns at once, a heap pointer fails, 0 fails or is at end of file.

**Commands.** All 27 rows and their gate are in the model. 14 handlers are empty.
NOOP, PWD, CWD, CDUP, SYST, ALLO answer and touch nothing of this state. The
runs use a subset with one representative of each effect.

`IoBuffer` and `VfsPath` stand beside `FtpServer`, which sees of a buffer only how
many lines or replies it holds and of a path nothing. They justify that view:
`LinesInOrder` and `DroppedOnlyWhenFull` say that complete lines are what `recv`
delivers, all of them and in order, or the client is dropped.

**Bytes.** A buffer is the sequence of its first `head` bytes. `before` is the
byte of the heap in front of the input buffer, which `buffer[eol-1]` reads when
a line starts with LF; if it is a CR, -1 bytes are copied (`Overrun`, where the
model ends). `received`, `lines`, `replies`, `sent` are histories.

**Paths.** `args` is the memory that holds the argument of a command, with what
longer lines have left behind it: the parser reads on there after a separator at
the end of a path. NULL and the empty list of names are the same, as in the code.
`stat` is external: a fixed set of directories, `//` taken for `/`.

**Registry.** `ChannelRegistry` has three sets of channels: still to be visited by
the pass, waiting for the next, given up. The mapping in `FtpServer` reads them
off the memory: what is threaded on `dtp_list`, on `next_dtp_list`, and the blocks
in `DTP_FREE`. Threaded means in every set that holds the head and is closed under
`next`. A channel freed outside a pass, or a crash, is a `Break` of the registry,
which promises nothing afterwards.

**SD card.** `table` holds the rows of the C library's device list, `priv` the private data
of a mounted device, `file` and `iter` what is open. A file or iterator keeps its pointer
to the private data when the device goes (`Unmount`); using it is a crash.
`content` is the one file on the card, and `file.cpos` is where the card will
read next, which the driver only believes to be `file.pos`. Every result of the
card is possible at every call, partial reads and writes included. `file.len` is set
by `open()` and never again, as in the code. `locks` counts the mutex; the one
way out that keeps it (`SeekUnknown`) is an action of its own.

**Loaders.** `FileLoader` runs on the whole of `SdFat`: between two loads an
application does what it likes. `fread()` is taken as one `read()`, since the C
library's own buffering is not part of this repository. The result of
`fseek()` and `lseek()` is used or ignored as the code does it.

**Texts.** The digits of a text are themselves. `FileSize` builds the 14 columns
from the right as `format_filesize()` does, over the width `strnumlen()` gives;
`Shown` is the reference definition. The listing is two passes with `Grow` between
them. What is fixed in a line is only counted: 40 characters and the end. The sixth
number of a PORT line is stored behind the loop, with six commas behind the array; that
write has no effect, and the line is refused, or it halts the program (`overwritten`). A number is
added up in an int, which wraps around after `IntValues` values (`IntOf`): 2^32 in the
code, where 4294967297 is read as 1, and a number may be read as one below 0.

**Appliance.** The server's passes are one action (`Serve`) that goes well or
not. `sys` has what is open and what is mounted beside the flags that the code
consults; `stray` is what the three bytes behind the one-byte `iosuhaxMount` of
`main.c` hold, which `ftpservu.c` reads as part of an int. Stdout has a buffer of
`MaxText` bytes that the C library writes out whenever it likes, in which case
`logging_write()` runs, a datagram a step.

**elf2rpl.** Sections carry entries in place of bytes: words, relocations,
symbols, names. Names are sequences of parts, so that `".rela" + name` and
`name + "_tramp"` are what they are in the code; `Bytes` gives lengths. Symbols
live in `heap` and are compared as pointers; pruning takes a symbol from the list, and
the code then reads its address from freed memory (`Convert`): the old address or
any of `Junk`. `Spelled` is the name that the bytes at a word of the input spell, since a
library's name is read out of a section of words; the words of sections other than PROGBITS, which
the converter has no use for, read as 0. A checksum is the data it was taken of, a signature the sequence of
names it was taken of. 32-bit wrap-around matters once, for a section of size -1.

## 3. Runs

| Run | Size | Question | Answer |
|---|---|---|---|
| `sessions` | 2 clients, 2 channels, 6 descriptors, 2 lines a packet, 1 reply; 2.2 million states | are pointers, lists and descriptors consistent, pass after pass, up to the first corruption? do the lists implement `ChannelRegistry`? | yes |
| `progress` | 1 client, 2 channels, 1 line; 268 000 states | what survives a channel freed while linked? does `dtp_poll()` return, are channels reclaimed, does a client hear of the end of its transfer? | yes; the first two while the lists are sound |
| `freed_linked` | 1 client | is a channel freed only in `DTP_FREE`? (`dtp.h:16`) | no: PASV, PASV |
| `unsent` | 1 client | does a queued listing go out? (`dtp.h:18`) | no: `SET_STATE` drops `DTP_XMIT` |
| `io_buffer` | buffers of 4 bytes, streams of 5, replies of 2 or 3; 225 000 states | do lines and replies come out whole and in order? | yes, or the client is dropped |
| `vfs_path` | 12 arguments, 4 directories; 2 700 states | is the current path an existing directory, and the one meant? | yes, for tidy arguments |
| `parent_dropped` | | does `..` lead to the parent? (`vfs_path.c:89`) | no: not at the start of a relative path |
| `file_loader` | 1 device, 2 rows, 1 file of up to 3 bytes, blocks of 2; 950 000 states | does every call give back the mutex and count what the card did? are loaded files whole, and closed? | yes, but for `SeekUnknown` |
| `transfer_text` | lines of 1 and of 5 to 7 fields, an int of 16 bits, 16 sizes; 1.4 million states | are addresses understood as an int reads them, and announced as meant? does a listing fit, with its sizes? | yes; sizes but for the widths `strnumlen()` gets wrong |
| `appliance` | 2 rows and 1, texts of 3 bytes, datagrams of 2; 379 000 states | does the program give back what it took, and end when told to? | yes |
| `elf2rpl` | the files of `MCElf2Rpl`; 29 000 states | does the output mean what the input meant? | yes, but for pruned symbols |
| `tables_overlap` | the same files | do the imports come after the tables? (`main.cpp:678`) | no: the prediction comes too early |

**Safety.** In `sessions`, `ChannelOwnership`: a data pointer leads to
an allocated channel, not yet given up, of this client only. `NoDangling`,
`LinkedOnce`, `NoChannelLost`: the two lists hold exactly the allocated
channels, once each, in the middle of a pass too. `FdOwnership`: one user per
descriptor. `NoStalledSend`: `DTP_SENDING` implies a peer and data.
`ChannelOwnership` is proved behind the first corruption too (section 4).

In `io_buffer`, `LinesInOrder` compares the commands with a reference definition,
the received stream split at LF; `RepliesInOrder` allows the end of a reply to
be cut off by `send()`, or a reply to be dropped, but each is sent from its first byte on, in order and once, and one that
waits is whole and later than all of which anything was sent. In `vfs_path`, `CwdMeansTarget` compares CWD with
a definition of what a path means that has neither parser nor stack, `CwdUsable` asks
for an existing directory with a string; a `tidy`
argument has no control character, no separator at its end, and, if relative,
does not climb above where it starts.

In `file_loader`, `MutexReturned` ties the mutex to the call in progress on all of
some forty ways out of the driver; `CountsTrue` and `PositionKept` compare the
driver's counts with the card. An answer of 0 after bytes have moved is what the code gives when
the card stops a call before its end, and only then; the position is not compared for a file that appends,
which the card writes at its end, nor after a seek the card has refused. `BuffersHoldFile` says what the loaders promise on
top of them: `LoadFileToMem()`'s buffer equal to the file on the card; an ELF file
of `HBL_loadToMemory()` whole behind the program; and for an RPX file places to cut the
file on the card at such that each area holds its piece, the last cut at the end of the file when it
reports success and every area filled when it refuses. A file whose end the card refused to
seek is taken for an empty one, as in the code. In `transfer_text`,
`PortUnderstood` compares the parser with the fields the line was made of, each
taken for the number an int reads it as,
`PasvAnnounced` reads the announced address with the parser of PORT, `SizesRight`
says of the sizes `strnumlen()` gets wrong (0, those that begin with 10,
those of 6 or 9 digits) exactly what is wrong with their digits and commas, and of all others that they are right. In
`appliance`, `MountsKept` follows the file systems through every failed or repeated
mount to the end, `ScreensRight` the lines through the screens, `LogWhole` the log
through its socket: in order, with no gap, whole unless a `sendto()` fails, and dropped only if there never was a socket; and `HomeEnds` the buttons. In `elf2rpl`, `RelocsResolve` resolves each relocation of the output and of
the input and compares; `NumbersRight`, `ImportsSigned` and `FileTrue` relate the
tables of the output to one another.

**Refinement.** `ChannelsRegistered`, in `sessions`: every step of the server is a step
of `ChannelRegistry` under the mapping, or changes nothing of it.

**Liveness.** `SoundPollReturns`, `Reclaimed`, `TransferReported` (`progress`),
`ArrivedIsTaken` (`io_buffer`), `LoaderEnds` (`file_loader`),
`ShutsDown` (`appliance`).

**Bounds.** Ownership, linking and reuse involve two parties, so two clients,
two channels and a descriptor for each of their sockets (`Fd4`: two control
connections, two channels) let every pair of sessions collide; `Progress`
leaves out one client and two descriptors, to stay small for liveness. `MaxLines` is the number of complete lines in one packet: 2 are needed
for one command to act on what the other left with no pass in between; with 1,
a pass lies between any two commands. `OutCap` is the number of replies the
output buffer holds: the code has 1088 bytes, which about 38 replies of 28 bytes
fill, and an input buffer of 1087 bytes holds over 200 five-byte lines, so a
packet can have more lines than fit replies; `OutCap = 1 < MaxLines = 2` keeps that
proportion. The input buffer is taken to be empty of complete lines at every
`recv`, which `handle_control_events()` ensures. `Uninit` gives
`listen_fd` of an active channel -1 or 0, the latter the log's socket.
`UpToFirstCorruption` cuts `sessions` off behind the first channel freed while linked
and the first descriptor closed by a stranger: the invariants of the lists
and of the descriptors hold vacuously behind them; `progress`, which is about what still
happens there, has no such limit.
`io_buffer` uses buffers of 4 bytes and streams of 5, so that a line can fill a
buffer, follow another in it, or be cut between CR and LF, and two replies can
fit or not; text is one byte value. `vfs_path` uses one argument of each shape
(up, down, up and down, absolute, `//`, a separator at the end, not parsable,
empty) over a tree with a directory whose string exceeds `PathMax = 8`; any order
of them leaves all the remains in `args` that they can leave.
Symmetry: blocks, and descriptors other than the two the program names. It is
used in `sessions`, for invariants and for the refinement, which is a safety
property: a step and its images under a permutation map to steps alike.
`file_loader`: the file may have one byte more than a block and than the two
memory areas together, so that a block is full or partial, an area is filled to its end,
and the last one overflows; one file and one iterator, as the calls of two files share only the
mutex, which one call at a time holds. Two rows, of which another driver has
one, let the search for the device pass over a row. `transfer_text`: fields that
are empty, at 255 with a blank inside, at 256, no number, and numbers that wrap to 1 and
below 0 in an int of 16 bits, because TLC's own numbers end at 2^31 (the proof has any int
of 512 values or more); no comma, one too few, the right number, one too many; sizes around every change of the
number of digits and commas, with those that begin with 10 and lose what follows; two entries. `appliance`: two rows on one screen and one
on the other, lines numbered modulo three; a text of more than one datagram; one
volume stands for the eight of `ftpservu.c`. `elf2rpl`: files with and without
imports of one and two functions, static and dynamic relocations to code, data,
imports, pruned symbols and nothing, bss, and one file for each error message.

**Fairness.** `WF_vars(~Halted /\ Server)`: the server is one thread that never
blocks (all its sockets are non-blocking) and takes its next step whatever the
environment answers. Nothing is assumed of peers, of the network or of the user.
Hence the liveness properties hold without a fair peer, and a violated one is
violated with the server running. `FileLoader`: weak fairness of the thread inside a
call or a load, as each call to the card returns (it is made with no limit of
time, and the console's answer is taken for granted); nothing makes an application call. `Appliance`:
`WF_vars(Next)`, the one thread goes on; a `sendto()` takes at least a byte or
fails. `Elf2Rpl` has no fairness and no liveness: it ends, which is why its
runs do not check deadlock.

**Properties not kept.** The violated ones state what a comment or a reply says;
`PROJECT.json` quotes each line. The root of most is one of three: a channel
freed by PASV while `dtp_list` leads to it; `SET_STATE` and `state =` wiping bits
that mean something; a relative path resolved before it is merged. The
first is also why the liveness properties speak of sound lists only: behind an
early free a channel can be linked to itself and `dtp_poll()` does not return.
`tables_overlap` is another matter: the sizes are predicted before the sections
that need room exist. Whatever is wrong and contradicts no line of the repository is in
the models as it is, and in the notes of the hazards: the length of an
open file never updated, the stream of `HBL_loadToMemory()` never closed, `<DIR>`
never shown (`st_mode & S_IFMT == S_IFDIR` is `st_mode & 0`), QUIT undone by USER in the
same packet.

## 4. Proofs

Everything here is proved for all values of the constants that satisfy the
assumptions the modules name: any number of clients, channels, descriptors, lines and
replies, buffers and streams of any length, screens of any size, any devices,
rows, files and memory areas, any tree, any fields, addresses, ports and sizes, any well-formed ELF file. The assumptions say that sentinels are not values
(`NoClientAssumption`, `ChannelAssumption`, `ConsoleAssumption`, `SdFatAssumption`), that
bounds are positive and the two named descriptors differ (`ServerAssumption`), that the longest
reply fits the output buffer (`BufferAssumption`: 1088 bytes against the texts of the
handlers), that there is a memory area and a file to load
(`LoaderAssumption`), that the root and the parent of a directory are
directories (`TreeAssumption`), that a field of a PORT line has no comma in it and a line at
least one field (`FieldsAssumption`, `CountsAssumption`), that an int has at least 512 values (`IntAssumption`), that ports are those the counter takes and sizes are not negative
(`PortsAssumption`, `SizesAssumption`), that the regions of memory lie in the order of `main.cpp:22`
(`AddressesAssumption`), and that an ELF file has sections of the kinds a linker writes, whose relocations name
symbols that exist (`InputsAssumption`, `NamesAssumption`).

| Theorem | States | Inductive invariant |
|---|---|---|
| `TypeCorrect` | `TypeOK` of `FtpServer` | itself, with what a handler relies on: the slot served is occupied, a command has a line |
| `OwnershipHolds`, `NothingDangles`, `NothingLinkedTwice`, `NothingLost` | `ChannelOwnership`, and the list properties until a channel is freed while linked | `ChannelInv` |
| `DescriptorsOwned`, `SendersReady` | `FdOwnership`, `NoStalledSend` | `DescriptorInv` |
| `ImplementsRegistry` | `ChannelsRegistered`, the refinement | `ChannelInv` |
| `BuffersHold`, `LinesOfTheStream`, `FullMeansFull`, `RepliesLeaveInOrder` | the four invariants of `io_buffer` | `IoBufferInv` |
| `PathTyped`, `DirectoryUsable`, `TargetReached` | `TypeOK`, `CwdUsable` and the action property `CwdMeansTarget` of `VfsPath` | `PathInv`, `PlainInv` |
| `ApplianceTyped`, `MountsReturned`, `ScreensKept`, `LogSentWhole`, `HomeSeen` | the five invariants of `appliance` | `ApplianceInv` |
| `PortsUnderstood`, `PortsAnnounced`, `ListingsFit`, `SizesAreRight` | the four invariants of `transfer_text` | `TextInv` |
| `FileIsTrue` | `FileTrue` of `Elf2Rpl` | `FileInv` |
| `LoaderTyped`, `MutexesReturned`, `RowsLead`, `CountsAreTrue`, `PositionsKept`, `FilesLoadedWhole` | the six invariants of `file_loader` | `SdInv`, `LoadInv`, `CopyInv` |

**Channels.** `ChannelInv` is the conjunction of `TypeOK`, `ChannelOwnership`
and `ListsSound` (no early free implies the three list properties). None of the
parts is inductive alone. The lists need ownership: PASV frees `client->data`, and
that this is an early free, because the state is not `DTP_FREE`, is what
`ChannelOwnership` says. The step of `dtp_poll()` that frees a channel needs the
distinctness of pointers to conclude that the unlinked block is no longer
reachable, and reachability is stated as closure (every set that contains the
heads and is closed under `next` is the whole heap), which needs no recursion.
Ownership itself holds without any condition on what happened before: a channel given to
a client is always fresh from `malloc()`; only its owner, or `dtp_poll()` for a
channel in `DTP_FREE`, frees it; a client drops its pointer in the step that marks it.

**Descriptors.** `FdOwnership` speaks of what is in use now and says nothing of what a
later `close()` will take. `DescriptorInv` adds how the fields of a channel depend on
one another (`BlockSound`: only a passive channel is ever connected, and then without its
listener; `DTP_XMIT` and `DTP_SENDING` come with a buffer), that a freed block holds no
descriptor, and that two clients have two. `NoStalledSend` is a part of it that
needs no condition: it holds after a corruption as well.

**Refinement.** `ImplementsRegistry` shows that the initial state maps to the initial state
of the registry and each step to one of its actions or to none. The mapping is a least
closed set, so the lemmas say what pushing, advancing and freeing do to such a set: a list is its head and
what follows, and is not touched by blocks that are not on it, which
is where `LinkedOnce` is needed. Each action of the server has a step of its own.

**Buffers.** `LinesInOrder` compares with a definition that looks for the k-th end of
line of the stream. `IoBufferInv` carries the correspondence that makes it inductive: the
input buffer is the end of the stream, and as many ends of line lie before it as commands have been
handled. That an end of line is always found in the output buffer before a `send()`
follows from `OutputWhole`: from any place, a reply ends within
`LongestReply` bytes.

**Paths.** `PathInv` is `TypeOK`, `CwdUsable` and the type of a path. That CDUP, which
checks nothing, keeps a usable directory rests on two lemmas: a path without its last name
leads to the parent, and its string is shorter. That the parser leaves no separator in a name
rests on an invariant over its rounds (`Parsing`), in which two terminators at the end
stop the loop wherever it steps over one. `TargetReached` says which names come out, in three steps.
`ParseMeans`: reading a tidy argument, the parser has found the words that begin so far, the last of them perhaps
still open (`Finding`), whatever lies behind the terminator. `ResolveMeans`: the stack holds
the names that no later `..` has cancelled. `Depth` counts how far the names lead down; a name stays as long as it has not
risen above it (`Upright`), and a `..` cancels the topmost one that is left, because behind
that one the depth neither falls nor stays higher (`UprightFalls`). `MergeMeans`: a relative path that
never climbs above its start may be resolved before it is merged, because the current path has
plain names only (`PlainInv`) and its stack is never empty when a `..` comes (`HeightIs`).

**Appliance.** `ApplianceInv` has a part for each variable. `MountsKept` needs to know that the flag by
which file systems were mounted still agrees with how IOSUHAX was opened when they are unmounted
(`SystemOk`), which the bytes behind `iosuhaxMount` could upset. `ScreensRight` counts rows; the
proofs say the same by distinctness (`RowsApart`, `RowsInMemory`, `LinesInRows`) and
show that a line that moves up is never the one that is freed. `LogWhole` needs that the lock is held exactly
while a text is under way, that a text of which nothing remains has been sent whole, and that stdout is empty
once the socket is closed (`Unserved`, `WrittenOk`).

**Driver and loaders.** `SdInv` ties the call in progress to a live device and its file, and
the bytes it has moved to the places of the card between which they lie (`TransferInv`), of which
`CountsTrue` is what remains when the call ends. `LoadInv` follows
both loaders from place to place (`WholeInv`): the size is the file's, what is in the buffer is the start of the
file, and the card stands where the loader has read to, or
at the end of the file when the seek back has failed, in which case the next read delivers nothing
and the load is refused. Behind an accepted load no call is made, so that the file is still what
was loaded (`HeldInv`). `CopyInv` says where the pieces in the areas are cut.

**Texts.** `TextInv` is `ListingInv`, `PortUnderstood` and `PasvAnnounced`. Of `ListingInv`, which
relates the room counted by the first pass to what the second has used, the step that matters is one line: used so far plus
what the lines to come take is within what was counted, entry by entry, and a line that is left out only
adds room. `ListingFits` and `SizesRight` follow from it, the latter once `FileSize` is known to be
`Shown` column by column: the state of `format_filesize()` after `p` columns is the number divided
by the right power of ten, and how many columns there are is what `strnumlen()` gets wrong. The parser of PORT is followed
field by field: `LineScanned` says what its state is after each comma, and a field with a letter or read above 255
ends it. That a number wrapped after every digit is the number wrapped once (`IntOfStep`) is what makes the length of a
field immaterial; one that is read below 0 passes the loop and is caught by the test behind it. `PasvAnnounced` is the same lemma for the six numbers the reply prints. `KeptIs` and
`SizeInPlace` say column by column what a size with a miscounted width is shown as.

**elf2rpl.** The converter is a sequence of phases, so `FileInv` is a sequence of assertions, each under the
phases it holds in. `ReadOk`: the file in memory keeps its form (symbols are places in the heap, there are at least
the four default ones, in front of which the iterator of `addSection()` never falls). `Built`: while sections are made, each has the
entries its type stands for and no offset yet. `Later`: what the last phases have finished. `RoomFor` every
section holds once `FILEINFO` is made, since `Extent` is a maximum over the sections of the region; the checksums
then cover everything but their own section. The layout is `PassLays`: a pass leaves the sections it is not about as they are, puts the others
behind everything laid so far on multiples of 64 and apart from one another (`Laid`), and moves
nothing that an earlier pass has placed (`Grows`), so that after four of them every section that has data lies in the file
once (`FourPasses`, `Settled`). Each loop has a lemma that says what it computes and one that says what it keeps. Sizes and addresses are
not cut to 32 bits where the model adds them up for `FILEINFO` and for offsets: the theorem speaks of files that
fit.

**What the proofs changed.** Each proof begins with TLC on the invariant it needs. Proving found
models that were right only for the constants of their runs, and these were corrected from the code:
`Console` printed with no free string left for the line; `SdFat` had a position
leave its type and, with two files open, took bytes that were no longer there when a file shorter than
where the card stands was read or truncated; `CASE` arms overlapped in `VfsPath`. `AreasHoldFile` named the pieces by a recursive
function of their sizes and now states that cuts exist, which says the same and can be
reasoned about; the loops of `VfsPath`, `TransferText` and `Elf2Rpl` are recursive functions in place of folds.
`Elf2Rpl` took the name of a library for the word it is read at, and a number of stubs that is not a multiple of four bytes
was rounded down, where the loop of `main.cpp:375` rounds up.

**Induction without an operator parameter.** The induction theorems of the library cannot be
instantiated by the provers at hand. Where a proof needs induction it goes over a set: the rounds
up to which a statement holds are a subset of `0..n`, and a subset of `Nat` without a least missing
element misses none (`WFMin` for `NatLessThanWellFounded`). `Loops` states once that a
recursive function over `0..n` exists, is the only one and stays in the set that its
step stays in. It is used for the parser, the stack, the string and the directory of `VfsPath`, for the
scanner, the columns and the counting of `TransferText`, and for every loop of `Elf2Rpl`.

**Left to TLC.**

* All liveness (`SoundPollReturns`, `Reclaimed`, `TransferReported`, `ArrivedIsTaken`,
  `LoaderEnds`, `ShutsDown`): fairness and ENABLED are out of the provers' reach.
* `RelocsResolve`, `NumbersRight` and `ImportsSigned` of `Elf2Rpl`: they compare the output with the input, through
  ten phases that renumber sections, symbols and addresses, and hold for files whose sections and imports lie as the linker's script
  lays them, of which the run has a fixed set. What is proved is what holds of any file.

## 5. Not modelled

* Receiving (`dtp_receive_data`, `DTP_RECV`), `dtp_send_file()`, the vfs nodes at the
  end of `vfs.c`, `CheckFile()` and `CreateSubfolder()`: nobody calls them.
* The wording of replies, console and log; drawing; paths and errno in `SdFat`; time
  stamps of a listing; socket options; the addresses of the loader's memory areas.
* Of `elf2rpl`: section flags, alignments in memory, the fixed fields of the
  headers, `be_val` and the bytes of the structures.
* The heaps (`system/memory.c`): each module takes `malloc()` as a choice.
  The exception handler only ends the program.
* C library stubs, shader tools and shaders, vendored headers: no state, or not
  part of the program.

## 6. Plan

1. `DataChannels`, `FtpServer` and their proofs. Done.
2. `IoBuffer`, `VfsPath`. Done.
3. `ChannelRegistry`, the refinement and its proof. Done.
4. `SdFat`, `FileLoader`, `TransferText`, `Console`, `Appliance`, `Elf2Rpl`. Done.
5. Theorems: descriptors, registry, `IoBuffer`, `Appliance`, `SdFat` and `FileLoader`,
   `VfsPath`, `TransferText`, `FileTrue` of `Elf2Rpl`. Done.
6. Theorems to come: `NumbersRight` of `Elf2Rpl`, from the phase that numbers the sections, for inputs whose sections do not overlap.
