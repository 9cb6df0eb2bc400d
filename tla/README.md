# WireSend in TLA+

WireSend is a chat and file transfer program for two machines on a local
network. One machine runs the server, the other the client; after the client
has connected, both run nearly the same loop: the user types lines, every line
is sent as a message, and the commands `/f`, `/a`, `/r` offer, accept and
reject a file. This directory models the program in TLA+ from its command line
and its sockets over the bytes of its packets to the session of two peers and
the dialogs their users see, checks the models with TLC on small instances and
proves every safety property of the passing runs and both refinements with
TLAPS, for every instance.

- [The system](#the-system): components, state, operations, hard behaviours
- [Modules](#modules) and how they correspond to the code
- [Properties and runs](#properties-and-runs), bounds, fairness
- [What is proved](#what-is-proved)
- [What the code does not keep](#what-the-code-does-not-keep)
- [Not modelled](#not-modelled)
- [Plan](#plan)

Paths below are relative to the repository; `ServerMod.cpp:189` is line 189 of
`src/ServerMod.cpp`.

## The system

### Components

| Component | Source | State it keeps | Operations |
|---|---|---|---|
| Packet protocol | `headers/Protocol.hpp`, `EnumStates.hpp`, `FileTypes.hpp` | none (types) | the packet: type byte, control byte, length, body |
| Transport | `api.cpp` (`SendPacket`, `RecievePacket`, `GetLANIPAddr`, the socket of `BaseConnectionInstance`) | the socket, the kernel's buffers | send a whole packet, receive a whole packet, `shutdown`, `close`, the address to show |
| Serialisation | `CommunMod.cpp` | none | packet and file metadata to and from bytes |
| File handler | `FileHandler.cpp` | `FilePathOnTarget`, the disk | `NegotiateReceiver`, `AnswerSender`, `CanReceiveFiles`, `CanSendFiles`, `SendFile`, `RecvFile` |
| Server session | `ServerMod.cpp` | `ServerConnected`, `ClientCount`, `CommunicationSocketFd`, `IncomingFileRequest`, `OutgoingFileRequest`, `FileSendInProgressServer` | bind, listen and accept; main loop of `StartServer`, `RunRecvThread`, `StopServer`, `BroadcastServerMsg` |
| Client session | `ClientMod.cpp` | `ClientConnected`, `IncomingFileRequestClient`, `OutgoingFileRequestClient`, `FileSendInProgressClient` | `ConnectToServer`; main loop of `StartClient`, `RunRecvThread`, `TerminateConnection`, `CloseConnection` |
| Shared flags | `api.cpp` | `ProgramRunning`, `ActiveFileNegReq` | read and written by both threads of a process |
| Commands | `CmdHandler.cpp` | none | `ParseCommands` |
| Program entry | `UserHandler.cpp` | none | arguments, port parsing |
| tinyfiledialogs | `tinyfiledialogs.cpp`, vendored | static buffers, static caches of what was detected, `/tmp/tinyfd.txt` | `tinyfd_saveFileDialog`, `tinyfd_openFileDialog`, and `tinyfd_inputBox` and `tinyfd_messageBox` behind them |

### How they interact

Each process has two threads. The **main thread** reads the terminal, runs the
commands and is the only one that sends. The **receive thread**
(`RunRecvThread`) reads one packet after the other, handles it, and writes the
incoming file to disk. They share plain global variables without a lock, and
also `std::cin`: `UserAction`, which `CanReceiveFiles` calls on the receive
thread to ask the overwrite question, reads the same terminal as the main loop.

A transfer goes like this. The sender's main thread sends a `FILE_NEG` request
with the metadata and *then* sets `ActiveFileNegReq`. The receiver's receive
thread stores the request and marks it active. The receiver's user types `/a`,
picks a path in the save dialog, and the main thread answers `FILE_ACCEPT`. The
sender's receive thread sees the answer and, if `ActiveFileNegReq` is set, sets
`FileSendInProgress`. The next line that the sender's user types, whatever it
is, makes the main loop run `SendFile`: `FILE_BEGIN`, the chunks, `FILE_END`.
The receiver's receive thread creates the file on `FILE_BEGIN`, opens it for
appending on every `FILE_CHUNK`, and announces it on `FILE_END`.

Before that, the server binds a port, shows its address and accepts one client
(`StartServer`); the client connects to the address and port of its command
line (`StartClient`). None of the failures on the way stops either of them
from entering its main loop, apart from a failed `bind`.

The path that `/a` and `/f` pick comes from tinyfiledialogs, which looks for a
program that can show a dialog, starts it with `popen` and reads its output.
It blocks the main thread meanwhile; the receive thread goes on.

### What is hard

- Two unsynchronised threads per process, four in total: each flag of the
  negotiation is written by one thread and read or reset by the other.
- Answers carry no request identity, so order alone links a request, its
  answer and the file that follows.
- `send` blocks when the buffers are full, so both peers must keep receiving
  while they send; `send` and `recv` move any number of bytes, and the stream
  may end inside a packet.
- Either process may end at any moment: by `/stop`, `/~end~/`, `SIGPIPE` inside
  `send`, `std::terminate` of a joinable thread, or a closed terminal.
- The receiver's disk may be full, or a file may fail to open or to be read, in
  the middle of a transfer, and `RecvFile` keeps no state between frames.
- The overwrite question runs on the receive thread: as long as it is not
  answered, frames, and the end of the stream, wait behind it.
- Failed socket calls are printed and passed over; several servers and clients
  compete for ports and for the one `accept`.
- The dialogs keep what they detected and what they returned in static
  variables, and share one file in `/tmp` with every other process.

### What makes each component correct

- *Transport*: packets arrive whole, once and in order, and buffers are
  bounded; a peer that stops is noticed.
- *File handler*: the target holds exactly the chunks sent, in order; old files
  survive unless their owner agrees; a copy number is free when it is chosen.
- *Sessions*: a file is sent only after its acceptance, at most once for each;
  nothing is written before a user has picked a target; a received acceptance
  starts the transfer; a rejected file is not written; what is announced as
  received is what was read; `/stop` reaches the client.
- *Serialisation*: what is decoded is what was encoded.
- *Startup*: a client that is given what a server shows reaches that server and
  no other one.
- *Dialogs*: an answer is what the user chose in this call and no other; what
  was typed does not stay in a file that every user can read.

The hazards behind these properties, each with its line, are listed under
`hazards` in `PROJECT.json`.

## Modules

| Level | Modules |
|---|---|
| The session | `Protocol` <- `Transport` <- `FileHandler` <- `WireSend` <- `MCWireSend`, each extending the one before it |
| What a transfer promises | `FileCopy`, implemented by `WireSend` in each direction |
| The bytes below it | `Codec`, `PacketStream` (extends `Protocol`, `Codec`) <- `MCPacketStream` |
| What the session relies on | `Connection` (extends `Transport`), implemented by `PacketStream` |
| Before and after a session | `Startup` <- `MCStartup` |
| The dialogs | `Dialogs` <- `MCDialogs` |
| Proofs, session | `TransportProofs`, `FileHandlerProofs` <- `WireSendProofs` <- `AcceptProofs` <- `SessionProofs` |
| Proofs, the rest | `PacketStreamProofs`, `StartupProofs`, `DialogsProofs` |

The session is composed with the layer below it by refinement: `WireSend` uses
the outcomes that `Transport` gives to `SendPacket` and `RecievePacket`,
`Connection` is the specification made of just these outcomes, and
`PacketStream`, which has the loops of the two functions, implements it. With
`Startup` it is composed at its initial state: `Init` of `WireSend` is the state
of a pair in which both are in `"loop"`. A dialog is one step of `WireSend` with
a nondeterministic result; `Dialogs` shows what that result can be.

**Protocol** is the packet. It keeps what the receiving side tells apart: type,
control byte, the file that a request announces, and the number of a chunk.
The text of messages is left out. The operators `Text`, `Broadcast`,
`Request`, `Answer`, `Marker`, `ChunkFrame` are the packets that the program
builds. `BroadcastServerMsg` never assigns `PL_CTL`, so the control byte of
`Broadcast` is a parameter that ranges over `StrayCtl`.

**Transport** is one established TCP connection: `wire[p]` is the stream of
packets on its way to `p`, at most `Cap` of them, and `sock[p]` what is open of
`p`'s end. `SendPacket` has four outcomes: `Delivered` (return 0), `Lost`
(return 0 towards a peer that is gone), `Refused` (return -1) and `BrokenPipe`
(`SIGPIPE`: `send` is called without `MSG_NOSIGNAL`). It blocks while the
stream is full and the peer is there. `RecievePacket` has three: `Takes`
(return 0), `EndOfStream` (2) and `ConnectionReset` (-1). A packet is the unit
of transfer, because both functions loop until the whole packet has passed.
(PacketStream shows that the bytes do behave like that.)
Once a peer has closed, the kernel's answer to it is not modelled in time: each
later send may succeed, fail or raise the signal, and a receive may see a reset.
This allows more orders than a given kernel shows, never fewer.

**FileHandler** is the receiver's disk: `disk[p]` maps each existing path to the
sequence of chunks in it, `filePathOnTarget[p]` is `FilePathOnTarget`,
`askedPath[p]` the local copy in `CanReceiveFiles`. A path is a name and the
copy numbers appended to it. `Truncate` and `AppendChunk` are the two ways
`RecvFile` opens a file; `FreshPath` is the numbering loop.

**WireSend** composes them: two processes, each with `mainPc[p]` (main thread)
and `recvPc[p]` (receive thread). The variables have the names of the globals:

| Variable | Global |
|---|---|
| `activeFileNegReq` | `ActiveFileNegReq` |
| `fileSendInProgress` | `FileSendInProgressServer`, `FileSendInProgressClient` |
| `incomingActive`, `incomingFile` | `IncomingFileRequest`, `IncomingFileRequestClient`: `.active`, `.metadata` |
| `outgoingFile` | `OutgoingFileRequest`, `OutgoingFileRequestClient` |
| `connected`, `programRunning` | `ServerConnected` / `ClientConnected`, `ProgramRunning` |
| `sentChunks` | the position of the input stream in `SendFile` |
| `lines` | environment: what each user may still type |
| `credit` | history, no counterpart: acceptances sent to `p` minus files `p` began |

A step ends where another thread can notice: at each access to a global that the
other thread of the process writes, and at each call to `send`, `recv`,
`shutdown` or `close`. The main loop is `MainLoop`, `ReadLine` (with `Dispatch`,
the chain of `if`s), the handlers of the commands, and the tail that runs for
every line: `NothingToSend` / `StartSendFile` ... `EndSend`, then `SendText`.
The receive thread is `RecvLoop`, then one action per packet type and return
value: `RecvText`, `RecvRequest`, `RecvAccept`, `RecvReject`, `IgnoreFrame`,
`RecvBegin`, `BeginThrows`, `AskOverwrite`, `CreateTarget`, `RecvChunk`,
`RecvEnd`, `RecvEof`, `RecvError`. The two processes share these actions, since
their code is a copy of each other up to names; where the copies differ, the
action says so with `p = Server` or `p = Client`:

- only the client tests its connection after reading a line (ClientMod.cpp:245)
  and knows `/~end~/`; only the server knows `/stop` (`Dispatch`);
- only the client obeys the control byte of a message (`RecvText`);
- only the server looks at its request before handling a frame
  (`HandlesFrames`, ServerMod.cpp:214 against ClientMod.cpp:178);
- on the end of the stream or an error they reset different flags (`RecvEof`,
  `RecvError`).

Files fail in the places where the code lets them (`Faults`):

- *at the sender*: `fs::file_size` throws after the dialog and ends the process
  (`OfferThrows`); `CanSendFiles` finds the file gone (`CannotSendFile`); the
  second, unchecked open of `SendFile` or any later read fails, which ends the
  read loop like the end of the file, so `SendEnd` sends `FILE_END` after any
  number of chunks;
- *at the receiver*: `fs::space` throws because the directory is gone
  (`BeginThrows`); the disk is too small (`RecvBegin`); the target cannot be
  opened, at its creation or for any chunk (`CreateTarget`, `RecvChunk`).

Details that a reader of the code may look for:

- A chunk is what one `file.read` returned; a read that returns a part of the
  buffer gives the last chunk of a file.
- The receive threads also handle a `CANCEL_TRANS` control byte
  (ServerMod.cpp:237-242, ClientMod.cpp:202-208). No code builds such a packet,
  so there is no action for it.
- `FilePathOnTarget` is a `std::string` that `/a` may assign while the receive
  thread reads it. This data race is modelled as an atomic assignment between
  any two steps, the outcome that the code means.
- When the terminal is at its end, the main loop of the code spins. A user who
  has no lines left makes the thread wait instead, which is a stutter.
- Descriptors are not reused: after `close` nothing else is opened in the
  process that could take the number, apart from the files of a transfer.

**MCWireSend** gives the constants of the runs: `Users(server, client)` says how
often each user may type each line, in any order and at any time.

**FileCopy** is the abstract specification of a transfer in one direction: the
receiver agrees, the sender chooses and opens a file, reads it, and the copy
grows by one chunk at a time, in order, with chunks that have been read. It
does not promise that the whole file is read.
`WireSend` instantiates it twice, `ToServer` and `ToClient`: `agreed` is that
`FilePathOnTarget` is set, `read` is `sentChunks`, and `copy` is what the
target's path holds, or nothing as long as that is a file from before the
session (`CopyAt`).

**Codec** has the functions of CommunMod.cpp on sequences of bytes. A byte is a
number below `Base` (256 in the program), a 32-bit number has four, and
`uint64_t` is a pair of 32-bit halves. `WritePacketBuffer` copies a number as it
lies in memory, so `Memory4` and `Memory8` have the byte order of the host as a
parameter; `htonl` and `ntohl` make the length of a packet big-endian, while the
numbers of `FileMetadata` travel in the order of the sender's host.

**PacketStream** is one direction of the connection, byte by byte. `SendSome(n)`
and `RecvSome(n)` are one call of `send` or `recv` that moved `n` bytes, for any
`n` that fits; `SentBytes` and `buffer` are the locals of the two loops. The
receive thread alternates between a header of five bytes and the body with its
control byte (`phase`, `Wanted`). `RecvSome` also has the `int` counter of
`RecievePacket`: a count beyond `IntMax` becomes negative, which the comparison
with `size()` takes for a huge number, so the loop ends and the rest of the
buffer is the zeros it was created with (`Filled`). After a `FILE_BEGIN` the
receive thread may be in `UserAction` (`phase = "asking"`) until its user has
answered (`Answered`). The stream may end or be
reset anywhere. `InTransit`, the packets sent and not yet received, is the
refinement mapping to `Connection`.

**Connection** is that abstract stream: packets are delivered, taken, or lost
with their connection. **Startup** has `main`, `ParsePort` and `atoi`, and the
sockets. `pc[p]` is the main thread of each process; `bound`, `listening` and
`queue` are the kernel's view of the ports, `peer[c]` the server that `connect`
reached. Things that the code does and a reader may not expect:

- `CreateSocketFd`, `StartListening`, `AcceptClient` and `ConnectToServer` may
  fail and the main loop is entered all the same (`Listen`, `AcceptFails`,
  `ConnectFails`); after a failed accept `CommunicationSocketFd` is still 0.
- With `SO_REUSEADDR` two servers can both `Bind` a port, and only the first
  can `Listen`.
- `inet_pton` leaves the address 0.0.0.0 when the text is not one, and
  `connect` then reaches the client's own host (`Reached`). The text `(null)`,
  which `PrintServerInfo` shows when the host has no LAN address, is such a
  text.
- A receive thread of the server whose `recv` fails, on descriptor 0 or after a
  reset, returns without resetting `ServerConnected` and `ClientCount`
  (`RecvFails`), unlike one that sees the end of the stream (`ServerSeesEnd`).
- A listening socket takes clients into its backlog that are never accepted;
  they are connected for all they know.

**Dialogs** is the part of tinyfiledialogs that WireSend reaches on unix. A call
goes through the points `pc` of `Call`: a box about missing software, a program
that is shown, an answer in `/tmp/tinyfd.txt`, the output to be read, or the
console. Which program asks follows from the order of the `if` chain of each
dialog (`SaveOrder`, `OpenOrder`, `InputOrder`), from the environment and from
the static variables (`presence`), which are set the first time the chain passes
them: `Looked` is how far it gets. `installed` may change at any time. `buff` is
the static `lBuff` of `tinyfd_saveFileDialog`, which the functions for reading
(`LastLine`) leave as it is when a program prints nothing; it is why `Cleared`
matters. `tmp` is `/tmp/tinyfd.txt`, written and read by every process of the
host that asks with gdialog or in a terminal window; other processes (`Others`)
write it at any time. `SavedPath`, `SavedText` and `Opened` are the checks at
the end of a call, which differ between a picked and a typed path.
`CanReceiveFiles` is the one step of the receive thread that uses the answer:
`fs::space` on the directory of `FilePathOnTarget`. When it throws, the process
is `"ended"`, or `"cut off"` when a dialog was open on its main thread. Command
lines are abstracted to the answers they can produce.

## Properties and runs

Times are on two cores. Deadlock is not checked in any of the runs, since users
may stop typing and processes may end: a state where all threads wait in
`getline` or `recv`, or where no process is left, is then final.

| Run | Instance | Properties | States |
|---|---|---|---|
| `transfer` | server offers a file of 2 chunks; client's target exists; buffers of 5 packets; `/stop` and `/~end~/` at any time; failing reads, kills, stray control byte; fair | `StreamIntact`, `AnnouncedFileIsComplete`, `OldFilesKept`, `StopReachesClient` | 401 k |
| `duplex` | both offer a file of 2 chunks and accept, the client's target exists; buffers of 2 packets; fair | `StreamIntact`, `SendFileReturns`, `FilesAreCopied` | 322 k |
| `faults` | client offers twice, server has two `/a` and one `/r`; every fault, stray control byte | `TypeOK`, `NothingBeforeTarget`, `NoFileWithoutAccept` | 2.7 M |
| `stream` | 3 packets from server to client, 6 bytes of buffer; fair | `TypeOK`, `ReceivedIsSent`, `MetadataSurvives`, `PacketsAreWhole`, `EveryPacketArrives` | 54 k |
| `startup` | 3 servers, 2 on one host and port, 1 on a host without LAN address, 2 clients, failing sockets | `TypeOK`, `ShownValuesReachServer` | 250 k |
| `dialogs` | 1 process and another that uses the file, 7 programs, 3 environments | `TypeOK`, `AnswerIsChoice`, `DetectedOnce`, `NothingLeftBehind` | 390 k |

What they show:

- `StreamIntact`: while a file is being sent and neither end is closed, the
  target holds the first chunks of the file and the stream begins with the
  following ones up to the last that `SendFile` has read, and no others
  (`ChunksFollow`). It holds with the old file truncated, with a copy number,
  and with a second transfer in the other direction. It is a property of users
  who answer one request with one `/a`: a second `/a` during the transfer moves
  the rest of the file to another path, and the runs with this property have one
  `/a` per user.
- `AnnouncedFileIsComplete`: when the receiver is told "File recieved." the
  target holds all chunks that `SendFile` has read, in order and nothing else,
  also when the sender has died or has shut its end down since. It is not that
  the whole file was read: a failed read ends `SendFile` early, and the code
  announces that too.
- `OldFilesKept`: as long as a user never types `Y`, no file that existed at
  the start changes, although either of the user's two threads may take the
  line that answers the question.
- `NoFileWithoutAccept`: a peer never begins more files than acceptances were
  sent to it, whatever the order of offers, acceptances, rejections, failed
  sends and kills.
- `NothingBeforeTarget`: until a user has picked a target nothing is accepted,
  sent or written. So `CanReceiveFiles` never passes an empty path to
  `fs::space`, which would throw on the receive thread, and a disk whose user
  accepted nothing is not touched.
- `StopReachesClient`: after `/stop` the client loses its connection, with
  unread messages and frames still in the stream, with the overwrite question
  open when the server stops, and even if the line `/stop` itself, which the
  main loop then sends as a message, kills the server; provided that the
  question does not stay open for ever.
- `SendFileReturns`: two peers that send to each other do not block for ever,
  again if the peer's user answers the overwrite question.
- `FilesAreCopied`: each direction of `WireSend` implements `FileCopy`, with a
  transfer in the other direction going on: no chunk is stored that was not
  read, in its place, after its receiver agreed, and no file is opened before.
  Like `StreamIntact` it is for users who answer a request once.
- `ReceivedIsSent`, `MetadataSurvives`: however the stream is cut up, the
  receive thread puts together the packets that were sent, and the peer sees
  the size and name of the file that is offered, on hosts of one byte order.
  (With `HostOrder` different for the two peers `MetadataSurvives` fails; no
  document promises otherwise.)
- `PacketsAreWhole`: `PacketStream` implements `Connection`. Together with
  `EveryPacketArrives`, that no reader waits for a byte that nobody sends, this
  is what entitles `WireSend` to whole packets.
- The three liveness properties have the hypothesis that the question of
  `UserAction` is answered (`QuestionsAnswered`, `[]<>(phase # "asking")`).
  Without it TLC finds a counterexample to each of them in the same run: the
  thread that should drain the stream waits for a user, as the comment at
  api.cpp:81 notes.
- `ShownValuesReachServer`: a client given the port and the LAN address that a
  server shows, or a local address on the server's own host, is connected to
  that server, also when another server was started for the same port of the
  host, when other texts are no address, and when a number is cut to 16 bits. A
  server whose host has no LAN address shows `(null)`, which leads a client to
  its own host, so that case is excluded for the LAN address only.
- `AnswerIsChoice`: a dialog returns what its user chose in this very call, or
  nothing. Two exceptions are the code's, and the property names them: a text
  that another process left in `/tmp/tinyfd.txt`, and the exit status (127, 137)
  that the shell around gxmessage prints, whose first digit is that of "OK".
- `DetectedOnce`: a process asks in one way for each kind of dialog for as long
  as it runs, although the two kinds share the static variables and look for
  the programs in different orders.
- `NothingLeftBehind`: what a user typed is in `/tmp/tinyfd.txt` only while a
  dialog of that user that uses the file is open, with one exception that the
  property names: a process that ends in the middle of such a dialog
  (`"cut off"`) leaves the text there.

Six more runs are expected to fail, see
[below](#what-the-code-does-not-keep).

### Bounds

- `Cap` is the number of packets that fit in the buffers of one direction. With
  2 a sender of `FILE_BEGIN`, two chunks and `FILE_END` must block, in both
  directions at once in `duplex`; with 5 in `transfer` a whole file and the line
  `/stop` can lie behind the overwrite question when the server stops; with 3
  in `faults` and `unseen_file` two requests and an answer can be under way
  together.
- Files have 1 or 2 chunks: two are the least for which order, loss and
  repetition differ. Two files where a request or an answer can be taken for
  another one's.
- Lines: each command at most twice, since the flags are Booleans and a second
  offer, answer or message already meets every value that a first one left.
- One name is enough: what matters is whether the picked path exists, and copy
  numbers give further paths.
- `Faults` names what the environment may do; a fault may then happen at every
  place where it can. `faults` has all six, `transfer` the failing reads and the
  kills, which its properties have to survive; with `open_fails` or `disk_full`
  some of them are [false](#what-the-code-does-not-keep). `duplex` has none, to
  keep both directions within reach; the theorems cover its safety properties
  with kills and failed reads.
- `stream`: `Base = 16`, so that an enumerator fits in one byte and the four
  digits of a length differ from their reverse; `BufBytes = 6` is the
  shortest packet, a marker, so that one can be sent whole while the receive
  thread is in `UserAction`, and every longer one is cut; three packets, so that
  one follows one that was cut. The longest body is a
  request of 14 bytes with its control byte, and `IntMax = 13` is the least
  `int` that `BodyAssumption` allows; with 12 the counter would overflow before
  the last read and `ReceivedIsSent` would fail, as it would in the program with
  a packet of more than 2 GiB. `SendFile` and the main loop build no packet of
  that length.
- `startup`: `Backlog = 0` instead of 5, so that one waiting client fills the
  queue; two servers share a host and a third runs on another one without a LAN
  address, so that an address, or `(null)`, can lead to the wrong one. `accept`
  fails there for the server that cannot listen.
- `dialogs`: the seven programs have one of each way to answer: a program that
  prints a path (kdialog, zenity), one that prints an empty line (tkinter), one
  that complains on the same stream (Xdialog), one with an exit status
  (gxmessage), and the two that use the file (gdialog, a terminal window).
  zenity is the one that comes and goes, since the order of kdialog depends on
  it. One process is enough for its own static variables; what others do to
  the file is `OtherDialog`.

### Fairness

`FairSpec` has weak fairness of `MainStep(p)` and `RecvStep(p)`, the steps that
each thread takes on its own, which the operating system's scheduler provides.
A thread that waits in `send` for room or in `recv` for data has no enabled
step. The users are not fair: typing a line, choosing in a dialog, answering
the overwrite question and closing a terminal are never forced. Weak fairness
suffices, because a thread's step, once enabled, is disabled only by its own
process: only `p`'s main thread fills `wire[Other(p)]` and only the receive
thread of `Other(p)` empties it.

`FairSpec` promises nothing about a user in `UserAction`; the two liveness
properties that need an answer have it as a hypothesis. `transfer` also has
kills, so a process may end where the other waits for it.

`PacketStream!FairSpec` has weak fairness of `Receive`, a step of the receive
thread's loop while it is in `recv`; a thread in `UserAction` (`Answered`) and
the sender are not fair, so a packet may stay half sent for ever. `Startup` and
`Dialogs` have no liveness property and no fairness.

## What is proved

TLAPS checks these for all values of the constants that satisfy the named
assumptions: any files, chunk counts, names, initial disks, buffer sizes, typed
lines and faults; any byte base, packets and byte orders; any hosts, servers,
clients and command lines. A hypothesis that a theorem has beyond the named
assumptions is in its row.

| Theorem | Statement |
|---|---|
| `WireSendProofs!TypeCorrect` | `Spec => []TypeOK` |
| `NothingBeforeTargetHolds` | `Spec => []NothingBeforeTarget` |
| `AcceptProofs!NoFileWithoutAcceptHolds` | `Spec => []NoFileWithoutAccept` |
| `SessionProofs!OldFilesKeptHolds` | `Spec => []OldFilesKept`, if the disk is never found too small and no user has two `/a` |
| `StreamIntactHolds` | `Spec => []StreamIntact`, for one file each way on a working disk (below) |
| `AnnouncedFileIsCompleteHolds` | `Spec => []AnnouncedFileIsComplete`, likewise |
| `FilesAreCopiedHolds` | `Spec => FilesAreCopied`: each direction implements `FileCopy`, likewise |
| `FreshPathIsFree` | the path chosen by `FreshPath` is a path at which no file exists, on any finite disk |
| `PacketStreamProofs!StreamTyped` | `PacketStream`: `Spec => []TypeOK` |
| `StreamCarriesPackets` | `Spec => []ReceivedIsSent` |
| `OfferReadBack` | `Spec => []MetadataSurvives`, for two hosts of one byte order |
| `BytesAreAConnection` | `Spec => PacketsAreWhole`: the bytes implement `Connection` |
| `StartupProofs!StartupTyped` | `Startup`: `Spec => []TypeOK` |
| `ShownValuesReachTheirServer` | `Spec => []ShownValuesReachServer` |
| `DialogsProofs!TypeCorrect` | `Dialogs`: `Spec => []TypeOK` |
| `NothingLeft` | `Spec => []NothingLeftBehind` |
| `DialogKept` | `Spec => []DetectedOnce` |
| `AnswersAreChoices` | `Spec => []AnswerIsChoice` |

Named assumptions, which TLC evaluates in every run of their modules:
`FileAssumption`, `StrayAssumption` (Protocol), `CapAssumption` (Transport),
`NameAssumption` (FileHandler), `BudgetAssumption`, `FaultAssumption` (WireSend)
and `DialogsAssumption` (Dialogs) give the constants their types.
`BaseAssumption` (Codec) asks for at least two values of a byte, and
`StreamAssumption` (PacketStream) for packets that the program builds.
`BodyAssumption` says that an enumerator fits in a byte and that the length of
a body fits in the 32 bits of the header and in the `int` of `RecievePacket`,
which holds for the packets of the program: a chunk has at most the size of
`SendFile`'s buffer. `StartupAssumption` and `ArgumentsAssumption` (Startup) are
types again, and `AddressAssumption` says that no two hosts of the network
share an address outside 127.0.0.0/8.

**The session.** `TypeOK` is not inductive: that the domain of `disk[p]`
contains only paths, and never `NoPath`, depends on a frame never arriving
before a target was picked. That in turn is a fact about the whole chain from
one peer to the other and back. The inductive invariant is

    Inv == TypeOK /\ AskedPathKnown /\ NothingBeforeTarget

`NothingBeforeTarget` says, for a peer `p` with no target: `p` is not about to
accept; no acceptance is on its way to the other peer; the other peer has no
file to send and is not sending; no frame is on its way to `p`; `p` is not
saving; and `p`'s disk is as it was. Each link is produced only by the one
before it. `ChainKept` states this for one step, `ChainArgument` proves that a
step that keeps the chain preserves `NothingBeforeTarget`, and what remains is
to show `ChainKept` for every action. The actions fall into four shapes, each
with a lemma: a step that sends (`SendStep`), a step of one thread on local
state (`LocalStep`), the end of a process (`DieStep`), and a step that takes a
packet (`TakeStep`). `TransportProofs` has the lemmas about streams: which
packets a stream holds after an append, a take or a close.

`NoFileWithoutAcceptHolds` counts. `NoFileWithoutAccept` (`credit[p] >= 0`) says
nothing of an acceptance that is still on its way, so it is not inductive. The
strengthening, inductive together with `TypeOK`, is

    CreditCovers == \A p \in Peer : credit[p] >= Acceptances(wire[p]) + Held(p)

where `Acceptances` counts the acceptances in the stream to `p` and `Held(p)` is
1 while `FileSendInProgress` can still start a file: the flag is set and the
main thread is neither inside `SendFile` nor ended. Sending an acceptance adds
one to both sides at most, receiving it moves it from the stream to the flag,
`StartSendFile` spends it, and `EndSend` clears the flag before the main loop
can look at it again: this is the step that the proof would fail without. All
other steps gain nothing (`NothingGained`): no stream holds more acceptances
than before, no flag is set, the credit is the same. `CreditCovers` was checked
by TLC on the instances of its runs before it was proved.

`FreshPathIsFree` is a counting argument: among `n + 1` copy numbers at least
one is free on a disk with `n` files, since they map to different paths; the
least one, which `FreshPath` chooses and where the loop of the code ends, exists
because the numbers are naturals.

**Old files.** `OldFilesKept` needs to know where in a file the receive thread
is. `FramesInOrder` says that in each stream a chunk follows the beginning of
its file or another chunk, and `PickedOnce` that the user's only `/a` picks the
only target. `Untouched` then says, for a user who has not typed `Y`: old files
are as they were, and if the rest of a file is still to be written, then the
user is still to be asked, or the target is not an old file, or the server
ignores the file. The answer `N` leads to a new path by `FreshPathIsFree`.
Kills, failing opens, rejections and further offers are all allowed; the run
`disk_full` shows what happens when the disk is found too small, and a second
`/a` can point `FilePathOnTarget` at an old file after the question for the
first one.

**What a copy holds.** `StreamIntact`, `AnnouncedFileIsComplete` and the
refinement have one inductive invariant, `ContentInv`. It has to say, at every
moment of a transfer, where the file is: `Placed(p, b, m, n)` is that
`FILE_BEGIN` is the `b`-th packet on its way to `p` (or has been taken, with
`b = 0`), that the copy has `m` chunks, and that the packets after the `b`-th one
start with chunk `m + 1` to `n`, where `n` is what `SendFile` has read, unless
its end was closed while it sent the last chunk. `Content(p)` is that such
numbers exist while a file is under way, and `Waits(p)` what holds before a file
is opened and what its end shows. Sending a chunk moves `n`, storing one moves
`m`, and taking any other packet moves `b`. To know that no second file
interferes, the invariant counts: `OfferedOnce` for the offers, `BegunOnce` that
the answer still to be typed, still to be sent, sent and not used, and used add
up to at most one (with `CreditCovers` for the answers in the stream), and
`RequestStays` that the server does not ignore the file of a request it has
accepted.

All of this is said of a transfer that is `Live`: the receiver's end is not
closed (`IsOpen`), and its thread still reads, or the sender's end is open too.
A client that reads `END_CONNECTION` out of an uninitialised control byte closes
its end, and from then on nothing is claimed of its copy but what `FileCopy`
says; the invariant needs no assumption about that byte. `SendFile` may stop
reading at any chunk, so the invariant never says that `n` is the length of
the file.

The hypotheses are `OneFileEach` (each user has at most one `/f`, one `/a` and
no `/r`), and `DiskWorks` (no full disk and no failing open at the receiver;
processes may be killed, directories vanish and the sender's file fail to open
or to be read at any point). They are the conditions under which the code keeps
its promise, and `transfer` and `duplex` satisfy them. Without the first, a
second `/a` moves the rest of a file elsewhere and a second `/f` changes the
file that is sent (run `unseen_file`); after `/r` the server ignores the frames.
Without the second, chunks are appended to an old file or are missing from the
new one. The parts of `ContentInv` were checked by TLC on the instances of the
two runs, and on one with kills and unreadable files and both questions, before
they were proved.

The refinement maps `PickFile` to `Choose`, `PickTarget` to `Agree`, sending
`FILE_BEGIN` to `Open`, sending a chunk to `Read` and `RecvChunk` to `Store`
(`CopyMoves`). All other steps stutter, among them `CreateTarget`, which
replaces an old file, not part of the copy, by an empty one. That `Store`
appends the right chunk, and only one that has been read, is `ContentInv`.

**The bytes.** The state does not hold what has been sent, so `Reading`
quantifies over it: there are the packets `P` that were started, the bytes `T`
that `send` took, and the offset `off` of each packet, such that `T` is the
encodings of `P` one after the other, cut off somewhere in the last one
(`Layout`), `SentBytes` is the place in that packet (`SentSide`), and `buffer`
followed by `stream` is `T` from the place where the receive thread is
(`ReadSide`). `SendSome` extends `T`, `StartPacket` extends `P`, and a complete
read moves `Start`; then `PacketReadBack` (decoding the two parts of an encoded
packet gives the packet) shows that the packet put together is the next of `P`.
The refinement maps the packets of `sent` behind those of `received` to the
abstract stream, which has a packet when its last byte has been sent. Its bound
holds because each packet in it still has a byte in the buffers (`TransitFits`).
`OfferReadBack` combines `ReceivedIsSent` with `MetadataReadBack`: `Memory4` and
`Memory8` are undone by a host of the same order.

**The start.** `PortInv` says that a listening server has its port of the host
to itself and that a connected client has reached, with its port, a host where
that server listens or has ended. `ShownHost` shows that an address shown by a
server leads to its host: it is in no other host's list, and when there is none
the text shown is no address. `CountInv` gives `ClientCount` its range: the
receive thread counts down what `AcceptClient` has counted up.

**The dialogs.** Any number of processes run on the host, with any programs and
environments. `TypeOK` is strengthened to `TInv`: `Shape` says which programs
and which output go with each point of a call, which bounds the output.

- `NothingLeftBehind` is inductive with `TInv`: only a call that uses the file
  writes it, and it ends in `ReturnText`, which removes it, or with the process,
  which is then `"cut off"` and not `"ended"`. A step of another
  process only replaces the file by its own or by nothing.
- `DetectedOnce` needs `Settled`: the program that an earlier call has used has
  been found, and all that go before it in the order of this kind have been
  looked for in vain. What has been looked for keeps its value (`ValueKept`), so
  the next call stops at the same program, whatever was looked for in between
  (`SettledKept`, `ChosenAgain`). For the console it is that nothing was found
  at all and that the warning has been given.
- `AnswerIsChoice` is strengthened to `AInv`: while a call is open nothing has
  been returned and the static buffer is empty (`Fresh`); a closed program's
  lines are what its user chose, nothing, a complaint, or one of the two
  exceptions (`Printed`); and what a process of the model has written to the
  file is its present choice (`Signed`), for which `NothingLeftBehind` is
  needed: an old text of one's own is gone when the next call starts.

**Only model-checked**: the liveness properties `SendFileReturns`,
`StopReachesClient` and `EveryPacketArrives`, which are out of TLAPS's reach
(fairness and `ENABLED`). The six properties of the next section are refuted by
a run.

## What the code does not keep

Each of these runs checks one statement of the documentation or of a comment
and TLC shows a behaviour of the code that contradicts it.

| Run | Property | Behaviour |
|---|---|---|
| `lost_answer` | `AcceptanceStartsTransfer` | the acceptance is handled between the `send` of `NegotiateReceiver` and the assignment to `ActiveFileNegReq` (FileHandler.cpp:63-65), and is dropped; the sender waits for ever |
| `rejected_file` | `RejectedFileNotWritten` | a client user types `/a` and then `/r`; the client writes the file that arrives all the same (ClientMod.cpp:178) |
| `disk_full` | `OldFilesKept` | `CanReceiveFiles` refuses for lack of space, and the chunks are appended to the existing file without the question (FileHandler.cpp:247) |
| `unseen_file` | `FileShownBeforeSent` | a second `/f` while the acceptance of the first file waits sends the second file (ServerMod.cpp:391) |
| `end_command` | `EndCommandEnds` | `/~end~/` joins a receive thread that blocks in `recv` until the server goes (ClientMod.cpp:254) |
| `bare_name` | `TypedNameIsSaved` | a bare name typed at "Save file in ..." (tinyfiledialogs.cpp:6821) gives a path without a directory, for which `fs::space` throws on the receive thread (FileHandler.cpp:110) |

In `unseen_file` the two offers are of different files: the receiver was shown
one and the other one is sent.

The model shows more that no document denies, so there is no run for it; the
properties above are stated so that they hold in spite of it:

- A read that fails in `SendFile`, or its second open, ends the transfer like
  the end of the file: a truncated file is announced as received (`SendEnd`).
- A chunk that cannot be written is skipped and the file is announced. With
  `open_fails` among the faults `AnnouncedFileIsComplete` is false.
- The uninitialised control byte of a broadcast can be `END_CONNECTION` and make
  the client close its end (`RecvText`).
- The overwrite question can hold the receive thread for ever, and with it the
  peer's `SendFile` and the end that `/stop` should bring.
- `(null)`, shown as the LAN address of a host that has none, is taken for
  0.0.0.0: a client started with it may reach another server on its own host.
- A process that ends in the middle of a dialog leaves the typed text in
  `/tmp/tinyfd.txt`.
- The incoming request stays active after `FILE_END`, although ServerMod.cpp:342
  notes that it should not, so `/a` accepts it again.

## Not modelled

- tinyfiledialogs beyond what WireSend calls: colours, folders, lists, beeps,
  notifications of their own, the Windows half, and in `tinyfd_inputBox` the
  branches for programs that the file dialogs would have used before it. Of the
  command lines only what they do to the answer; lengths of paths and of output
  (`fgets` with the size of a pointer at tinyfiledialogs.cpp:7411, a path of
  more than 1023 bytes) are out, since a path is an atom.
- Printing, debug output and the wording of messages: pure output.
- The `std::string` race inside `FilePathOnTarget` beyond its atomic reading.
- What a session does after a failed accept or connect: every line fails to be
  sent, and `Startup` lets such a process only end.
- The usage text of README.md:44 (`./wires <ip-address> <port>`) leaves out the
  word `client` that `main` asks for; `Usage` follows the code.

## Plan

Done: the session, the bytes, the start, the dialogs, two refinements, and
proofs of all safety properties that the passing runs check. What is left, in
order of importance:

1. **Transfers in sequence**: `ContentInv` for users who offer a second file
   after the first one has arrived. The counting in `OfferedOnce` and
   `BegunOnce` would become a relation between each request and its answer.
2. **Negotiation** (abstract specification): requests with an identity, one
   answer each. It would make the crossing requests (ServerMod.cpp:190) and the
   request dropped after `/r` (ServerMod.cpp:353) visible as failures to refine.
3. **Dialogs composed with WireSend**: the receive thread goes on while a
   dialog is open, and the state space of the product is large.
