------------------------------ MODULE WireSend ------------------------------
(***************************************************************************)
(* A connected WireSend session: the server and the client process, each   *)
(* with its main thread (the loop of StartServer or StartClient that reads *)
(* the terminal and sends) and its receive thread (RunRecvThread), which   *)
(* share unprotected globals.  The session starts when the connection is   *)
(* established and the receive threads are created.                        *)
(*                                                                         *)
(* Every access to a global that the other thread of the process writes    *)
(* and every call to send, recv, shutdown or close is a step of its own.   *)
(***************************************************************************)
EXTENDS FileHandler

CONSTANTS
  Budget,   \* Budget[p][l]: how often p's user types line l
  Faults    \* what the environment may do in this instance

\* The lines a user types, told apart as the main loops tell them apart.
Line == {"text", "", "/a", "/r", "/f", "/stop", "/~end~/", "/unknown",
         "Y", "N"}

ASSUME BudgetAssumption == Budget \in [Peer -> [Line -> Nat]]
ASSUME FaultAssumption ==
  Faults \subseteq {"disk_full", "no_directory", "open_fails", "unsendable",
                    "read_fails", "killed"}

VARIABLES
  activeFileNegReq,     \* ActiveFileNegReq: an own request awaits its answer
  fileSendInProgress,   \* FileSendInProgressServer / ...Client
  incomingActive,       \* IncomingFileRequest.active / ...RequestClient.active
  incomingFile,         \* IncomingFileRequest.metadata
  outgoingFile,         \* OutgoingFileRequest: the file offered last
  connected,            \* ServerConnected / ClientConnected
  programRunning,       \* ProgramRunning
  mainPc,               \* where each main thread is
  recvPc,               \* where each receive thread is
  sentChunks,           \* local to SendFile: chunks sent, or NotOpen
  lines,                \* lines each user may still type
  credit                \* history: ACCEPTs sent to p minus files p has begun

negotiationVars ==
  <<activeFileNegReq, fileSendInProgress, incomingActive, incomingFile,
    outgoingFile>>
flagVars == <<connected, programRunning>>
userVars == <<lines>>
vars == <<transportVars, fileVars, negotiationVars, flagVars, mainPc, recvPc,
          sentChunks, userVars, credit>>

NotOpen == -1

\* How a process ends: return from main, std::terminate, SIGPIPE, a signal.
Ended == {"exited", "aborted", "sigpipe", "killed"}

MainPc ==
  Ended \cup
  { "announce", "loop", "getline", "saveDialog", "sendAccept", "acceptSent",
    "sendReject", "rejectSent", "dropRequest", "openDialog", "sendRequest",
    "requestSent", "stopAnnounce", "stopShut", "join", "checkSend",
    "sendBegin", "sendChunks", "endSend", "sendText", "leave" }

RecvPc == {"loop", "recv", "askOverwrite", "create", "done"}

(***************************************************************************)
(* The type invariant.                                                     *)
(***************************************************************************)
TypeOK ==
  /\ TransportTypeOK
  /\ FileTypeOK
  /\ activeFileNegReq \in [Peer -> BOOLEAN]
  /\ fileSendInProgress \in [Peer -> BOOLEAN]
  /\ incomingActive \in [Peer -> BOOLEAN]
  /\ incomingFile \in [Peer -> File \cup {NoFile}]
  /\ outgoingFile \in [Peer -> File \cup {NoFile}]
  /\ connected \in [Peer -> BOOLEAN]
  /\ programRunning \in [Peer -> BOOLEAN]
  /\ mainPc \in [Peer -> MainPc]
  /\ recvPc \in [Peer -> RecvPc]
  /\ sentChunks \in [Peer -> Nat \cup {NotOpen}]
  /\ lines \in [Peer -> [Line -> Nat]]
  /\ credit \in [Peer -> Int]

\* AcceptClient has set ServerConnected, ConnectToServer ClientConnected.
\* The server announces the connection, the client starts its loop.
Init ==
  /\ TransportInit
  /\ FileInit
  /\ activeFileNegReq = [p \in Peer |-> FALSE]
  /\ fileSendInProgress = [p \in Peer |-> FALSE]
  /\ incomingActive = [p \in Peer |-> FALSE]
  /\ incomingFile = [p \in Peer |-> NoFile]
  /\ outgoingFile = [p \in Peer |-> NoFile]
  /\ connected = [p \in Peer |-> TRUE]
  /\ programRunning = [p \in Peer |-> TRUE]
  /\ mainPc = [p \in Peer |-> IF p = Server THEN "announce" ELSE "loop"]
  /\ recvPc = [p \in Peer |-> "loop"]
  /\ sentChunks = [p \in Peer |-> NotOpen]
  /\ lines = Budget
  /\ credit = [p \in Peer |-> 0]

-----------------------------------------------------------------------------
(***************************************************************************)
(* Steps shared by the main threads.                                       *)
(***************************************************************************)
Alive(p) == mainPc[p] \notin Ended

MainGoto(p, pc) == mainPc' = [mainPc EXCEPT ![p] = pc]
RecvGoto(p, pc) == recvPc' = [recvPc EXCEPT ![p] = pc]

\* The process ends and the kernel closes its socket.
Die(p, how) == MainGoto(p, how) /\ RecvGoto(p, "done") /\ Close(p)

\* SendPacket called by p's main thread: it continues at ok after 0 and at
\* err after -1.  Only main threads send.
Send(p, pkt, ok, err) ==
  \/ Delivered(p, pkt) /\ MainGoto(p, ok) /\ UNCHANGED <<recvPc, sock>>
  \/ Lost(p) /\ MainGoto(p, ok) /\ UNCHANGED <<recvPc, sock>>
  \/ Refused(p) /\ MainGoto(p, err) /\ UNCHANGED <<recvPc, sock>>
  \/ BrokenPipe(p) /\ Die(p, "sigpipe")

ParseCommands(l) ==
  CASE l = "/stop" -> "Stop"
    [] l = "/a" -> "Accept"
    [] l = "/f" -> "FilePrompt"
    [] l = "/r" -> "Reject"
    [] l \in {"/~end~/", "/unknown"} -> "Unknown"
    [] OTHER -> "NotACommand"

\* A thread of p takes the next line from std::cin.
TakeLine(p, l) ==
  /\ lines[p][l] > 0
  /\ lines' = [lines EXCEPT ![p][l] = @ - 1]

-----------------------------------------------------------------------------
(***************************************************************************)
(* The main loop: reading a line and dispatching it.                       *)
(***************************************************************************)
\* BroadcastServerMsg("Accepted a client!\n"); a failure is only reported.
Announce ==
  /\ mainPc[Server] = "announce"
  /\ \E stray \in StrayCtl : Send(Server, Broadcast(stray), "loop", "loop")
  /\ UNCHANGED <<fileVars, negotiationVars, flagVars, sentChunks, lines,
                 credit>>

\* while(ProgramRunning)
MainLoop(p) ==
  /\ mainPc[p] = "loop"
  /\ MainGoto(p, IF programRunning[p] THEN "getline" ELSE "leave")
  /\ UNCHANGED <<transportVars, fileVars, negotiationVars, flagVars, recvPc,
                 sentChunks, lines, credit>>

\* Where the line just read takes the main loop.  Only the client looks at
\* its connection first and knows "/~end~/"; only the server can be stopped.
Dispatch(p, l) ==
  IF p = Client /\ ~(programRunning[p] /\ connected[p])
    THEN "leave"
    ELSE CASE l = "" -> "loop"
           [] l = "/~end~/" /\ p = Client -> "join"
           [] ParseCommands(l) = "Accept" /\ incomingActive[p] -> "saveDialog"
           [] ParseCommands(l) = "Reject" /\ incomingActive[p] -> "sendReject"
           [] ParseCommands(l) = "Stop" /\ p = Server -> "stopAnnounce"
           [] ParseCommands(l) = "FilePrompt" -> "openDialog"
           [] OTHER -> "checkSend"

ReadLine(p, l) ==
  /\ mainPc[p] = "getline"
  /\ TakeLine(p, l)
  /\ MainGoto(p, Dispatch(p, l))
  /\ UNCHANGED <<transportVars, fileVars, negotiationVars, flagVars, recvPc,
                 sentChunks, credit>>

-----------------------------------------------------------------------------
(***************************************************************************)
(* Answering a request: /a and /r.                                         *)
(***************************************************************************)
\* The save dialog returns a path; nothing checks the request again.
PickTarget(p, name) ==
  /\ mainPc[p] = "saveDialog"
  /\ filePathOnTarget' = [filePathOnTarget EXCEPT ![p] = Bare(name)]
  /\ MainGoto(p, "sendAccept")
  /\ UNCHANGED <<transportVars, askedPath, disk, negotiationVars, flagVars,
                 recvPc, sentChunks, lines, credit>>

CancelSaveDialog(p) ==
  /\ mainPc[p] = "saveDialog"
  /\ MainGoto(p, "checkSend")
  /\ UNCHANGED <<transportVars, fileVars, negotiationVars, flagVars, recvPc,
                 sentChunks, lines, credit>>

SendAccept(p) ==
  /\ mainPc[p] = "sendAccept"
  /\ Send(p, Answer("FILE_ACCEPT"), "acceptSent", "checkSend")
  /\ credit' = [credit EXCEPT ![Other(p)] = @ + 1]
  /\ UNCHANGED <<fileVars, negotiationVars, flagVars, sentChunks, lines>>

SendReject(p) ==
  /\ mainPc[p] = "sendReject"
  /\ Send(p, Answer("FILE_REJECT"), "rejectSent", "dropRequest")
  /\ UNCHANGED <<fileVars, negotiationVars, flagVars, sentChunks, lines,
                 credit>>

\* AnswerSender clears the flag of an own request as well, if there is one.
AnswerSent(p) ==
  /\ mainPc[p] \in {"acceptSent", "rejectSent"}
  /\ activeFileNegReq' = [activeFileNegReq EXCEPT ![p] = FALSE]
  /\ MainGoto(p, IF mainPc[p] = "acceptSent" THEN "checkSend"
                                             ELSE "dropRequest")
  /\ UNCHANGED <<transportVars, fileVars, fileSendInProgress, incomingActive,
                 incomingFile, outgoingFile, flagVars, recvPc, sentChunks,
                 lines, credit>>

\* After /r the request is dropped, whether or not the answer was sent.
DropRequest(p) ==
  /\ mainPc[p] = "dropRequest"
  /\ incomingActive' = [incomingActive EXCEPT ![p] = FALSE]
  /\ MainGoto(p, "checkSend")
  /\ UNCHANGED <<transportVars, fileVars, activeFileNegReq,
                 fileSendInProgress, incomingFile, outgoingFile, flagVars,
                 recvPc, sentChunks, lines, credit>>

-----------------------------------------------------------------------------
(***************************************************************************)
(* Offering a file: /f.                                                    *)
(***************************************************************************)
\* The open dialog returns f and the user confirms with "Y".
PickFile(p, f) ==
  /\ mainPc[p] = "openDialog"
  /\ TakeLine(p, "Y")
  /\ outgoingFile' = [outgoingFile EXCEPT ![p] = f]
  /\ MainGoto(p, "sendRequest")
  /\ UNCHANGED <<transportVars, fileVars, activeFileNegReq,
                 fileSendInProgress, incomingActive, incomingFile, flagVars,
                 recvPc, sentChunks, credit>>

\* fs::file_size throws: the file went away while the dialog was open.
OfferThrows(p) ==
  /\ mainPc[p] = "openDialog"
  /\ "unsendable" \in Faults
  /\ Die(p, "aborted")
  /\ UNCHANGED <<fileVars, negotiationVars, flagVars, sentChunks, lines,
                 credit>>

\* The open dialog is cancelled, or the user answers anything but "Y".
DeclineFile(p) ==
  /\ mainPc[p] = "openDialog"
  /\ lines' = lines \/ \E l \in Line \ {"Y"} : TakeLine(p, l)
  /\ MainGoto(p, "checkSend")
  /\ UNCHANGED <<transportVars, fileVars, negotiationVars, flagVars, recvPc,
                 sentChunks, credit>>

SendRequest(p) ==
  /\ mainPc[p] = "sendRequest"
  /\ Send(p, Request(outgoingFile[p]), "requestSent", "checkSend")
  /\ UNCHANGED <<fileVars, negotiationVars, flagVars, sentChunks, lines,
                 credit>>

\* Mutant of RequestSent: the sender does not wait for the answer.
DoesNotWait(p) ==
  /\ mainPc[p] = "requestSent"
  /\ fileSendInProgress' = [fileSendInProgress EXCEPT ![p] = TRUE]
  /\ MainGoto(p, "checkSend")
  /\ UNCHANGED <<transportVars, fileVars, activeFileNegReq, incomingActive,
                 incomingFile, outgoingFile, flagVars, recvPc, sentChunks,
                 lines, credit>>

\* NegotiateReceiver tells the receive thread to expect an answer only
\* after send has returned.
RequestSent(p) ==
  /\ mainPc[p] = "requestSent"
  /\ activeFileNegReq' = [activeFileNegReq EXCEPT ![p] = TRUE]
  /\ MainGoto(p, "checkSend")
  /\ UNCHANGED <<transportVars, fileVars, fileSendInProgress, incomingActive,
                 incomingFile, outgoingFile, flagVars, recvPc, sentChunks,
                 lines, credit>>

-----------------------------------------------------------------------------
(***************************************************************************)
(* The tail of the loop: SendFile when an accepted file waits, then the    *)
(* line itself as a message, whatever command it was.                      *)
(***************************************************************************)
NothingToSend(p) ==
  /\ mainPc[p] = "checkSend"
  /\ ~fileSendInProgress[p]
  /\ MainGoto(p, "sendText")
  /\ UNCHANGED <<transportVars, fileVars, negotiationVars, flagVars, recvPc,
                 sentChunks, lines, credit>>

\* CanSendFiles succeeds.  SendFile opens the file once more and does not look
\* whether it could: if not, its first read fails (SendEnd).
StartSendFile(p) ==
  /\ mainPc[p] = "checkSend"
  /\ fileSendInProgress[p]
  /\ MainGoto(p, "sendBegin")
  /\ sentChunks' = [sentChunks EXCEPT ![p] = NotOpen]
  /\ credit' = [credit EXCEPT ![p] = @ - 1]
  /\ UNCHANGED <<transportVars, fileVars, negotiationVars, flagVars, recvPc,
                 lines>>

\* CanSendFiles finds that the file is gone or cannot be read.
CannotSendFile(p) ==
  /\ mainPc[p] = "checkSend"
  /\ fileSendInProgress[p]
  /\ "unsendable" \in Faults
  /\ MainGoto(p, "endSend")
  /\ UNCHANGED <<transportVars, fileVars, negotiationVars, flagVars, recvPc,
                 sentChunks, lines, credit>>

SendBegin(p) ==
  /\ mainPc[p] = "sendBegin"
  /\ Send(p, Marker("FILE_BEGIN"), "sendChunks", "endSend")
  /\ sentChunks' = [sentChunks EXCEPT ![p] = 0]
  /\ UNCHANGED <<fileVars, negotiationVars, flagVars, lines, credit>>

SendChunk(p) ==
  /\ mainPc[p] = "sendChunks"
  /\ sentChunks[p] < Chunks[outgoingFile[p]]
  /\ Send(p, ChunkFrame(outgoingFile[p], sentChunks[p] + 1), "sendChunks",
          "endSend")
  /\ sentChunks' = [sentChunks EXCEPT ![p] = @ + 1]
  /\ UNCHANGED <<fileVars, negotiationVars, flagVars, lines, credit>>

\* The read loop ends at the end of the file, or at the first read that fails,
\* for whatever reason; FILE_END is sent in either case.
SendEnd(p) ==
  /\ mainPc[p] = "sendChunks"
  /\ sentChunks[p] = Chunks[outgoingFile[p]] \/ "read_fails" \in Faults
  /\ Send(p, Marker("FILE_END"), "endSend", "endSend")
  /\ UNCHANGED <<fileVars, negotiationVars, flagVars, sentChunks, lines,
                 credit>>

\* Mutant of EndSend: the flag stays set.
EndSendKeepsFlag(p) ==
  /\ mainPc[p] = "endSend"
  /\ MainGoto(p, "sendText")
  /\ UNCHANGED <<transportVars, fileVars, negotiationVars, flagVars, recvPc,
                 sentChunks, lines, credit>>

\* Whatever SendFile returned, the flag is cleared.
EndSend(p) ==
  /\ mainPc[p] = "endSend"
  /\ fileSendInProgress' = [fileSendInProgress EXCEPT ![p] = FALSE]
  /\ MainGoto(p, "sendText")
  /\ UNCHANGED <<transportVars, fileVars, activeFileNegReq, incomingActive,
                 incomingFile, outgoingFile, flagVars, recvPc, sentChunks,
                 lines, credit>>

SendText(p) ==
  /\ mainPc[p] = "sendText"
  /\ Send(p, Text, "loop", "leave")
  /\ UNCHANGED <<fileVars, negotiationVars, flagVars, sentChunks, lines,
                 credit>>

-----------------------------------------------------------------------------
(***************************************************************************)
(* Leaving: /stop, /~end~/, and the ends of StartServer and StartClient.   *)
(***************************************************************************)
StopAnnounce ==
  /\ mainPc[Server] = "stopAnnounce"
  /\ \E stray \in StrayCtl :
       Send(Server, Broadcast(stray), "stopShut", "stopShut")
  /\ UNCHANGED <<fileVars, negotiationVars, flagVars, sentChunks, lines,
                 credit>>

\* The rest of StopServer; the loop then goes on and sends the line "/stop".
StopShut ==
  /\ mainPc[Server] = "stopShut"
  /\ connected' = [connected EXCEPT ![Server] = FALSE]
  /\ Shutdown(Server, "wrShut")
  /\ MainGoto(Server, "checkSend")
  /\ UNCHANGED <<wire, fileVars, negotiationVars, programRunning, recvPc,
                 sentChunks, lines, credit>>

\* "/~end~/": RecvThread.join() waits for the receive thread, which nobody
\* has told to stop; then StartClient returns.
Join ==
  /\ mainPc[Client] = "join"
  /\ recvPc[Client] = "done"
  /\ connected' = [connected EXCEPT ![Client] = FALSE]
  /\ Die(Client, "exited")
  /\ UNCHANGED <<fileVars, negotiationVars, programRunning, sentChunks, lines,
                 credit>>

\* After the loop: CloseConnection or StopServer, whose broadcast can raise
\* SIGPIPE, and the destructor of the thread that was never joined.
Leave(p) ==
  /\ mainPc[p] = "leave"
  /\ connected' = [connected EXCEPT ![p] = FALSE]
  /\ \/ Die(p, "aborted")
     \/ p = Server /\ BrokenPipe(p) /\ Die(p, "sigpipe")
  /\ UNCHANGED <<fileVars, negotiationVars, programRunning, sentChunks, lines,
                 credit>>

\* The terminal session is closed.
Kill(p) ==
  /\ "killed" \in Faults
  /\ Alive(p)
  /\ Die(p, "killed")
  /\ UNCHANGED <<fileVars, negotiationVars, flagVars, sentChunks, lines,
                 credit>>

-----------------------------------------------------------------------------
(***************************************************************************)
(* The receive thread.                                                     *)
(***************************************************************************)
\* Mutant of RecvLoop: nothing is received while the main thread sends.
RecvLoopWaits(p) ==
  /\ recvPc[p] = "loop" /\ mainPc[p] \notin {"sendBegin", "sendChunks"}
  /\ RecvGoto(p, IF connected[p] THEN "recv" ELSE "done")
  /\ UNCHANGED <<transportVars, fileVars, negotiationVars, flagVars, mainPc,
                 sentChunks, lines, credit>>

\* while(ServerConnected == true), while(ClientConnected)
RecvLoop(p) ==
  /\ recvPc[p] = "loop"
  /\ RecvGoto(p, IF connected[p] THEN "recv" ELSE "done")
  /\ UNCHANGED <<transportVars, fileVars, negotiationVars, flagVars, mainPc,
                 sentChunks, lines, credit>>

\* p's receive thread has a packet of one of these types before it.
Receives(p, types) ==
  recvPc[p] = "recv" /\ wire[p] # <<>> /\ Head(wire[p]).type \in types

\* A message or a broadcast is printed.  The client then obeys the control
\* byte, and END_CONNECTION closes its socket; the server only prints it.
RecvText(p) ==
  /\ Receives(p, {"MESSAGE", "MESSAGE_BROADCAST"})
  /\ \/ /\ p = Client /\ Head(wire[p]).ctl = "END_CONNECTION"
        /\ Close(p)
        /\ connected' = [connected EXCEPT ![p] = FALSE]
     \/ /\ ~(p = Client /\ Head(wire[p]).ctl = "END_CONNECTION")
        /\ Takes(p)
        /\ UNCHANGED <<sock, connected>>
  /\ RecvGoto(p, "loop")
  /\ UNCHANGED <<fileVars, negotiationVars, programRunning, mainPc,
                 sentChunks, lines, credit>>

\* A request is shown to the user, unless an own request is pending: then it
\* falls through every branch and is gone.
RecvRequest(p) ==
  /\ Receives(p, {"FILE_NEG"})
  /\ Head(wire[p]).ctl = "NO_ARG"
  /\ IF activeFileNegReq[p]
       THEN UNCHANGED <<incomingActive, incomingFile>>
       ELSE /\ incomingActive' = [incomingActive EXCEPT ![p] = TRUE]
            /\ incomingFile' = [incomingFile EXCEPT ![p] = Head(wire[p]).file]
  /\ Takes(p)
  /\ RecvGoto(p, "loop")
  /\ UNCHANGED <<sock, fileVars, activeFileNegReq, fileSendInProgress,
                 outgoingFile, flagVars, mainPc, sentChunks, lines, credit>>

\* An acceptance counts only while a request is pending.
RecvAccept(p) ==
  /\ Receives(p, {"FILE_NEG"})
  /\ Head(wire[p]).ctl = "FILE_ACCEPT"
  /\ fileSendInProgress' =
       [fileSendInProgress EXCEPT ![p] = @ \/ activeFileNegReq[p]]
  /\ activeFileNegReq' = [activeFileNegReq EXCEPT ![p] = FALSE]
  /\ Takes(p)
  /\ RecvGoto(p, "loop")
  /\ UNCHANGED <<sock, fileVars, incomingActive, incomingFile, outgoingFile,
                 flagVars, mainPc, sentChunks, lines, credit>>

\* A rejection clears the incoming request too.
RecvReject(p) ==
  /\ Receives(p, {"FILE_NEG"})
  /\ Head(wire[p]).ctl = "FILE_REJECT"
  /\ incomingActive' =
       [incomingActive EXCEPT ![p] = @ /\ ~activeFileNegReq[p]]
  /\ activeFileNegReq' = [activeFileNegReq EXCEPT ![p] = FALSE]
  /\ Takes(p)
  /\ RecvGoto(p, "loop")
  /\ UNCHANGED <<sock, fileVars, fileSendInProgress, incomingFile,
                 outgoingFile, flagVars, mainPc, sentChunks, lines, credit>>

\* Only the server asks whether it has a request before it handles a frame.
HandlesFrames(p) == p = Client \/ incomingActive[p]

IgnoreFrame(p) ==
  /\ Receives(p, FrameType)
  /\ ~HandlesFrames(p)
  /\ Takes(p)
  /\ RecvGoto(p, "loop")
  /\ UNCHANGED <<sock, fileVars, negotiationVars, flagVars, mainPc,
                 sentChunks, lines, credit>>

\* FILE_BEGIN: CanReceiveFiles refuses when the disk is too small, and RecvFile
\* then returns success; otherwise it asks before it overwrites a file.
RecvBegin(p) ==
  /\ Receives(p, {"FILE_BEGIN"})
  /\ HandlesFrames(p)
  /\ \/ /\ "disk_full" \in Faults
        /\ RecvGoto(p, "loop")
        /\ UNCHANGED askedPath
     \/ /\ Exists(p, filePathOnTarget[p])
        /\ askedPath' = [askedPath EXCEPT ![p] = filePathOnTarget[p]]
        /\ RecvGoto(p, "askOverwrite")
     \/ /\ ~Exists(p, filePathOnTarget[p])
        /\ RecvGoto(p, "create")
        /\ UNCHANGED askedPath
  /\ Takes(p)
  /\ UNCHANGED <<sock, filePathOnTarget, disk, negotiationVars, flagVars,
                 mainPc, sentChunks, lines, credit>>

\* fs::space throws: the directory of the target is gone, and nothing on the
\* receive thread catches it.
BeginThrows(p) ==
  /\ Receives(p, {"FILE_BEGIN"})
  /\ HandlesFrames(p)
  /\ "no_directory" \in Faults
  /\ Die(p, "aborted")
  /\ UNCHANGED <<fileVars, negotiationVars, flagVars, sentChunks, lines,
                 credit>>

\* UserAction, on the receive thread, takes a line that the main loop waits
\* for as well, and asks again until it is Y or N.
AskOverwrite(p, l) ==
  /\ recvPc[p] = "askOverwrite"
  /\ Alive(p)
  /\ TakeLine(p, l)
  /\ filePathOnTarget' =
       [filePathOnTarget EXCEPT
          ![p] = IF l = "N" THEN FreshPath(p, askedPath[p]) ELSE @]
  /\ RecvGoto(p, IF l \in {"Y", "N"} THEN "create" ELSE "askOverwrite")
  /\ UNCHANGED <<transportVars, askedPath, disk, negotiationVars, flagVars,
                 mainPc, sentChunks, credit>>

\* The path is read again: /a may have changed it since FILE_BEGIN.
CreateTarget(p) ==
  /\ recvPc[p] = "create"
  /\ \/ Truncate(p, filePathOnTarget[p])
     \/ "open_fails" \in Faults /\ UNCHANGED disk
  /\ RecvGoto(p, "loop")
  /\ UNCHANGED <<transportVars, filePathOnTarget, askedPath, negotiationVars,
                 flagVars, mainPc, sentChunks, lines, credit>>

\* Every chunk opens the file anew; that FILE_BEGIN failed is not remembered.
RecvChunk(p) ==
  /\ Receives(p, {"FILE_CHUNK"})
  /\ HandlesFrames(p)
  /\ \/ AppendChunk(p, filePathOnTarget[p], Head(wire[p]))
     \/ "open_fails" \in Faults /\ UNCHANGED disk
  /\ Takes(p)
  /\ RecvGoto(p, "loop")
  /\ UNCHANGED <<sock, filePathOnTarget, askedPath, negotiationVars, flagVars,
                 mainPc, sentChunks, lines, credit>>

\* FILE_END is announced to the user; the request stays active.
RecvEnd(p) ==
  /\ Receives(p, {"FILE_END", "FILE_TRANSFER"})
  /\ HandlesFrames(p)
  /\ Takes(p)
  /\ RecvGoto(p, "loop")
  /\ UNCHANGED <<sock, fileVars, negotiationVars, flagVars, mainPc,
                 sentChunks, lines, credit>>

\* recv returns 0: the server forgets its connection, the client also shuts
\* down its reading end and leaves its main loop after the next line.
RecvEof(p) ==
  /\ recvPc[p] = "recv"
  /\ EndOfStream(p)
  /\ connected' = [connected EXCEPT ![p] = FALSE]
  /\ IF p = Server
       THEN UNCHANGED <<sock, programRunning>>
       ELSE /\ Shutdown(p, "rdShut")
            /\ programRunning' = [programRunning EXCEPT ![p] = FALSE]
  /\ RecvGoto(p, "done")
  /\ UNCHANGED <<wire, fileVars, negotiationVars, mainPc, sentChunks, lines,
                 credit>>

\* recv returns -1: the server's thread ends and leaves ServerConnected set,
\* the client closes its socket.
RecvError(p) ==
  /\ recvPc[p] = "recv"
  /\ ConnectionReset(p)
  /\ IF p = Server
       THEN /\ wire' = [wire EXCEPT ![p] = <<>>]
            /\ UNCHANGED <<sock, flagVars>>
       ELSE /\ Close(p)
            /\ connected' = [connected EXCEPT ![p] = FALSE]
            /\ programRunning' = [programRunning EXCEPT ![p] = FALSE]
  /\ RecvGoto(p, "done")
  /\ UNCHANGED <<fileVars, negotiationVars, mainPc, sentChunks, lines, credit>>

-----------------------------------------------------------------------------
(***************************************************************************)
(* The specification.  A user may stop typing at any moment, so fairness   *)
(* is for the steps that the threads take on their own.                    *)
(***************************************************************************)
UserStep(p) ==
  \/ \E l \in Line : ReadLine(p, l) \/ AskOverwrite(p, l)
  \/ \E name \in Name : PickTarget(p, name)
  \/ CancelSaveDialog(p)
  \/ \E f \in File : PickFile(p, f)
  \/ OfferThrows(p) \/ DeclineFile(p)
  \/ Kill(p)

MainStep(p) ==
  \/ p = Server /\ (Announce \/ StopAnnounce \/ StopShut)
  \/ p = Client /\ Join
  \/ MainLoop(p) \/ Leave(p)
  \/ SendAccept(p) \/ SendReject(p) \/ AnswerSent(p) \/ DropRequest(p)
  \/ SendRequest(p) \/ RequestSent(p)
  \/ NothingToSend(p) \/ StartSendFile(p) \/ CannotSendFile(p)
  \/ SendBegin(p) \/ SendChunk(p) \/ SendEnd(p) \/ EndSend(p)
  \/ SendText(p)

RecvStep(p) ==
  \/ RecvLoop(p) \/ RecvText(p)
  \/ RecvRequest(p) \/ RecvAccept(p) \/ RecvReject(p)
  \/ IgnoreFrame(p) \/ RecvBegin(p) \/ BeginThrows(p) \/ CreateTarget(p)
  \/ RecvChunk(p) \/ RecvEnd(p)
  \/ RecvEof(p) \/ RecvError(p)

Next == \E p \in Peer : UserStep(p) \/ MainStep(p) \/ RecvStep(p)

Spec == Init /\ [][Next]_vars

Fairness == \A p \in Peer : WF_vars(MainStep(p)) /\ WF_vars(RecvStep(p))

FairSpec == Spec /\ Fairness

-----------------------------------------------------------------------------
(***************************************************************************)
(* What a transfer to p comes to, for the users: the refinement mapping to *)
(* FileCopy.  Until RecvFile has created the target, whatever file was     *)
(* there from the start is not part of the copy.                           *)
(***************************************************************************)
CopyAt(p) ==
  LET content == Written(p, filePathOnTarget[p])
  IN  IF content = OldContent THEN <<>> ELSE content

ToServer ==
  INSTANCE FileCopy WITH agreed <- filePathOnTarget[Server] # NoPath,
                         offered <- outgoingFile[Client],
                         read <- sentChunks[Client],
                         copy <- CopyAt(Server)

ToClient ==
  INSTANCE FileCopy WITH agreed <- filePathOnTarget[Client] # NoPath,
                         offered <- outgoingFile[Server],
                         read <- sentChunks[Server],
                         copy <- CopyAt(Client)

(***************************************************************************)
(* Safety.                                                                 *)
(***************************************************************************)
FrameTo(p) == \E pkt \in PacketsTo(p) : pkt.type \in FrameType

IsAcceptance(pkt) == pkt.type = "FILE_NEG" /\ pkt.ctl = "FILE_ACCEPT"

\* Until p's user has picked a target, p sends no acceptance, so its peer has
\* none to act on and sends no file (ServerMod.cpp:336-344, 199-203, 391-400):
\* CanReceiveFiles never sees an empty FilePathOnTarget and nothing is written
\* to the disk, whatever requests, rejections and messages arrive.
NothingBeforeTarget ==
  \A p \in Peer :
    filePathOnTarget[p] = NoPath =>
      /\ mainPc[p] \notin {"sendAccept", "acceptSent"}
      /\ \A pkt \in PacketsTo(Other(p)) : ~IsAcceptance(pkt)
      /\ ~fileSendInProgress[Other(p)]
      /\ mainPc[Other(p)] \notin {"sendBegin", "sendChunks"}
      /\ ~FrameTo(p)
      /\ recvPc[p] \notin {"askOverwrite", "create"}
      /\ disk[p] = [path \in OldPaths(p) |-> OldContent]

\* SendFile runs at most once for every acceptance: FileSendInProgress is
\* set by an answer and cleared before the next round of the main loop.
NoFileWithoutAccept == \A p \in Peer : credit[p] >= 0

\* p's receive thread has yet to create the target of the file sent to it.
BeginPending(p) ==
  \/ recvPc[p] \in {"askOverwrite", "create"}
  \/ Marker("FILE_BEGIN") \in PacketsTo(p)

\* The first n chunks of file f, as they lie on a disk.
Prefix(f, n) == [i \in 1 .. n |-> <<f, i>>]

\* On its way to p is f from chunk m + 1 to chunk n, first of all, and no other
\* chunk after it.
ChunksFollow(p, f, m, n) ==
  /\ n - m \in 0 .. Len(wire[p])
  /\ \A i \in 1 .. Len(wire[p]) :
       IF i <= n - m THEN wire[p][i] = ChunkFrame(f, m + i)
                     ELSE wire[p][i].type # "FILE_CHUNK"

\* What RecvFile has written and what is still on its way are what SendFile
\* has read so far, in order, with nothing lost, repeated or left over from
\* an overwritten file, for as long as neither end of the connection is closed.
\* For users who answer one request with one /a.
StreamIntact ==
  \A p \in Peer :
    LET q == Other(p)
        f == outgoingFile[q]
        copy == Written(p, filePathOnTarget[p])
        open == "closed" \notin {sock[p], sock[q]}
    IN  open /\ sentChunks[q] # NotOpen /\ ~BeginPending(p)
          => /\ copy = Prefix(f, Len(copy))
             /\ ChunksFollow(p, f, Len(copy), sentChunks[q])

\* When RecvFile announces "File recieved." (FileHandler.cpp:276) the target
\* holds everything that SendFile read, in order and nothing else, also when the
\* sender has stopped or died since.  (That SendFile read the whole file is not
\* promised: a failed read ends it early.)  For users who answer one request
\* with one /a.
AnnouncedFileIsComplete ==
  \A p \in Peer :
    Receives(p, {"FILE_END"}) /\ HandlesFrames(p)
      => Written(p, filePathOnTarget[p])
           = Prefix(outgoingFile[Other(p)], sentChunks[Other(p)])

\* "The filename already exists. Do you want to overwrite it?"
\* (FileHandler.cpp:122): as long as p's user never types Y, the files that
\* p's disk held from the start keep their content.
OldFilesKept ==
  \A p \in Peer :
    lines[p]["Y"] = Budget[p]["Y"]
      => \A path \in OldPaths(p) : Written(p, path) = OldContent

\* The file that is sent is the one whose request was shown to the receiver
\* last, who is to accept it first (README.md:66).
FileShownBeforeSent ==
  \A p \in Peer :
    mainPc[p] \in {"sendBegin", "sendChunks"}
      => incomingFile[Other(p)] = outgoingFile[p]

(***************************************************************************)
(* Action properties.                                                      *)
(***************************************************************************)
\* In this step p's receive thread handles a packet with these fields.
Handles(p, type, ctl) ==
  /\ Receives(p, {type}) /\ Head(wire[p]).ctl = ctl
  /\ wire'[p] = Tail(wire[p]) /\ recvPc'[p] = "loop"

\* "upon receiving the acceptance from the receiver side, you must send a
\* (any) message from the sender side to actuallly start transferring the
\* file" (README.md:66): a received acceptance makes the file ready to send.
AcceptanceStartsTransfer ==
  [][\A p \in Peer :
       Handles(p, "FILE_NEG", "FILE_ACCEPT") => fileSendInProgress'[p]]_vars

\* "This rejects the incoming file" (README.md:64): without an active
\* request nothing is written.
RejectedFileNotWritten ==
  [][\A p \in Peer : ~incomingActive[p] => disk'[p] = disk[p]]_vars

\* The transfers in the two directions implement FileCopy: a file is opened
\* only after its receiver has chosen a target, it is read chunk by chunk, and
\* the copy only ever grows, by the next chunk (FileHandler.cpp:163-238,
\* 240-283).  For users who offer and accept one file each.
FilesAreCopied ==
  ToServer!CopySpec /\ ToClient!CopySpec

(***************************************************************************)
(* Liveness.                                                               *)
(***************************************************************************)
\* p's user does not leave the question of UserAction open for ever: it holds
\* the receive thread, as api.cpp:81 notes.
QuestionsAnswered(p) == []<>(recvPc[p] # "askOverwrite")

\* A main thread that sends a file gets through, also when the other one sends a
\* file at the same time: the receive thread at the other end keeps the buffers
\* moving, if it is not left in UserAction (api.cpp:156-173, 82-99).
SendFileReturns ==
  \A p \in Peer :
    QuestionsAnswered(Other(p)) =>
      (mainPc[p] = "sendBegin" ~> mainPc[p] \notin {"sendBegin", "sendChunks"})

\* /stop reaches the client: its receive thread drains the stream, sees the
\* end of it and gives up the connection (ClientMod.cpp:93-97), if it is not
\* left in UserAction with frames still before it.
StopReachesClient ==
  QuestionsAnswered(Client) =>
    (~connected[Server] ~> (~connected[Client] \/ ~Alive(Client)))

\* "ENDING CONNECTION!" (ClientMod.cpp:253): the client ends.
EndCommandEnds == mainPc[Client] = "join" ~> ~Alive(Client)
=============================================================================
