----------------------------- MODULE MCWireSend -----------------------------
(***************************************************************************)
(* Instances of WireSend for TLC: what the users type, the files they      *)
(* offer and the disks they start with.                                    *)
(***************************************************************************)
EXTENDS WireSend, TLC

\* How many chunks SendFile cuts every file into.
OneChunk == [f \in File |-> 1]
TwoChunks == [f \in File |-> 2]

\* The names that exist on the disks at the start.
NoOldNames == [p \in Peer |-> {}]
ClientOldNames == [p \in Peer |-> IF p = Client THEN Name ELSE {}]

\* The lines that a user types: Typing(counts)[l] is counts[l], or 0.
Typing(counts) ==
  [l \in Line |-> IF l \in DOMAIN counts THEN counts[l] ELSE 0]

Users(server, client) ==
  [p \in Peer |-> IF p = Server THEN Typing(server) ELSE Typing(client)]

\* The server offers a file, the client accepts it once; the server may stop and
\* the client may want to end at any time.
OneTransfer ==
  Users("/f" :> 1 @@ "Y" :> 1 @@ "/stop" :> 1,
        "/a" :> 1 @@ "N" :> 1 @@ "Y" :> 1 @@ "/~end~/" :> 1)

\* Both peers offer a file and both accept; the client has a line left for the
\* overwrite question.  Every line lets SendFile start, so /f and /a are enough
\* for it.
BothOffer ==
  Users("/f" :> 1 @@ "Y" :> 1 @@ "/a" :> 1,
        "/f" :> 1 @@ "Y" :> 1 @@ "/a" :> 1 @@ "N" :> 1)

\* The client offers twice; the server may accept twice and reject.
Repeated ==
  Users("/a" :> 2 @@ "/r" :> 1 @@ "Y" :> 1,
        "/f" :> 2 @@ "Y" :> 2)

\* The server offers twice; the client accepts once.
OfferedTwice == Users("/f" :> 2 @@ "Y" :> 2, "/a" :> 1)

\* The server offers a file; the client accepts it and then rejects it.
AcceptThenReject ==
  Users("/f" :> 1 @@ "Y" :> 1 @@ "text" :> 1, "/a" :> 1 @@ "/r" :> 1)

\* The client wants to end while the server chats.
Ending == Users("text" :> 1, "/~end~/" :> 1)

=============================================================================
