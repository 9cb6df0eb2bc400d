----------------------------- MODULE Connection -----------------------------
(***************************************************************************)
(* The abstract specification of one direction of the connection: what the *)
(* threads of WireSend rely on when they send and receive whole packets.   *)
(* Its steps are the outcomes that Transport gives to SendPacket,          *)
(* RecievePacket, shutdown and close.                                      *)
(***************************************************************************)
EXTENDS Transport

CONSTANTS
  From,      \* the peer that sends; Other(From) receives
  Offered    \* the packets it may send

VARIABLE taken   \* how many packets the receive thread has been given

connectionVars == <<transportVars, taken>>

ConnectionInit == TransportInit /\ taken = 0

\* SendPacket returns 0, and the packet is delivered.
Deliver == \E pkt \in Offered : Delivered(From, pkt) /\ UNCHANGED <<sock, taken>>

\* RecievePacket has returned 0 for the header and for the body.
Take == Takes(Other(From)) /\ taken' = taken + 1 /\ UNCHANGED sock

\* RecievePacket returns 2: the stream has ended, and nothing is left of it.
\* The client then shuts its reading end.
SeeEnd ==
  /\ EndOfStream(Other(From))
  /\ Other(From) = Client
  /\ Shutdown(Client, "rdShut")
  /\ UNCHANGED <<wire, taken>>

\* RecievePacket returns -1: the client closes its socket, the server leaves
\* what it has not read.
SeeReset ==
  /\ ConnectionReset(Other(From))
  /\ wire' = [wire EXCEPT ![Other(From)] = <<>>]
  /\ sock' = [sock EXCEPT ![Other(From)] = IF Other(From) = Client
                                             THEN "closed" ELSE @]
  /\ UNCHANGED taken

\* The server shuts its writing end when it stops.
StopSending == Shutdown(From, "wrShut") /\ UNCHANGED <<wire, taken>>

\* A process ends.
Vanish == \E p \in Peer : Close(p) /\ UNCHANGED taken

ConnectionNext ==
  Deliver \/ Take \/ SeeEnd \/ SeeReset \/ StopSending \/ Vanish

ConnectionSpec == ConnectionInit /\ [][ConnectionNext]_connectionVars
=============================================================================
