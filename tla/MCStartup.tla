----------------------------- MODULE MCStartup ------------------------------
(***************************************************************************)
(* Instances of Startup for TLC: two hosts, the servers and clients on     *)
(* them and the command lines that they may be started with.               *)
(***************************************************************************)
EXTENDS Startup, TLC

CONSTANTS s1, s2, s3, c1, c2, h1, h2, lo, a1

\* Two servers share a host and its ports; the other host has no LAN address.
Placed == s1 :> h1 @@ s2 :> h2 @@ s3 :> h1 @@ c1 :> h2 @@ c2 :> h1
Lists == h1 :> <<lo, a1>> @@ h2 :> <<lo>>

Number(n) == [number |-> n, junk |-> FALSE]
Line(mode, count, address, port) ==
  [mode |-> mode, count |-> count, address |-> address, port |-> port]

\* A port in range, one that is not, a text that only begins as one; for the
\* client also a number that 16 bits cut to the first.
Good == Line("server", 3, NoAddress, Number(8080))
ServerLines ==
  {Good, Line("server", 3, NoAddress, Number(1023)),
   Line("server", 3, NoAddress, [number |-> 8080, junk |-> TRUE])}
ClientLines ==
  {Line("client", 4, a, Number(8080)) : a \in {a1, lo, Invalid}}
    \cup {Line("client", 4, a1, Number(8080 + 65536))}

AnyLines ==
  s1 :> {Good} @@ s2 :> {Line("server", 4, NoAddress, Number(8080))}
    @@ s3 :> ServerLines @@ c1 :> ClientLines
    @@ c2 :> {Line("client", 4, lo, Number(8080)),
              Line("client", 4, NoAddress, Number(8080)),
              Line("client", 3, a1, Number(0)), Line("other", 4, a1, Number(0))}
=============================================================================
