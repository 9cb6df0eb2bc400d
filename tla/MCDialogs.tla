----------------------------- MODULE MCDialogs ------------------------------
(***************************************************************************)
(* Instances of Dialogs for TLC: the environments of the processes.        *)
(***************************************************************************)
EXTENDS Dialogs, TLC

Environment(graphic, kde, tty, ssh) ==
  [graphic |-> graphic, kde |-> kde, mac |-> FALSE, ssh |-> ssh, tty |-> tty]

\* KDE with a terminal; another desktop, with the output in a file; a remote
\* login with no display; a host without graphics.
Plasma == Environment(TRUE, TRUE, TRUE, FALSE)
Redirected == Environment(TRUE, FALSE, FALSE, FALSE)
Remote == Environment(FALSE, FALSE, TRUE, TRUE)
Console == Environment(FALSE, FALSE, TRUE, FALSE)

AnySetting == [p \in Process |-> {Plasma, Redirected, Remote}]
ConsoleOnly == [p \in Process |-> {Console}]
=============================================================================
