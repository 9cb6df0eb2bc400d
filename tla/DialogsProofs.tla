--------------------------- MODULE DialogsProofs ----------------------------
(***************************************************************************)
(* Theorems about Dialogs: types, the dialog that a process uses, what     *)
(* stays in /tmp/tinyfd.txt and what an answer can be.                     *)
(***************************************************************************)
EXTENDS Dialogs, TLAPS

USE DEF NoDir, NoName, Absent

-----------------------------------------------------------------------------
(***************************************************************************)
(* The order of the programs.                                              *)
(***************************************************************************)
Tool == Pickers \cup InputTools

\* Every program has its own place in the order of a kind of dialog.
LEMMA OrderIsTotal ==
  ASSUME NEW kind \in Kind
  PROVE  /\ \A t \in Tool : Order(kind)[t] \in Nat
         /\ \A t, u \in Tool : Order(kind)[t] = Order(kind)[u] => t = u
  BY DEF Order, SaveOrder, OpenOrder, InputOrder, Tool, Pickers, InputTools, Kind

\* A program that has been looked for keeps its value.
LEMMA ValueKept ==
  ASSUME NEW p \in Process, NEW t \in Program,
         presence \in [Process -> [Program -> {-1, 0, 1}]],
         presence[p][t] # -1
  PROVE  Value(p, t) = presence[p][t]
  BY DEF Value, kdialogFound, Found

LEMMA ValueType ==
  ASSUME NEW p \in Process, NEW t \in Program
  PROVE  Value(p, t) \in {0, 1}
  BY DEF Value

LEMMA AskedAreTools ==
  \A p, kind : Asked(p, kind) \subseteq Tool /\ Candidates(p) \subseteq Tool
  BY DEF Asked, Looked, Candidates, Tool

\* The program that asks is one of those looked for; without one, no program.
LEMMA BackendFound ==
  ASSUME NEW p, NEW kind
  PROVE  \/ Backend(p, kind) \in Asked(p, kind) /\ Present(p, Backend(p, kind))
         \/ /\ \A t \in Asked(p, kind) : ~Present(p, t)
            /\ Backend(p, kind) = IF ~Warned(p) /\ ~env[p].tty THEN "none"
                                  ELSE "console"
  <1> DEFINE found == {t \in Asked(p, kind) : Present(p, t)}
  <1>1. CASE found # {}
    <2>1. Backend(p, kind) = CHOOSE t \in found : TRUE
      BY <1>1 DEF Backend
    <2> QED
      BY <1>1, <2>1
  <1>2. CASE found = {}
    BY <1>2 DEF Backend
  <1> QED
    BY <1>1, <1>2

LEMMA BackendType ==
  ASSUME NEW p \in Process, NEW kind \in Kind
  PROVE  /\ Backend(p, kind) \in Tool \cup {"none", "console"}
         /\ Backend(p, kind) = "none" => ~Warned(p)
  <1>1. "none" \notin Tool
    BY DEF Tool, Pickers, InputTools
  <1> QED
    BY <1>1, BackendFound, AskedAreTools

-----------------------------------------------------------------------------
(***************************************************************************)
(* Types, and how far a call has got.                                      *)
(***************************************************************************)
Warning == Typed("shell", NoDir, "warning")

\* What each point of a call says about its program and its output.
Shape(d) ==
  /\ d.pc = "shown" => /\ d.via \in Tool
                       /\ d.out = <<>> \/ (d.via = "Xdialog" /\ d.out = <<Warning>>)
  /\ d.pc \in {"idle", "warn", "written", "console", "again"} => d.out = <<>>
  /\ d.pc = "warn" => d.via \in {"none", "terminal", "console"}
  /\ d.pc = "written" => d.via \in FileTools
  /\ d.pc \in {"console", "again"} => d.via = "console"

TInv ==
  /\ TypeOK
  /\ Len(tmp) <= 1
  /\ \A p \in Process : Shape(dialog[p])

LEMMA Lines ==
  /\ Blank \in Line /\ Warning \in Line
  /\ \A p \in Process \cup Others, dir \in Dir \cup {NoDir},
        name \in Name \cup {NoName, "^["} : Typed(p, dir, name) \in Line
  /\ Typed("shell", NoDir, "27") \in Line
  /\ \A line \in Line : One(line) \in Line /\ Text(line) \in Line
  BY DEF Blank, Warning, Line, Typed, One, Text

LEMMA OneLine ==
  ASSUME NEW line \in Line
  PROVE  <<line>> \in Seq(Line) /\ Len(<<line>>) = 1 /\ <<line>>[1] = line
  <1>1. <<line>> \in Seq(Line)
    OBVIOUS
  <1>2. Len(<<line>>) = 1 /\ <<line>>[1] = line
    OBVIOUS
  <1> QED
    BY <1>1, <1>2

LEMMA TInvInit == Init => TInv
  <1> SUFFICES ASSUME Init PROVE TInv
    OBVIOUS
  <1>1. NoCall \in Call /\ Shape(NoCall) /\ Len(NoCall.out) <= 2
    <2>1. <<>> \in Seq(Line)
      OBVIOUS
    <2>2. NoCall.out = <<>> /\ NoCall.pc = "idle"
      BY DEF NoCall
    <2>3. NoCall \in Call
      BY <2>1, Lines DEF NoCall, Call, Kind
    <2> QED
      BY <2>2, <2>3 DEF Shape
  <1>2. dialog \in [Process -> Call]
        /\ \A p \in Process : Len(dialog[p].out) <= 2 /\ Shape(dialog[p])
    BY <1>1 DEF Init
  <1>3. DOMAIN env = Process /\ \A p \in Process : env[p] \in Settings[p]
    BY DEF Init
  <1>4. installed \subseteq Tools /\ dirs \subseteq Dir /\ files \subseteq File
    BY DEF Init
  <1>5. tmp \in Seq(Line) /\ Len(tmp) <= 1
    <2>1. tmp = <<>>
      BY DEF Init
    <2>2. <<>> \in Seq(Line)
      OBVIOUS
    <2>3. Len(<<>>) = 0
      OBVIOUS
    <2> QED
      BY <2>1, <2>2, <2>3
  <1> QED
    BY <1>2, <1>3, <1>4, <1>5, Lines DEF Init, TInv, TypeOK

\* The types of everything but the calls.
TypeRest ==
  /\ DOMAIN env = Process /\ \A p \in Process : env[p] \in Settings[p]
  /\ installed \subseteq Tools
  /\ presence \in [Process -> [Program -> {-1, 0, 1}]]
  /\ warned \in [Process -> BOOLEAN]
  /\ buff \in [Process -> Line]
  /\ result \in [Process -> Line] /\ target \in [Process -> Line]
  /\ used \in [Process -> [Kind -> Program \cup {"none", "console"}]]
  /\ tmp \in Seq(Line) /\ Len(tmp) <= 1
  /\ dirs \subseteq Dir /\ files \subseteq File

\* One process gets on with its call.
LEMMA CallStep ==
  ASSUME TInv, NEW p \in Process, NEW d \in Call,
         Shape(d), Len(d.out) <= 2, TypeRest',
         dialog' = [dialog EXCEPT ![p] = d]
  PROVE  TInv'
  <1>1. dialog' \in [Process -> Call]
    BY DEF TInv, TypeOK
  <1>2. \A q \in Process : dialog'[q] = IF q = p THEN d ELSE dialog[q]
    BY DEF TInv, TypeOK
  <1>3. \A q \in Process : Len(dialog'[q].out) <= 2 /\ Shape(dialog'[q])
    BY <1>2 DEF TInv, TypeOK
  <1> QED
    BY <1>1, <1>3 DEF TInv, TypeOK, TypeRest, Shape

LEMMA RestKept == TInv => TypeRest
  BY DEF TInv, TypeOK, TypeRest

LEMMA Fields ==
  ASSUME TInv, NEW p \in Process
  PROVE  /\ dialog[p] \in Call /\ Shape(dialog[p]) /\ Len(dialog[p].out) <= 2
         /\ dialog[p].out \in Seq(Line) /\ dialog[p].chosen \in Line
         /\ dialog[p].kind \in Kind
  BY DEF TInv, TypeOK, Call

LEMMA FileDialogTyped ==
  ASSUME TInv, NEW p \in Process, NEW kind \in Kind, FileDialog(p, kind)
  PROVE  TInv'
  <1> DEFINE via == Backend(p, kind)
             warns == Warns(p, via)
             d == [NoCall EXCEPT !.kind = kind, !.via = via,
                     !.pc = IF warns THEN "warn"
                            ELSE IF via = "console" THEN "console" ELSE "shown"]
  <1>1. dialog' = [dialog EXCEPT ![p] = d]
    BY DEF FileDialog
  <1>2. /\ via \in Tool \cup {"none", "console"}
        /\ via = "none" => warns
        /\ warns => via \in {"none", "terminal", "console"}
    BY BackendType DEF Warns
  <1> HIDE DEF via
  <1>3. d \in Call /\ Shape(d) /\ Len(d.out) <= 2
    <2>1. /\ d.out = <<>> /\ d.kind = kind /\ d.via = via /\ d.chosen = Blank
          /\ d.pc = IF warns THEN "warn"
                    ELSE IF via = "console" THEN "console" ELSE "shown"
      BY DEF NoCall
    <2>2. d \in Call
      <3>1. /\ (IF warns THEN "warn" ELSE IF via = "console" THEN "console"
                 ELSE "shown") \in {"warn", "console", "shown"}
            /\ via \in Program \cup {"none", "console"}
            /\ <<>> \in Seq(Line)
        BY <1>2 DEF Tool, Program
      <3> HIDE DEF warns
      <3> QED
        BY <3>1, Lines DEF NoCall, Call
    <2>3. Shape(d)
      <3> HIDE DEF warns
      <3> QED
        BY <1>2, <2>1 DEF Shape
    <2> QED
      BY <2>1, <2>2, <2>3
  <1>4. TypeRest'
    <2>1. presence' \in [Process -> [Program -> {-1, 0, 1}]]
      BY ValueType DEF FileDialog, TInv, TypeOK
    <2>2. warned' \in [Process -> BOOLEAN]
      <3> DEFINE b == Warned(p) \/ warns
      <3>1. b \in BOOLEAN
        BY DEF Warns
      <3>2. warned' = [warned EXCEPT ![p] = b]
        BY DEF FileDialog, via
      <3> HIDE DEF b
      <3> QED
        BY <3>1, <3>2 DEF TInv, TypeOK
    <2>3. used' \in [Process -> [Kind -> Program \cup {"none", "console"}]]
      BY <1>2 DEF FileDialog, TInv, TypeOK, Tool, Program, via
    <2>4. buff' \in [Process -> Line]
      BY Lines DEF FileDialog, TInv, TypeOK, Cleared
    <2>5. tmp' \in Seq(Line) /\ Len(tmp') <= 1
      <3> DEFINE line == Typed(p, NoDir, NoName)
      <3>1. line \in Line
        BY Lines
      <3> HIDE DEF line
      <3>2. <<line>> \in Seq(Line) /\ Len(<<line>>) = 1
        BY <3>1, OneLine
      <3>3. tmp' = <<line>> \/ tmp' = tmp
        BY DEF FileDialog, Started, line
      <3>4. tmp \in Seq(Line) /\ Len(tmp) <= 1
        BY RestKept DEF TypeRest
      <3>5. CASE tmp' = tmp
        BY <3>4, <3>5
      <3>6. CASE tmp' = <<line>>
        <4>1. Len(tmp') = 1 /\ tmp' \in Seq(Line)
          BY <3>2, <3>6
        <4> QED
          BY <4>1
      <3> QED
        BY <3>3, <3>5, <3>6
    <2> QED
      BY <2>1, <2>2, <2>3, <2>4, <2>5, Lines
      DEF FileDialog, TInv, TypeOK, TypeRest, host
  <1> HIDE DEF d
  <1> QED
    BY <1>1, <1>3, <1>4, CallStep

LEMMA DismissTyped ==
  ASSUME TInv, NEW p \in Process, Dismiss(p)
  PROVE  TInv'
  <1> DEFINE via == dialog[p].via
             d == [dialog[p] EXCEPT !.pc =
                     CASE via = "none" -> "idle" [] via = "console" -> "console"
                       [] OTHER -> "shown"]
  <1>1. dialog' = [dialog EXCEPT ![p] = d]
    BY Fields DEF Dismiss
  <1>2. d \in Call /\ Shape(d) /\ Len(d.out) <= 2
    BY Fields DEF Dismiss, Call, Shape, Tool, InputTools
  <1>3. TypeRest'
    BY DEF Dismiss, TInv, TypeOK, TypeRest, host, caches
  <1> HIDE DEF d
  <1> QED
    BY <1>1, <1>2, <1>3, CallStep

LEMMA Small == ASSUME NEW n \in Nat, n <= 1 PROVE n \in {0, 1}
  OBVIOUS

LEMMA SmallSum == \A m, n \in {0, 1} : m + n <= 2
  OBVIOUS

\* A program that closes: its output is no longer than two lines.
LEMMA ClosesTyped ==
  ASSUME TInv, NEW p \in Process, NEW call \in Call, NEW printed \in Seq(Line),
         Len(call.out) \in {0, 1}, Len(printed) \in {0, 1}, Closes(p, call, printed), TypeRest'
  PROVE  TInv'
  <1> DEFINE out == call.out \o printed
             d == [call EXCEPT !.pc = "closed", !.out = out]
  <1>1. dialog' = [dialog EXCEPT ![p] = d]
    BY DEF Closes
  <1>2. call.out \in Seq(Line)
    BY DEF Call
  <1>3. out \in Seq(Line) /\ Len(out) <= 2
    <2>1. out \in Seq(Line)
      BY <1>2
    <2>2. Len(out) = Len(call.out) + Len(printed)
      BY <1>2
    <2> HIDE DEF out
    <2> QED
      BY <2>1, <2>2, SmallSum
  <1> HIDE DEF out
  <1>4. d \in Call /\ d.out = out /\ d.pc = "closed"
    BY <1>3 DEF Call
  <1>5. Shape(d)
    BY <1>4 DEF Shape
  <1> HIDE DEF d
  <1> QED
    BY <1>1, <1>3, <1>4, <1>5, CallStep

\* A call that returns.
LEMMA ReturnsTyped ==
  ASSUME TInv, NEW p \in Process, NEW call \in Call, NEW answer \in Line,
         Returns(p, call, answer), UNCHANGED <<env, host, caches>>,
         buff' \in [Process -> Line],
         tmp' = tmp \/ tmp' = <<>>
  PROVE  TInv'
  <1> DEFINE d == [call EXCEPT !.pc = "idle", !.out = <<>>]
  <1>1. dialog' = [dialog EXCEPT ![p] = d]
    BY DEF Returns
  <1>2. d \in Call /\ d.out = <<>> /\ d.pc = "idle"
    <2>1. <<>> \in Seq(Line)
      OBVIOUS
    <2> QED
      BY <2>1 DEF Call
  <1>3. Shape(d) /\ Len(d.out) <= 2
    BY <1>2 DEF Shape
  <1>4. TypeRest'
    <2>1. result' \in [Process -> Line] /\ target' \in [Process -> Line]
      BY RestKept DEF TypeRest, Returns
    <2>2. tmp' \in Seq(Line) /\ Len(tmp') <= 1
      <3>1. tmp \in Seq(Line) /\ Len(tmp) <= 1
        BY RestKept DEF TypeRest
      <3>2. CASE tmp' = tmp
        BY <3>1, <3>2
      <3>3. CASE tmp' = <<>>
        <4>1. tmp' \in Seq(Line)
          BY <3>3
        <4>2. Len(tmp') = 0
          BY <3>3
        <4> QED
          BY <4>1, <4>2
      <3> QED
        BY <3>2, <3>3
    <2> QED
      BY <2>1, <2>2, RestKept DEF TypeRest, host, caches
  <1> HIDE DEF d
  <1> QED
    BY <1>1, <1>2, <1>3, <1>4, CallStep

\* What the user chooses becomes part of the call.
LEMMA ChosenTyped ==
  ASSUME TInv, NEW p \in Process, NEW line \in Line
  PROVE  LET call == [dialog[p] EXCEPT !.chosen = line]
         IN  call \in Call /\ call.out = dialog[p].out /\ call.pc = dialog[p].pc
             /\ call.via = dialog[p].via /\ call.kind = dialog[p].kind
  BY Fields DEF Call

\* A dialog that is shown has printed one line at most.
LEMMA ShownOut ==
  ASSUME TInv, NEW p \in Process, dialog[p].pc \in {"shown", "written"}
  PROVE  Len(dialog[p].out) \in {0, 1}
  <1>1. dialog[p].out = <<>> \/ dialog[p].out = <<Warning>>
    BY Fields DEF Shape
  <1>2. CASE dialog[p].out = <<>>
    <2>1. Len(dialog[p].out) = 0
      BY <1>2
    <2> QED
      BY <2>1
  <1>3. CASE dialog[p].out = <<Warning>>
    <2>1. Len(dialog[p].out) = 1
      BY <1>3
    <2> QED
      BY <2>1
  <1> QED
    BY <1>1, <1>2, <1>3

LEMMA TmpTyped ==
  ASSUME TInv, UNCHANGED <<env, host, caches, buff, result, target>>,
         tmp' = tmp \/ \E line \in Line : tmp' = <<line>>
  PROVE  TypeRest'
  <1>1. tmp' \in Seq(Line) /\ Len(tmp') <= 1
    <2>1. tmp \in Seq(Line) /\ Len(tmp) <= 1
      BY RestKept DEF TypeRest
    <2>2. CASE tmp' = tmp
      BY <2>1, <2>2
    <2>3. CASE \E line \in Line : tmp' = <<line>>
      <3>1. PICK line \in Line : tmp' = <<line>>
        BY <2>3
      <3>2. <<line>> \in Seq(Line) /\ Len(<<line>>) = 1
        BY OneLine
      <3> QED
        BY <3>1, <3>2
    <2> QED
      BY <2>2, <2>3
  <1> QED
    BY <1>1, RestKept DEF TypeRest, host, caches

LEMMA PickTyped ==
  ASSUME TInv, NEW p \in Process, NEW dir \in Dir \cup {NoDir},
         NEW name \in Name, Pick(p, dir, name)
  PROVE  TInv'
  <1> DEFINE line == Typed(p, dir, name)
             call == [dialog[p] EXCEPT !.chosen = line]
             via == dialog[p].via
  <1>1. line \in Line /\ One(line) \in Line
    BY Lines
  <1>2. /\ dialog[p].pc = "shown"
        /\ IF via \in FileTools
             THEN dialog' = [dialog EXCEPT ![p] =
                               [call EXCEPT !.pc = "written", !.ok = TRUE]]
             ELSE Closes(p, call, <<IF via \in Pickers THEN line ELSE One(line)>>)
        /\ tmp' = tmp \/ tmp' = <<line>> \/ tmp' = <<One(line)>>
        /\ UNCHANGED <<env, host, caches, buff, result, target>>
    BY DEF Pick
  <1> HIDE DEF line
  <1>3. TypeRest'
    BY <1>1, <1>2, TmpTyped
  <1>4. call \in Call /\ call.out = dialog[p].out /\ call.via = via
    BY <1>1, ChosenTyped
  <1>5. CASE via \in FileTools
    <2> DEFINE d == [call EXCEPT !.pc = "written", !.ok = TRUE]
    <2> HIDE DEF call
    <2>1. d \in Call
      BY <1>4 DEF Call
    <2>2. d.out = dialog[p].out /\ d.pc = "written" /\ d.via = via
      BY <1>4 DEF Call
    <2>4. via \in Tool /\ via # "Xdialog" /\ dialog[p].out = <<>>
      BY <1>2, <1>5, Fields DEF Shape, FileTools
    <2>5. Len(d.out) <= 2 /\ Shape(d)
      BY <2>2, <2>4, <1>5, Fields DEF Shape
    <2> HIDE DEF d
    <2>3. dialog' = [dialog EXCEPT ![p] = d]
      BY <1>2, <1>5 DEF d
    <2> QED
      BY <1>3, <2>1, <2>5, <2>3, CallStep
  <1>6. CASE via \notin FileTools
    <2> DEFINE x == IF via \in Pickers THEN line ELSE One(line)
    <2>1. x \in Line
      BY <1>1
    <2> HIDE DEF x, call
    <2>2. <<x>> \in Seq(Line) /\ Len(<<x>>) = 1
      BY <2>1, OneLine
    <2>3. Len(call.out) \in {0, 1}
      BY <1>2, <1>4, ShownOut
    <2>5. Closes(p, call, <<x>>)
      BY <1>2, <1>6 DEF x
    <2> QED
      BY <1>3, <1>4, <2>2, <2>3, <2>5, ClosesTyped
  <1> QED
    BY <1>5, <1>6

\* Closing with nothing or with one line, the call otherwise unchanged.
LEMMA ClosesShown ==
  ASSUME TInv, NEW p \in Process, dialog[p].pc \in {"shown", "written"},
         NEW printed \in Seq(Line), Len(printed) \in {0, 1},
         Closes(p, dialog[p], printed),
         UNCHANGED <<env, host, caches, buff, result, target, tmp>>
  PROVE  TInv'
  <1>1. TypeRest'
    BY TmpTyped
  <1> QED
    BY <1>1, Fields, ShownOut, ClosesTyped

LEMMA NoLine == <<>> \in Seq(Line) /\ Len(<<>>) = 0
  <1>1. <<>> \in Seq(Line)
    OBVIOUS
  <1>2. Len(<<>>) = 0
    OBVIOUS
  <1> QED
    BY <1>1, <1>2

\* An answer by way of /tmp/tinyfd.txt, written or given up.
LEMMA WrittenTyped ==
  ASSUME TInv, NEW p \in Process, dialog[p].pc = "shown",
         dialog[p].via \in FileTools,
         dialog' = [dialog EXCEPT ![p].pc = "written"], TypeRest'
  PROVE  TInv'
  <1> DEFINE d == [dialog[p] EXCEPT !.pc = "written"]
  <1>1. dialog' = [dialog EXCEPT ![p] = d]
    BY Fields
  <1>2. d \in Call /\ d.out = dialog[p].out /\ d.pc = "written"
        /\ d.via = dialog[p].via
    BY Fields DEF Call
  <1>3. dialog[p].out = <<>>
    BY Fields DEF Shape, FileTools
  <1>4. Len(d.out) <= 2 /\ Shape(d)
    BY <1>2, <1>3, Fields DEF Shape
  <1> HIDE DEF d
  <1> QED
    BY <1>1, <1>2, <1>4, CallStep

\* What a program prints without a choice.
LEMMA CancelledLine ==
  \A kind, via : Cancelled(kind, via) \subseteq {<<>>, <<Blank>>}
  BY DEF Cancelled, SaveCancelled, OpenCancelled

LEMMA CancelTyped ==
  ASSUME TInv, NEW p \in Process, Cancel(p)
  PROVE  TInv'
  <1>1. /\ dialog[p].pc = "shown"
        /\ UNCHANGED <<env, host, caches, buff, result, target, tmp>>
        /\ \/ Closes(p, dialog[p], <<>>)
           \/ /\ dialog[p].via \in FileTools
              /\ dialog' = [dialog EXCEPT ![p].pc = "written"]
           \/ Closes(p, dialog[p], <<Blank>>)
    BY CancelledLine DEF Cancel
  <1>2. TypeRest'
    BY <1>1, TmpTyped
  <1>3. CASE Closes(p, dialog[p], <<>>)
    BY <1>1, <1>3, NoLine, ClosesShown
  <1>4. CASE Closes(p, dialog[p], <<Blank>>)
    <2>1. <<Blank>> \in Seq(Line) /\ Len(<<Blank>>) = 1
      BY Lines, OneLine
    <2> QED
      BY <1>1, <1>4, <2>1, ClosesShown
  <1>5. CASE /\ dialog[p].via \in FileTools
             /\ dialog' = [dialog EXCEPT ![p].pc = "written"]
    BY <1>1, <1>2, <1>5, WrittenTyped
  <1> QED
    BY <1>1, <1>3, <1>4, <1>5

LEMMA EscapeTyped ==
  ASSUME TInv, NEW p \in Process, Escape(p)
  PROVE  TInv'
  <1> DEFINE line == One(Typed(p, NoDir, "^["))
  <1>1. line \in Line
    BY Lines
  <1>2. /\ dialog[p].pc = "shown" /\ dialog[p].via \in FileTools
        /\ dialog' = [dialog EXCEPT ![p].pc = "written"]
        /\ tmp' = <<line>>
        /\ UNCHANGED <<env, host, caches, buff, result, target>>
    BY DEF Escape, FileTools
  <1> HIDE DEF line
  <1>3. TypeRest'
    BY <1>1, <1>2, TmpTyped
  <1> QED
    BY <1>2, <1>3, WrittenTyped

LEMMA ExitStatusTyped ==
  ASSUME TInv, NEW p \in Process, ExitStatus(p)
  PROVE  TInv'
  <1> DEFINE line == One(Typed("shell", NoDir, "27"))
  <1>1. line \in Line
    BY Lines
  <1>2. /\ dialog[p].pc = "shown" /\ Closes(p, dialog[p], <<line>>)
        /\ UNCHANGED <<env, host, caches, buff, result, target, tmp>>
    BY DEF ExitStatus
  <1> HIDE DEF line
  <1>3. <<line>> \in Seq(Line) /\ Len(<<line>>) = 1
    BY <1>1, OneLine
  <1> QED
    BY <1>2, <1>3, ClosesShown

LEMMA ComplainTyped ==
  ASSUME TInv, NEW p \in Process, Complain(p)
  PROVE  TInv'
  <1> DEFINE d == [dialog[p] EXCEPT !.out = <<Warning>>]
  <1>1. /\ dialog[p].pc = "shown" /\ dialog[p].via = "Xdialog"
        /\ dialog' = [dialog EXCEPT ![p].out = <<Warning>>]
        /\ UNCHANGED <<env, host, caches, buff, result, target, tmp>>
    BY DEF Complain, Warning
  <1>2. dialog' = [dialog EXCEPT ![p] = d]
    BY <1>1, Fields
  <1>3. <<Warning>> \in Seq(Line) /\ Len(<<Warning>>) = 1
    BY Lines, OneLine
  <1> HIDE DEF Warning
  <1>4. d \in Call /\ d.out = <<Warning>> /\ d.pc = "shown" /\ d.via = "Xdialog"
    BY <1>1, <1>3, Fields DEF Call
  <1>5. Shape(d) /\ Len(d.out) <= 2
    BY <1>3, <1>4 DEF Shape, Tool, Pickers
  <1>6. TypeRest'
    BY <1>1, TmpTyped
  <1> HIDE DEF d
  <1> QED
    BY <1>2, <1>4, <1>5, <1>6, CallStep

LEMMA CatTyped ==
  ASSUME TInv, NEW p \in Process, Cat(p)
  PROVE  TInv'
  <1> DEFINE x == [(IF tmp = Absent THEN Blank ELSE tmp[1]) EXCEPT
                     !.one = dialog[p].ok]
             printed == IF dialog[p].via = "terminal" THEN tmp ELSE <<x>>
  <1>1. /\ dialog[p].pc = "written" /\ Closes(p, dialog[p], printed)
        /\ UNCHANGED <<env, host, caches, buff, result, target, tmp>>
    BY DEF Cat
  <1>2. tmp \in Seq(Line) /\ Len(tmp) \in {0, 1}
    <2>1. tmp \in Seq(Line) /\ Len(tmp) <= 1
      BY RestKept DEF TypeRest
    <2>2. Len(tmp) \in Nat
      BY <2>1
    <2> QED
      BY <2>1, <2>2, Small
  <1>3. x \in Line
    <2>1. (IF tmp = Absent THEN Blank ELSE tmp[1]) \in Line
      <3>1. tmp # <<>> => tmp[1] \in Line
        BY <1>2
      <3> QED
        BY <3>1, Lines
    <2>2. dialog[p].ok \in BOOLEAN
      BY Fields DEF Call
    <2> QED
      BY <2>1, <2>2 DEF Line
  <1> HIDE DEF x
  <1>4. <<x>> \in Seq(Line) /\ Len(<<x>>) = 1
    BY <1>3, OneLine
  <1>5. printed \in Seq(Line) /\ Len(printed) \in {0, 1}
    <2>1. CASE dialog[p].via = "terminal"
      BY <1>2, <2>1
    <2>2. CASE dialog[p].via # "terminal"
      BY <1>4, <2>2
    <2> QED
      BY <2>1, <2>2
  <1> HIDE DEF printed
  <1> QED
    BY <1>1, <1>5, ClosesShown

\* What is read is a line.
LEMMA ReadType ==
  ASSUME TInv, NEW p \in Process, NEW old \in Line
  PROVE  LastLine(dialog[p].out, old) \in Line /\ AllLines(dialog[p].out) \in Line
  <1> DEFINE out == dialog[p].out
  <1>1. out \in Seq(Line)
    BY Fields
  <1> HIDE DEF out
  <1>2. out # <<>> => out[Len(out)] \in Line
    <2>1. out # <<>> => Len(out) \in 1..Len(out)
      BY <1>1
    <2> QED
      BY <1>1, <2>1
  <1>3. Len(out) = 1 => out[1] \in Line
    BY <1>1
  <1> QED
    BY <1>2, <1>3, Lines DEF LastLine, AllLines, out

\* An answer is the line that was read, or none.
LEMMA AnswerType ==
  ASSUME NEW kind, NEW line \in Line
  PROVE  /\ SavedPath(line) \in {line, Blank} /\ Opened(line) \in {line, Blank}
         /\ TextAnswer(kind, line) \in {line, Blank}
  BY DEF SavedPath, SavedText, Opened, TextAnswer

LEMMA BuffType ==
  ASSUME TInv, NEW p \in Process
  PROVE  buff[p] \in Line
  BY RestKept DEF TypeRest

LEMMA ReturnSavedTyped ==
  ASSUME TInv, NEW p \in Process, ReturnSaved(p)
  PROVE  TInv'
  <1> DEFINE d == dialog[p]
             read == LastLine(d.out, buff[p])
             answer == SavedPath(read)
  <1>1. /\ buff' = [buff EXCEPT ![p] = read]
        /\ Returns(p, d, answer)
        /\ UNCHANGED <<env, host, caches, tmp>>
    BY DEF ReturnSaved
  <1>2. read \in Line
    BY ReadType, BuffType
  <1> HIDE DEF read
  <1>3. answer \in Line /\ d \in Call
    BY <1>2, AnswerType, Lines, Fields
  <1>4. buff' \in [Process -> Line]
    BY <1>1, <1>2, RestKept DEF TypeRest
  <1> HIDE DEF answer
  <1> QED
    BY <1>1, <1>3, <1>4, ReturnsTyped

LEMMA ReturnOpenedTyped ==
  ASSUME TInv, NEW p \in Process, ReturnOpened(p)
  PROVE  TInv'
  <1> DEFINE d == dialog[p]
             answer == Opened(AllLines(d.out))
  <1>1. /\ Returns(p, d, answer)
        /\ UNCHANGED <<env, host, caches, buff, tmp>>
    BY DEF ReturnOpened
  <1>2. answer \in Line /\ d \in Call
    BY ReadType, AnswerType, Lines, Fields
  <1>3. buff' \in [Process -> Line]
    BY <1>1, RestKept DEF TypeRest
  <1> HIDE DEF answer
  <1> QED
    BY <1>1, <1>2, <1>3, ReturnsTyped

LEMMA ReturnsTextTyped ==
  ASSUME TInv, NEW p \in Process, NEW call \in Call, NEW text \in Line,
         ReturnsText(p, call, text), UNCHANGED <<env, host, caches>>,
         tmp' = tmp \/ tmp' = <<>>
  PROVE  TInv'
  <1> DEFINE answer == TextAnswer(call.kind, text)
  <1>1. /\ buff' = IF call.kind = "save" THEN [buff EXCEPT ![p] = text] ELSE buff
        /\ Returns(p, call, answer)
    BY DEF ReturnsText
  <1>2. answer \in Line
    BY AnswerType, Lines
  <1>3. buff' \in [Process -> Line]
    BY <1>1, RestKept DEF TypeRest
  <1> HIDE DEF answer
  <1> QED
    BY <1>1, <1>2, <1>3, ReturnsTyped

LEMMA ReturnTextTyped ==
  ASSUME TInv, NEW p \in Process, ReturnText(p)
  PROVE  TInv'
  <1> DEFINE d == dialog[p]
             read == LastLine(d.out, Blank)
             text == IF read.one /\ read.name # "^[" THEN Text(read) ELSE Blank
  <1>1. /\ tmp' = <<>> /\ ReturnsText(p, d, text)
        /\ UNCHANGED <<env, host, caches>>
    BY DEF ReturnText, Removed
  <1>2. read \in Line
    BY ReadType, Lines
  <1> HIDE DEF read
  <1>3. text \in Line /\ d \in Call
    BY <1>2, Lines, Fields
  <1> HIDE DEF text
  <1> QED
    BY <1>1, <1>3, ReturnsTextTyped

LEMMA TypeTextTyped ==
  ASSUME TInv, NEW p \in Process, NEW dir \in Dir \cup {NoDir},
         NEW name \in Name, TypeText(p, dir, name)
  PROVE  TInv'
  <1> DEFINE line == Typed(p, dir, name)
             call == [dialog[p] EXCEPT !.chosen = line]
  <1>1. ReturnsText(p, call, line) /\ UNCHANGED <<env, host, caches, tmp>>
    BY DEF TypeText
  <1>2. line \in Line
    BY Lines
  <1> HIDE DEF line
  <1>3. call \in Call
    BY <1>2, ChosenTyped
  <1> HIDE DEF call
  <1> QED
    BY <1>1, <1>2, <1>3, ReturnsTextTyped

LEMMA NoTextTyped ==
  ASSUME TInv, NEW p \in Process, NoText(p)
  PROVE  TInv'
  <1>1. /\ ReturnsText(p, dialog[p], Blank)
        /\ UNCHANGED <<env, host, caches, tmp>>
    BY DEF NoText
  <1> QED
    BY <1>1, Lines, Fields, ReturnsTextTyped

\* A step that only moves the call to another point.
LEMMA PointTyped ==
  ASSUME TInv, NEW p \in Process, NEW pc \in {"again", "ended", "cut off"},
         pc = "again" => dialog[p].pc = "console",
         dialog' = [dialog EXCEPT ![p].pc = pc],
         UNCHANGED <<env, host, caches, buff, result, target, tmp>>
  PROVE  TInv'
  <1> DEFINE d == [dialog[p] EXCEPT !.pc = pc]
  <1>1. dialog' = [dialog EXCEPT ![p] = d]
    BY Fields
  <1>2. d \in Call /\ d.out = dialog[p].out /\ d.pc = pc /\ d.via = dialog[p].via
    BY Fields DEF Call
  <1>3. Len(d.out) <= 2 /\ Shape(d)
    BY <1>2, Fields DEF Shape
  <1>4. TypeRest'
    BY TmpTyped
  <1> HIDE DEF d
  <1> QED
    BY <1>1, <1>2, <1>3, <1>4, CallStep

\* What happens outside the processes.
LEMMA OutsideTyped ==
  ASSUME TInv, UNCHANGED <<env, caches, dialog, buff, result, target>>, TypeRest'
  PROVE  TInv'
  BY DEF TInv, TypeOK, TypeRest, Shape

LEMMA OtherTyped ==
  ASSUME TInv, NEW q \in Others, OtherDialog(q)
  PROVE  TInv'
  <1>1. CASE tmp' = <<>>
    <2>1. tmp' \in Seq(Line)
      BY <1>1
    <2>2. Len(tmp') = 0
      BY <1>1
    <2>3. TypeRest'
      BY <2>1, <2>2, RestKept DEF TypeRest, OtherDialog, host, caches
    <2> QED
      BY <2>3, OutsideTyped DEF OtherDialog
  <1>2. CASE \E dir \in Dir, name \in Name :
               tmp' = <<[Typed(q, dir, name) EXCEPT !.one = "gdialog" \notin installed]>>
    <2>1. PICK dir \in Dir, name \in Name :
            tmp' = <<[Typed(q, dir, name) EXCEPT !.one = "gdialog" \notin installed]>>
      BY <1>2
    <2> DEFINE line == [Typed(q, dir, name) EXCEPT !.one = "gdialog" \notin installed]
    <2>2. line \in Line
      <3> DEFINE typed == Typed(q, dir, name)
                 one == "gdialog" \notin installed
      <3>1. typed \in Line /\ one \in BOOLEAN
        BY Lines
      <3> HIDE DEF typed, one
      <3>2. [typed EXCEPT !.one = one] \in Line
        BY <3>1 DEF Line
      <3> QED
        BY <3>2 DEF typed, one
    <2> HIDE DEF line
    <2>3. tmp' = <<line>>
      BY <2>1 DEF line
    <2>4. TypeRest'
      BY <2>2, <2>3, TmpTyped DEF OtherDialog
    <2> QED
      BY <2>4, OutsideTyped DEF OtherDialog
  <1> QED
    BY <1>1, <1>2 DEF OtherDialog

LEMMA InstallTyped ==
  ASSUME TInv, NEW t \in Changing, InstallOrRemove(t)
  PROVE  TInv'
  <1>1. installed' \subseteq Tools
    BY DialogsAssumption, RestKept DEF InstallOrRemove, TypeRest
  <1>2. TypeRest'
    BY <1>1, RestKept DEF InstallOrRemove, TypeRest, caches
  <1> QED
    BY <1>2, OutsideTyped DEF InstallOrRemove

LEMMA CreateTyped ==
  ASSUME TInv, NEW dir \in Volatile, CreateOrRemove(dir)
  PROVE  TInv'
  <1>1. dirs' \subseteq Dir /\ files' \subseteq File
    BY DialogsAssumption, RestKept DEF CreateOrRemove, TypeRest
  <1>2. TypeRest'
    BY <1>1, RestKept DEF CreateOrRemove, TypeRest, caches
  <1> QED
    BY <1>2, OutsideTyped DEF CreateOrRemove

LEMMA TInvStep ==
  ASSUME TInv, [Next]_vars
  PROVE  TInv'
  <1>1. CASE UNCHANGED vars
    BY <1>1 DEF vars, host, caches, TInv, TypeOK, Shape
  <1>2. ASSUME NEW p \in Process, Step(p)
        PROVE  TInv'
    <2>1. SkipEmptyLine(p) => TInv'
      BY PointTyped DEF SkipEmptyLine
    <2>2. CanReceiveFiles(p) => TInv'
      BY PointTyped DEF CanReceiveFiles
    <2> QED
      BY <1>2, <2>1, <2>2, FileDialogTyped, DismissTyped, PickTyped,
         TypeTextTyped, CancelTyped, EscapeTyped, ExitStatusTyped,
         ComplainTyped, CatTyped, ReturnSavedTyped, ReturnOpenedTyped,
         ReturnTextTyped, NoTextTyped
      DEF Step, tinyfd_saveFileDialog, tinyfd_openFileDialog, Kind
  <1> QED
    BY <1>1, <1>2, OtherTyped, InstallTyped, CreateTyped DEF Next

\* Dialogs is well typed, and so is each point of a call: what is read has two
\* lines at most, /tmp/tinyfd.txt one.
THEOREM TypeCorrect == Spec => []TypeOK
  <1>1. TInv => TypeOK
    BY DEF TInv
  <1> QED
    BY <1>1, TInvInit, TInvStep, PTL DEF Spec

-----------------------------------------------------------------------------
(***************************************************************************)
(* What a call keeps while it goes on.                                     *)
(***************************************************************************)
\* The call of p alone changes, for the same kind of dialog and by the same
\* program; no process looks for programs.
Goes(p) ==
  /\ \A q \in Process : q # p => dialog'[q] = dialog[q]
  /\ dialog'[p].via = dialog[p].via /\ dialog'[p].kind = dialog[p].kind
  /\ UNCHANGED <<env, caches>>

LEMMA ClosesGoes ==
  ASSUME TInv, NEW p \in Process, NEW call \in Call, NEW printed,
         call.via = dialog[p].via, call.kind = dialog[p].kind,
         Closes(p, call, printed), UNCHANGED <<env, caches>>
  PROVE  Goes(p) /\ dialog'[p].pc = "closed"
  BY DEF TInv, TypeOK, Closes, Goes, Call

LEMMA ReturnsGoes ==
  ASSUME TInv, NEW p \in Process, NEW call \in Call, NEW answer,
         call.via = dialog[p].via, call.kind = dialog[p].kind,
         Returns(p, call, answer), UNCHANGED <<env, caches>>
  PROVE  Goes(p) /\ dialog'[p].pc = "idle"
  BY DEF TInv, TypeOK, Returns, Goes, Call

LEMMA PickGoes ==
  ASSUME TInv, NEW p \in Process, NEW dir \in Dir \cup {NoDir},
         NEW name \in Name, Pick(p, dir, name)
  PROVE  Goes(p) /\ dialog'[p].pc \in {"written", "closed"}
  <1> DEFINE line == Typed(p, dir, name)
             call == [dialog[p] EXCEPT !.chosen = line]
             printed == <<IF dialog[p].via \in Pickers THEN line ELSE One(line)>>
  <1>1. call \in Call /\ call.via = dialog[p].via /\ call.kind = dialog[p].kind
    BY Lines, ChosenTyped
  <1>2. UNCHANGED <<env, caches>>
    BY DEF Pick
  <1>3. CASE dialog[p].via \in FileTools
    <2>1. dialog' = [dialog EXCEPT ![p] =
                       [call EXCEPT !.pc = "written", !.ok = TRUE]]
      BY <1>3 DEF Pick
    <2> HIDE DEF call
    <2> QED
      BY <1>1, <1>2, <2>1 DEF TInv, TypeOK, Goes, Call
  <1>4. CASE dialog[p].via \notin FileTools
    <2>1. Closes(p, call, printed)
      BY <1>4 DEF Pick
    <2> HIDE DEF call, printed
    <2> QED
      BY <1>1, <1>2, <2>1, ClosesGoes
  <1> QED
    BY <1>3, <1>4

LEMMA TypeTextGoes ==
  ASSUME TInv, NEW p \in Process, NEW dir \in Dir \cup {NoDir},
         NEW name \in Name, TypeText(p, dir, name)
  PROVE  Goes(p) /\ dialog'[p].pc = "idle"
  <1> DEFINE line == Typed(p, dir, name)
             call == [dialog[p] EXCEPT !.chosen = line]
             answer == TextAnswer(call.kind, line)
  <1>1. call \in Call /\ call.via = dialog[p].via /\ call.kind = dialog[p].kind
    BY Lines, ChosenTyped
  <1>2. Returns(p, call, answer) /\ UNCHANGED <<env, caches>>
    BY DEF TypeText, ReturnsText
  <1> HIDE DEF call, answer
  <1> QED
    BY <1>1, <1>2, ReturnsGoes

\* A step that only moves p to another point of its call.
LEMMA PointGoes ==
  ASSUME TInv, NEW p \in Process,
         NEW pc \in {"written", "again", "ended", "cut off"},
         dialog' = [dialog EXCEPT ![p].pc = pc]
  PROVE  /\ \A q \in Process : q # p => dialog'[q] = dialog[q]
         /\ dialog'[p].via = dialog[p].via /\ dialog'[p].kind = dialog[p].kind
         /\ dialog'[p].chosen = dialog[p].chosen /\ dialog'[p].pc = pc
  <1> DEFINE d == [dialog[p] EXCEPT !.pc = pc]
  <1>1. dialog' = [dialog EXCEPT ![p] = d] /\ dialog \in [Process -> Call]
    BY DEF TInv, TypeOK
  <1>2. /\ d.via = dialog[p].via /\ d.kind = dialog[p].kind
        /\ d.chosen = dialog[p].chosen /\ d.pc = pc
    BY Fields DEF Call
  <1> HIDE DEF d
  <1> QED
    BY <1>1, <1>2

\* The steps of a call that leave it open, but for Pick.
Running(p) ==
  \/ Cancel(p) \/ Escape(p) \/ ExitStatus(p) \/ Complain(p) \/ Cat(p)
  \/ SkipEmptyLine(p)

LEMMA RunningGoes ==
  ASSUME TInv, NEW p \in Process, Running(p)
  PROVE  Goes(p) /\ dialog'[p].pc \notin {"idle", "ended"}
  <1>1. UNCHANGED <<env, caches>>
    BY DEF Running, Cancel, Escape, ExitStatus, Complain, Cat, SkipEmptyLine
  <1>2. \/ \E printed : Closes(p, dialog[p], printed)
        \/ \E pc \in {"written", "again"} :
             dialog' = [dialog EXCEPT ![p].pc = pc]
        \/ dialog' = [dialog EXCEPT ![p].out = <<Warning>>]
           /\ dialog[p].pc = "shown"
    BY DEF Running, Cancel, Escape, ExitStatus, Complain, Cat, SkipEmptyLine,
           Warning
  <1>3. CASE \E printed : Closes(p, dialog[p], printed)
    BY <1>1, <1>3, Fields, ClosesGoes
  <1>4. CASE \E pc \in {"written", "again"} :
               dialog' = [dialog EXCEPT ![p].pc = pc]
    <2>1. PICK pc \in {"written", "again"} :
            dialog' = [dialog EXCEPT ![p].pc = pc]
      BY <1>4
    <2> QED
      BY <1>1, <2>1, PointGoes DEF Goes
  <1>5. CASE dialog' = [dialog EXCEPT ![p].out = <<Warning>>]
             /\ dialog[p].pc = "shown"
    BY <1>1, <1>5, Fields DEF TInv, TypeOK, Goes, Call
  <1> QED
    BY <1>2, <1>3, <1>4, <1>5

\* The process ends, in a call or between two.
LEMMA CutOffGoes ==
  ASSUME TInv, NEW p \in Process, CanReceiveFiles(p)
  PROVE  /\ Goes(p) /\ dialog'[p].chosen = dialog[p].chosen
         /\ dialog'[p].pc = IF dialog[p].pc = "idle" THEN "ended" ELSE "cut off"
         /\ UNCHANGED <<buff, result, target, tmp>>
  <1>1. PICK pc \in {"ended", "cut off"} :
          /\ dialog' = [dialog EXCEPT ![p].pc = pc]
          /\ pc = IF dialog[p].pc = "idle" THEN "ended" ELSE "cut off"
    BY DEF CanReceiveFiles
  <1>2. UNCHANGED <<env, caches, buff, result, target, tmp>>
    BY DEF CanReceiveFiles
  <1> QED
    BY <1>1, <1>2, PointGoes DEF Goes

\* The end of a call, but for TypeText.
Ends(p) == ReturnSaved(p) \/ ReturnOpened(p) \/ ReturnText(p) \/ NoText(p)

LEMMA ReturnGoes ==
  ASSUME TInv, NEW p \in Process, Ends(p)
  PROVE  Goes(p) /\ dialog'[p].pc = "idle"
  <1>1. UNCHANGED <<env, caches>> /\ \E answer : Returns(p, dialog[p], answer)
    BY DEF Ends, ReturnSaved, ReturnOpened, ReturnText, NoText, ReturnsText
  <1> QED
    BY <1>1, Fields, ReturnsGoes

LEMMA DismissGoes ==
  ASSUME TInv, NEW p \in Process, Dismiss(p)
  PROVE  /\ Goes(p) /\ tmp' \in {tmp, Absent}
         /\ dialog'[p].pc \in {"idle", "ended"} => dialog[p].via = "none"
  BY Fields DEF Dismiss, TInv, TypeOK, Goes, Call

-----------------------------------------------------------------------------
(***************************************************************************)
(* What is left in /tmp/tinyfd.txt.                                        *)
(***************************************************************************)
\* A call that goes on, or one that ends with nothing in the file.
LEMMA LeftByGoes ==
  ASSUME NothingLeftBehind, NEW p \in Process, Goes(p),
         \/ tmp' = Absent
         \/ /\ \/ dialog'[p].pc \notin {"idle", "ended"}
               \/ dialog[p].via \notin FileTools
            /\ \/ tmp' = tmp
               \/ tmp'[1].by = p /\ dialog[p].via \in FileTools
  PROVE  NothingLeftBehind'
  BY DEF NothingLeftBehind, Goes

LEMMA Author ==
  ASSUME NEW p, NEW dir, NEW name, NEW one
  PROVE  /\ Typed(p, dir, name).by = p /\ One(Typed(p, dir, name)).by = p
         /\ [Typed(p, dir, name) EXCEPT !.one = one].by = p
  BY DEF Typed, One

LEMMA NothingLeftStep ==
  ASSUME TInv, NothingLeftBehind, [Next]_vars
  PROVE  NothingLeftBehind'
  <1>1. CASE UNCHANGED vars
    BY <1>1 DEF vars, NothingLeftBehind
  <1>2. ASSUME NEW p \in Process, NEW kind \in Kind, FileDialog(p, kind)
        PROVE  NothingLeftBehind'
    <2> DEFINE via == Backend(p, kind)
               warns == Warns(p, via)
               d == [NoCall EXCEPT !.kind = kind, !.via = via,
                       !.pc = IF warns THEN "warn"
                              ELSE IF via = "console" THEN "console" ELSE "shown"]
    <2>1. /\ dialog' = [dialog EXCEPT ![p] = d] /\ dialog[p].pc = "idle"
          /\ tmp' = Started(p, via)
      BY <1>2 DEF FileDialog
    <2>2. d.pc \notin {"idle", "ended"} /\ d.via = via
      BY DEF NoCall
    <2> HIDE DEF d, via
    <2>3. \A q \in Process : dialog'[q] = IF q = p THEN d ELSE dialog[q]
      BY <2>1 DEF TInv, TypeOK
    <2>4. CASE via = "gdialog"
      <3>1. tmp' = <<Typed(p, NoDir, NoName)>>
        BY <2>1, <2>4 DEF Started
      <3>2. tmp'[1].by = p
        BY <3>1 DEF Typed
      <3> QED
        BY <2>2, <2>3, <2>4, <3>2 DEF NothingLeftBehind, FileTools
    <2>5. CASE via # "gdialog"
      BY <2>1, <2>2, <2>3, <2>5 DEF Started, NothingLeftBehind
    <2> QED
      BY <2>4, <2>5
  <1>3. ASSUME NEW p \in Process, Dismiss(p)
        PROVE  NothingLeftBehind'
    BY <1>3, DismissGoes, LeftByGoes DEF FileTools
  <1>4. ASSUME NEW p \in Process, NEW dir \in Dir \cup {NoDir},
               NEW name \in Name, Pick(p, dir, name)
        PROVE  NothingLeftBehind'
    <2> DEFINE line == Typed(p, dir, name)
               one == One(line)
    <2>1. \/ tmp' = tmp
          \/ tmp'[1].by = p /\ dialog[p].via \in FileTools
      <3>1. line.by = p /\ one.by = p
        BY Author
      <3>2. \/ tmp' = tmp
            \/ (tmp' = <<line>> \/ tmp' = <<one>>)
               /\ dialog[p].via \in FileTools
        BY <1>4 DEF Pick, FileTools
      <3> HIDE DEF line, one
      <3>3. CASE tmp' = <<line>>
        BY <3>1, <3>2, <3>3
      <3>4. CASE tmp' = <<one>>
        BY <3>1, <3>2, <3>4
      <3> QED
        BY <3>2, <3>3, <3>4
    <2> QED
      BY <1>4, <2>1, PickGoes, LeftByGoes
  <1>5. ASSUME NEW p \in Process, Running(p)
        PROVE  NothingLeftBehind'
    <2>1. \/ tmp' = tmp
          \/ tmp'[1].by = p /\ dialog[p].via \in FileTools
      <3> DEFINE line == One(Typed(p, NoDir, "^["))
      <3>1. line.by = p
        BY Author
      <3>2. \/ tmp' = tmp
            \/ tmp' = <<line>> /\ dialog[p].via \in FileTools
        <4>1. CASE Escape(p)
          BY <4>1 DEF Escape, FileTools
        <4>2. CASE ~Escape(p)
          BY <1>5, <4>2 DEF Running, Cancel, ExitStatus, Complain, Cat,
                            SkipEmptyLine
        <4> QED
          BY <4>1, <4>2
      <3> HIDE DEF line
      <3> QED
        BY <3>1, <3>2
    <2> QED
      BY <1>5, <2>1, RunningGoes, LeftByGoes
  <1>6. ASSUME NEW p \in Process, Ends(p)
        PROVE  NothingLeftBehind'
    <2>1. \/ tmp' = Absent
          \/ tmp' = tmp /\ dialog[p].via \notin FileTools
      BY <1>6, Fields DEF Ends, ReturnSaved, ReturnOpened, ReturnText, NoText,
                          Removed, Shape, FileTools, Pickers
    <2> QED
      BY <1>6, <2>1, ReturnGoes, LeftByGoes
  <1>7. ASSUME NEW p \in Process, NEW dir \in Dir \cup {NoDir},
               NEW name \in Name, TypeText(p, dir, name)
        PROVE  NothingLeftBehind'
    <2>1. tmp' = tmp
      BY <1>7 DEF TypeText
    <2>2. dialog[p].pc \in {"console", "again"}
      BY <1>7 DEF TypeText
    <2>3. dialog[p].via \notin FileTools
      BY <2>2, Fields DEF Shape, FileTools
    <2> QED
      BY <1>7, <2>1, <2>3, TypeTextGoes, LeftByGoes
  <1>8. ASSUME NEW q \in Others, OtherDialog(q)
        PROVE  NothingLeftBehind'
    <2>1. tmp' = Absent \/ tmp'[1].by = q
      <3>1. CASE tmp' # Absent
        <4>1. PICK dir \in Dir, name \in Name :
                tmp' = <<[Typed(q, dir, name) EXCEPT
                           !.one = "gdialog" \notin installed]>>
          BY <1>8, <3>1 DEF OtherDialog
        <4> DEFINE line == [Typed(q, dir, name) EXCEPT
                             !.one = "gdialog" \notin installed]
        <4>2. line.by = q
          BY Author
        <4>3. tmp' = <<line>>
          BY <4>1
        <4> HIDE DEF line
        <4> QED
          BY <4>2, <4>3
      <3> QED
        BY <3>1
    <2>2. dialog' = dialog /\ q \notin Process
      BY <1>8, DialogsAssumption DEF OtherDialog
    <2> QED
      BY <2>1, <2>2 DEF NothingLeftBehind
  <1>9. CASE (\E t \in Changing : InstallOrRemove(t))
             \/ (\E dir \in Volatile : CreateOrRemove(dir))
    BY <1>9 DEF InstallOrRemove, CreateOrRemove, NothingLeftBehind
  <1>10. ASSUME NEW p \in Process, CanReceiveFiles(p)
         PROVE  NothingLeftBehind'
    <2>1. CASE dialog[p].pc = "idle"
      <3>1. tmp # Absent => tmp[1].by # p
        BY <2>1 DEF NothingLeftBehind
      <3> QED
        BY <1>10, <3>1, CutOffGoes DEF NothingLeftBehind, Goes
    <2>2. CASE dialog[p].pc # "idle"
      BY <1>10, <2>2, CutOffGoes, LeftByGoes
    <2> QED
      BY <2>1, <2>2
  <1> QED
    BY <1>1, <1>2, <1>3, <1>4, <1>5, <1>6, <1>7, <1>8, <1>9, <1>10
    DEF Next, Step, Running, Ends, tinyfd_saveFileDialog, tinyfd_openFileDialog,
        Kind

\* What a user has typed is not in /tmp/tinyfd.txt when no dialog of that process
\* uses the file, however its dialogs overlap with those of others, and also when
\* the process ends between two dialogs.  A process that ends in the middle of one
\* leaves the text behind.
THEOREM NothingLeft == Spec => []NothingLeftBehind
  <1>1. Init => NothingLeftBehind
    BY DEF Init, NothingLeftBehind
  <1> QED
    BY <1>1, TInvInit, TInvStep, NothingLeftStep, PTL DEF Spec

-----------------------------------------------------------------------------
(***************************************************************************)
(* A process keeps the dialog that it has found.                           *)
(***************************************************************************)
\* p has looked for t, and t is not to be used.
Missing(p, t) == presence[p][t] # -1 /\ ~Present(p, t)

\* Why the program of an earlier dialog is chosen again: it has been found and
\* those that go before it have been looked for in vain.
Settled(p, kind) ==
  LET via == used[p][kind]
  IN  /\ via \in Tool \cup {"none", "console"}
      /\ via = "console" =>
           warned[p] /\ \A t \in Candidates(p) : Missing(p, t)
      /\ via \in Tool =>
           /\ via \in Candidates(p) /\ presence[p][via] # -1 /\ Present(p, via)
           /\ \A t \in Candidates(p) :
                Order(kind)[t] < Order(kind)[via] => Missing(p, t)

Detected ==
  /\ DetectedOnce
  /\ \A p \in Process, kind \in Kind : Settled(p, kind)

\* What has been looked for is kept, whatever is looked for next.
LEMMA PresentKept ==
  ASSUME TInv, TInv', NEW p \in Process, NEW t \in Program, env' = env,
         presence[p][t] # -1, presence'[p][t] = presence[p][t]
  PROVE  Present(p, t)' = Present(p, t)
  <1>1. Value(p, t) = presence[p][t]
    BY ValueKept DEF TInv, TypeOK
  <1>2. Value(p, t)' = presence'[p][t]
    BY DEF Value, kdialogFound, Found, TInv, TypeOK
  <1>3. (Value(p, t) = 1)' = (Value(p, t) = 1)
    BY <1>1, <1>2
  <1> QED
    BY <1>3 DEF Present, graphicMode

LEMMA ToolsArePrograms == Tool \subseteq Program
  BY DEF Tool, Program



LEMMA ChosenAgain ==
  ASSUME TInv, NEW p \in Process, NEW kind \in Kind, Settled(p, kind),
         used[p][kind] # "none"
  PROVE  Backend(p, kind) = used[p][kind]
  <1> DEFINE via == used[p][kind]
             order == Order(kind)
  <1>1. via \in Tool \cup {"console"}
    BY DEF Settled
  <1>2. CASE via = "console"
    <2>1. warned[p] /\ \A t \in Candidates(p) : ~Present(p, t)
      BY <1>2 DEF Settled, Missing
    <2>2. \A t \in Asked(p, kind) : ~Present(p, t)
      BY <2>1 DEF Asked, Looked
    <2> QED
      BY <1>2, <2>1, <2>2, BackendFound DEF Warned
  <1>3. CASE via \in Tool
    <2>1. /\ via \in Candidates(p) /\ Present(p, via)
          /\ \A t \in Candidates(p) : order[t] < order[via] => ~Present(p, t)
      BY <1>3 DEF Settled, Missing
    <2>2. /\ \A t \in Tool : order[t] \in Nat
          /\ \A t, u \in Tool : order[t] = order[u] => t = u
      BY OrderIsTotal
    <2> HIDE DEF order
    <2>3. \A t \in Candidates(p) : Present(p, t) => order[via] <= order[t]
      BY <2>1, <2>2, AskedAreTools
    <2>4. via \in Asked(p, kind)
      BY <2>1, <2>3 DEF Asked, Looked, order
    <2>5. ASSUME NEW t \in Asked(p, kind), Present(p, t)
          PROVE  t = via
      <3>1. t \in Candidates(p) /\ order[t] <= order[via]
        BY <2>1 DEF Asked, Looked, order
      <3>2. order[via] <= order[t]
        BY <2>3, <2>5, <3>1
      <3> QED
        BY <2>1, <2>2, <3>1, <3>2, AskedAreTools
    <2> QED
      BY <2>1, <2>4, <2>5, BackendFound
  <1> QED
    BY <1>1, <1>2, <1>3

\* A settled kind of dialog stays settled when what has been looked for is kept.
LEMMA SettledKept ==
  ASSUME TInv, TInv', NEW p \in Process, NEW kind \in Kind, Settled(p, kind),
         env' = env, warned[p] => warned'[p], used'[p][kind] = used[p][kind],
         \A t \in Program : presence[p][t] # -1 => presence'[p][t] = presence[p][t]
  PROVE  Settled(p, kind)'
  <1> DEFINE via == used[p][kind]
  <1>1. \A t \in Program : presence[p][t] # -1 =>
          presence'[p][t] # -1 /\ (Present(p, t)' = Present(p, t))
    BY PresentKept
  <1>2. \A t \in Program : Missing(p, t) => Missing(p, t)'
    BY <1>1 DEF Missing
  <1>3. Candidates(p)' = Candidates(p) /\ Candidates(p) \subseteq Program
    BY AskedAreTools, ToolsArePrograms DEF Candidates
  <1> QED
    BY <1>1, <1>2, <1>3, ToolsArePrograms DEF Settled

\* Among some programs one goes first.
LEMMA LeastOf ==
  ASSUME NEW kind \in Kind, NEW S \in SUBSET Tool, S # {}
  PROVE  \E t \in S : \A u \in S : Order(kind)[t] <= Order(kind)[u]
  <1> DEFINE order == Order(kind)
             Above(n) == \A t \in S : order[t] > n
  <1> SUFFICES ASSUME \A t \in S : \E u \in S : order[u] < order[t]
               PROVE  FALSE
    <2>1. \A t \in S : order[t] \in Nat
      BY OrderIsTotal
    <2> HIDE DEF order
    <2> QED
      BY <2>1 DEF order
  <1>1. \A t \in S : order[t] \in 1..16
    BY DEF Order, SaveOrder, OpenOrder, InputOrder, Tool, Pickers, InputTools, Kind
  <1> HIDE DEF order
  <1>2. \A n \in Nat : Above(n) => Above(n + 1)
    BY <1>1
  <1>3. Above(0)
    BY <1>1
  <1> HIDE DEF Above
  <1>4. Above(4)
    BY <1>2, <1>3
  <1>5. Above(8)
    BY <1>2, <1>4
  <1>6. Above(12)
    BY <1>2, <1>5
  <1>7. Above(16)
    BY <1>2, <1>6
  <1> QED
    BY <1>1, <1>7 DEF Above

\* The first dialog of a kind settles it.
LEMMA FirstSettles ==
  ASSUME TInv, TInv', NEW p \in Process, NEW kind \in Kind,
         FileDialog(p, kind), used[p][kind] = "none"
  PROVE  Settled(p, kind)'
  <1> DEFINE via == Backend(p, kind)
             order == Order(kind)
             asked == Asked(p, kind)
  <1>1. used'[p][kind] = via
    BY DEF FileDialog, TInv, TypeOK
  <1>2. env' = env /\ Candidates(p)' = Candidates(p)
    BY DEF FileDialog, Candidates
  <1>3. \A t \in asked : presence'[p][t] # -1 /\ (Present(p, t)' = Present(p, t))
    <2>1. asked \subseteq Program
      BY AskedAreTools, ToolsArePrograms
    <2>2. \A t \in asked : presence'[p][t] = Value(p, t)
      BY <2>1 DEF FileDialog, TInv, TypeOK
    <2>3. \A t \in asked : Value(p, t)' = presence'[p][t]
      BY <2>1, <2>2, ValueType DEF Value, kdialogFound, Found, TInv, TypeOK
    <2> HIDE DEF asked
    <2>4. \A t \in asked : (Value(p, t) = 1)' = (Value(p, t) = 1)
      BY <2>2, <2>3
    <2>5. \A t \in asked : presence'[p][t] # -1
      BY <2>1, <2>2, ValueType
    <2> QED
      BY <1>2, <2>4, <2>5 DEF Present, graphicMode
  <1>4. via \in Tool \cup {"none", "console"}
    BY BackendType
  <1>5. CASE via = "console"
    <2>1. warned'[p]
      BY <1>5 DEF FileDialog, Warns, TInv, TypeOK
    <2>2. "console" \notin Tool
      BY DEF Tool, Pickers, InputTools
    <2>3. \A t \in asked : ~Present(p, t)
      BY <1>5, <2>2, AskedAreTools, BackendFound
    <2>4. asked = Candidates(p) /\ \A t \in Candidates(p) : ~Present(p, t)
      <3> DEFINE present == {t \in Candidates(p) : Present(p, t)}
      <3>1. ASSUME present # {}
            PROVE  FALSE
        <4>1. present \subseteq Tool
          BY AskedAreTools
        <4> HIDE DEF present
        <4>2. PICK t \in present : \A u \in present : order[t] <= order[u]
          BY <3>1, <4>1, LeastOf
        <4> QED
          BY <2>3, <4>2 DEF present, Asked, Looked
      <3> QED
        BY <3>1 DEF Asked, Looked
    <2>5. \A t \in Candidates(p) : Missing(p, t)'
      BY <1>3, <2>4 DEF Missing
    <2> QED
      BY <1>1, <1>2, <1>5, <2>1, <2>2, <2>5 DEF Settled
  <1>6. CASE via \in Tool
    <2>1. via \in asked /\ Present(p, via)
      BY <1>6, BackendFound DEF Tool, Pickers, InputTools
    <2>2. \A t \in Tool : order[t] \in Nat
      BY OrderIsTotal
    <2>3. \A t \in Candidates(p) : Present(p, t) => order[via] <= order[t]
      BY <2>1 DEF Asked, Looked
    <2> HIDE DEF order
    <2>4. \A t \in Candidates(p) : order[t] < order[via] =>
            t \in asked /\ ~Present(p, t)
      BY <2>2, <2>3, <1>6, AskedAreTools DEF Asked, Looked, order
    <2>5. via \in Candidates(p)
      BY <2>1 DEF Asked, Looked
    <2>6. "console" \notin Tool
      BY DEF Tool, Pickers, InputTools
    <2> HIDE DEF via, asked
    <2>7. \A t \in Candidates(p) : order[t] < order[via] => Missing(p, t)'
      BY <1>3, <2>4 DEF Missing
    <2> QED
      BY <1>1, <1>2, <1>3, <1>6, <2>1, <2>5, <2>6, <2>7 DEF Settled, order
  <1>7. CASE via = "none"
    <2>1. "none" \notin Tool
      BY DEF Tool, Pickers, InputTools
    <2> QED
      BY <1>1, <1>7, <2>1 DEF Settled
  <1> QED
    BY <1>4, <1>5, <1>6, <1>7

LEMMA DialogDetected ==
  ASSUME TInv, TInv', Detected, NEW p \in Process, NEW kind \in Kind,
         FileDialog(p, kind)
  PROVE  Detected'
  <1> DEFINE via == Backend(p, kind)
  <1>1. /\ env' = env
        /\ \A q \in Process : warned[q] => warned'[q]
        /\ \A q \in Process, t \in Program :
             presence[q][t] # -1 => presence'[q][t] = presence[q][t]
    <2>1. env' = env
      BY DEF FileDialog
    <2>2. \A q \in Process : warned[q] => warned'[q]
      BY DEF FileDialog, Warned, TInv, TypeOK
    <2>3. \A q \in Process, t \in Program :
            \/ presence'[q][t] = presence[q][t]
            \/ q = p /\ presence'[q][t] = Value(p, t)
      BY DEF FileDialog, TInv, TypeOK
    <2>4. \A t \in Program : presence[p][t] # -1 => Value(p, t) = presence[p][t]
      BY ValueKept DEF TInv, TypeOK
    <2> QED
      BY <2>1, <2>2, <2>3, <2>4
  <1>2. \A q \in Process, k \in Kind :
          used'[q][k] = IF q = p /\ k = kind /\ used[q][k] = "none"
                          THEN via ELSE used[q][k]
    BY DEF FileDialog, TInv, TypeOK
  <1>3. ASSUME NEW q \in Process, NEW k \in Kind
        PROVE  Settled(q, k)'
    <2>1. CASE q = p /\ k = kind /\ used[q][k] = "none"
      BY <2>1, FirstSettles
    <2>2. CASE ~(q = p /\ k = kind /\ used[q][k] = "none")
      BY <1>1, <1>2, <2>2, SettledKept DEF Detected
    <2> QED
      BY <2>1, <2>2
  <1>4. used'[p][kind] = via
    BY <1>2, ChosenAgain DEF Detected
  <1> HIDE DEF via
  <1>5. dialog'[p].via = via /\ dialog'[p].kind = kind
        /\ \A q \in Process : q # p => dialog'[q] = dialog[q]
    BY DEF FileDialog, NoCall, TInv, TypeOK, via
  <1>6. DetectedOnce'
    <2>1. ASSUME NEW q \in Process, q # p
          PROVE  \A k \in Kind : used'[q][k] = used[q][k]
      BY <1>2, <2>1
    <2>2. \A q \in Process : dialog[q].kind \in Kind
      BY Fields
    <2> QED
      BY <1>4, <1>5, <2>1, <2>2 DEF Detected, DetectedOnce
  <1> QED
    BY <1>3, <1>6 DEF Detected

\* The steps that look for no program.
LEMMA GoesDetected ==
  ASSUME TInv, TInv', Detected, UNCHANGED <<env, caches>>,
         \A q \in Process : dialog'[q].via = dialog[q].via
                            /\ dialog'[q].kind = dialog[q].kind
  PROVE  Detected'
  <1>1. UNCHANGED <<presence, warned, used>>
    BY DEF caches
  <1>2. \A q \in Process, k \in Kind : Settled(q, k)'
    BY <1>1, SettledKept DEF Detected
  <1> QED
    BY <1>1, <1>2 DEF Detected, DetectedOnce

LEMMA DetectedStep ==
  ASSUME TInv, TInv', Detected, [Next]_vars
  PROVE  Detected'
  <1>1. ASSUME NEW p \in Process, Goes(p)
        PROVE  Detected'
    BY <1>1, GoesDetected DEF Goes
  <1>2. CASE \E p \in Process : Step(p)
    <2>1. PICK p \in Process : Step(p)
      BY <1>2
    <2>2. Goes(p) \/ \E kind \in Kind : FileDialog(p, kind)
      BY <2>1, PickGoes, TypeTextGoes, RunningGoes, CutOffGoes, ReturnGoes,
         DismissGoes
      DEF Step, Running, Ends, tinyfd_saveFileDialog, tinyfd_openFileDialog, Kind
    <2> QED
      BY <1>1, <2>2, DialogDetected
  <1>3. CASE UNCHANGED <<env, caches, dialog>>
    BY <1>3, GoesDetected
  <1>4. CASE \/ UNCHANGED vars
             \/ \E q \in Others : OtherDialog(q)
             \/ \E t \in Changing : InstallOrRemove(t)
             \/ \E dir \in Volatile : CreateOrRemove(dir)
    BY <1>3, <1>4 DEF vars, OtherDialog, InstallOrRemove, CreateOrRemove
  <1> QED
    BY <1>2, <1>4 DEF Next

\* For any programs, environments and installations meanwhile: the program of
\* a process's first dialog of a kind, or the console, asks in all later ones.
THEOREM DialogKept == Spec => []DetectedOnce
  <1>1. Init => Detected
    <2>1. ASSUME Init PROVE \A p \in Process, k \in Kind :
            used[p][k] = "none" /\ dialog[p] = NoCall
      BY <2>1 DEF Init
    <2>2. "none" \notin Tool
      BY DEF Tool, Pickers, InputTools
    <2>3. NoCall.kind \in Kind
      BY DEF NoCall, Kind
    <2> QED
      BY <2>1, <2>2, <2>3 DEF Detected, DetectedOnce, Settled
  <1>2. Detected => DetectedOnce
    BY DEF Detected
  <1> QED
    BY <1>1, <1>2, TInvInit, TInvStep, DetectedStep, PTL DEF Spec

-----------------------------------------------------------------------------
(***************************************************************************)
(* What an answer can be.                                                  *)
(***************************************************************************)
Bare(p) == Typed(p, NoDir, NoName)
EscapeOf(p) == Typed(p, NoDir, "^[")
Somebody == Process \cup Others

\* What the program of a call d of p can have printed.
Printed(p, d, line) ==
  IF d.via \in Pickers THEN line \in {Blank, Warning, d.chosen}
  ELSE \/ Text(line) \in {Blank, d.chosen, Bare(p), EscapeOf(p)}
       \/ d.via \in FileTools /\ line.by \in Somebody \ {p}
       \/ d.via \in {"gxmessage", "gmessage"} /\ line.by = "shell"

\* AnswerIsChoice, for one process and an answer r.
Chosen(p, d, r) ==
  \/ r \in {Blank, d.chosen}
  \/ d.via \in FileTools /\ r.by \in Somebody \ {p}
  \/ d.via \in {"gxmessage", "gmessage"} /\ r.by = "shell"

\* A call d of p with buffer b and result r: nothing old is left in what it
\* can return.
Fresh(p, d, b, r) ==
  /\ ~d.chosen.one
  /\ d.pc \notin {"idle", "ended", "cut off"} =>
       /\ r = Blank
       /\ d.kind = "save" => b = Blank
  /\ d.pc = "closed" => \A i \in 1..Len(d.out) : Printed(p, d, d.out[i])
  /\ Chosen(p, d, r)

\* Who wrote /tmp/tinyfd.txt, and what a process of the model wrote there.
Signed ==
  tmp # Absent =>
    /\ tmp[1].by \in Somebody
    /\ \A p \in Process : tmp[1].by = p =>
         Text(tmp[1]) \in {Bare(p), EscapeOf(p), dialog[p].chosen}

AInv ==
  /\ TInv /\ NothingLeftBehind /\ Signed
  /\ \A p \in Process : Fresh(p, dialog[p], buff[p], result[p])

LEMMA Texts ==
  /\ \A line \in Line : ~line.one => Text(line) = line /\ Text(One(line)) = line
  /\ \A p, dir, name : ~Typed(p, dir, name).one
  /\ ~Blank.one
  BY DEF Text, One, Line, Typed, Blank

\* An answer that is given is one that the user has chosen in this call, but
\* for the exceptions of AnswerIsChoice.
LEMMA CheckedPath ==
  ASSUME TInv, NEW p \in Process, NEW d \in Call, d.via \in Pickers,
         NEW line \in Line, line = Blank \/ Printed(p, d, line)
  PROVE  Chosen(p, d, SavedPath(line)) /\ Chosen(p, d, Opened(line))
  <1>1. line \in {Blank, Warning, d.chosen}
    BY DEF Printed
  <1>2. SavedPath(Warning) = Blank /\ Opened(Warning) = Blank
    <2>1. Warning.name = "warning"
      BY DEF Warning, Typed
    <2>2. ~fileExists(Warning)
      BY <2>1, DialogsAssumption, RestKept DEF fileExists, TypeRest, File
    <2>3. ~filenameValid(Warning.name)
      BY <2>1 DEF filenameValid
    <2> QED
      BY <2>2, <2>3 DEF SavedPath, Opened
  <1>3. SavedPath(line) \in {line, Blank} /\ Opened(line) \in {line, Blank}
    BY AnswerType
  <1> QED
    BY <1>1, <1>2, <1>3 DEF Chosen

LEMMA CheckedText ==
  ASSUME TInv, NEW p \in Process, NEW d \in Call, d.via \in InputTools,
         NEW read \in Line, read = Blank \/ Printed(p, d, read)
  PROVE  LET text == IF read.one /\ read.name # "^[" THEN Text(read) ELSE Blank
         IN  Chosen(p, d, TextAnswer(d.kind, text))
  <1> DEFINE text == IF read.one /\ read.name # "^[" THEN Text(read) ELSE Blank
             answer == TextAnswer(d.kind, text)
  <1>1. answer \in {text, Blank}
    BY DEF TextAnswer, SavedText, Opened
  <1>2. d.via \notin Pickers
    BY DEF InputTools, Pickers
  <1>3. CASE text = Blank
    BY <1>1, <1>3 DEF Chosen
  <1>4. CASE text # Blank
    <2>1. text = Text(read) /\ read.name # "^[" /\ text.by = read.by
          /\ text.name = read.name /\ text.dir = read.dir
      BY <1>4 DEF Text, Line
    <2>5. EscapeOf(p).name = "^[" /\ Bare(p).name = NoName
      BY DEF EscapeOf, Bare, Typed
    <2>6. read # Blank
      BY <1>4, Texts
    <2>7. answer = TextAnswer(d.kind, text)
      OBVIOUS
    <2> HIDE DEF text, answer
    <2>2. text # EscapeOf(p)
      BY <2>1, <2>5
    <2>3. CASE text = Bare(p)
      <3>1. text.name = NoName
        BY <2>3, <2>5
      <3>2. ~fileExists(text)
        BY <3>1, DialogsAssumption, RestKept DEF fileExists, TypeRest, File
      <3>3. answer = Blank
        BY <2>7, <3>1, <3>2 DEF TextAnswer, SavedText, Opened
      <3> QED
        BY <3>3 DEF Chosen, answer, text
    <2>4. CASE text # Bare(p)
      <3>2. \/ text = d.chosen
            \/ d.via \in FileTools /\ text.by \in Somebody \ {p}
            \/ d.via \in {"gxmessage", "gmessage"} /\ text.by = "shell"
        BY <1>2, <1>4, <2>1, <2>2, <2>4, <2>6 DEF Printed
      <3>3. Chosen(p, d, answer)
        BY <1>1, <3>2 DEF Chosen
      <3> QED
        BY <3>3 DEF answer, text
    <2> QED
      BY <2>3, <2>4
  <1> QED
    BY <1>3, <1>4

\* A step of p alone leaves the calls of the others as they were.
Alone(p) ==
  \A q \in Process : q # p =>
    dialog'[q] = dialog[q] /\ buff'[q] = buff[q] /\ result'[q] = result[q]

LEMMA StepAlone ==
  ASSUME TInv, NEW p \in Process, Step(p)
  PROVE  Alone(p)
  <1>1. Goes(p) \/ \E kind \in Kind : FileDialog(p, kind)
    BY PickGoes, TypeTextGoes, RunningGoes, CutOffGoes, ReturnGoes, DismissGoes
    DEF Step, Running, Ends, tinyfd_saveFileDialog, tinyfd_openFileDialog, Kind
  <1>2. \A q \in Process : q # p => dialog'[q] = dialog[q]
    BY <1>1 DEF Goes, FileDialog, TInv, TypeOK
  <1>3. \A q \in Process : q # p => result'[q] = result[q]
    BY DEF Step, tinyfd_saveFileDialog, tinyfd_openFileDialog, FileDialog,
           Dismiss, Pick, Cancel, Escape, ExitStatus, Complain, Cat, ReturnSaved,
           ReturnOpened, ReturnText, ReturnsText, SkipEmptyLine, TypeText, NoText,
           CanReceiveFiles, Returns, TInv, TypeOK
  <1>4. \A q \in Process : q # p => buff'[q] = buff[q]
    BY DEF Step, tinyfd_saveFileDialog, tinyfd_openFileDialog, FileDialog,
           Dismiss, Pick, Cancel, Escape, ExitStatus, Complain, Cat, ReturnSaved,
           ReturnOpened, ReturnText, ReturnsText, SkipEmptyLine, TypeText, NoText,
           CanReceiveFiles, TInv, TypeOK
  <1> QED
    BY <1>2, <1>3, <1>4 DEF Alone

\* What is left to show of a step of p.
LEMMA FreshStep ==
  ASSUME AInv, NEW p \in Process, Alone(p),
         Fresh(p, dialog'[p], buff'[p], result'[p])
  PROVE  \A q \in Process : Fresh(q, dialog[q], buff[q], result[q])'
  BY DEF AInv, Alone

\* The file keeps its text while the choice of its author stands.
LEMMA SignedKept ==
  ASSUME AInv, NEW p \in Process, Alone(p),
         \/ tmp' = Absent
         \/ /\ tmp' = tmp
            /\ \/ dialog'[p].chosen = dialog[p].chosen
               \/ tmp # Absent => tmp[1].by # p
  PROVE  Signed'
  BY DEF AInv, Alone, Signed

\* The file has a new text by p.
LEMMA SignedAnew ==
  ASSUME NEW p \in Process, NEW line \in Line, tmp' = <<line>>, line.by = p,
         Text(line) \in {Bare(p), EscapeOf(p), dialog'[p].chosen}
  PROVE  Signed'
  BY DEF Signed, Somebody, Bare, EscapeOf

LEMMA DialogFresh ==
  ASSUME AInv, NEW p \in Process, NEW kind \in Kind, FileDialog(p, kind), Alone(p)
  PROVE  Signed' /\ Fresh(p, dialog'[p], buff'[p], result'[p])
  <1> DEFINE via == Backend(p, kind)
             warns == Warns(p, via)
             d == [NoCall EXCEPT !.kind = kind, !.via = via,
                     !.pc = IF warns THEN "warn"
                            ELSE IF via = "console" THEN "console" ELSE "shown"]
  <1>1. /\ dialog'[p] = d /\ result'[p] = Blank /\ tmp' = Started(p, via)
        /\ buff'[p] = Cleared(p, kind) /\ dialog[p].pc = "idle"
    BY DEF FileDialog, AInv, TInv, TypeOK
  <1>2. /\ d.kind = kind /\ d.via = via /\ d.chosen = Blank
        /\ d.pc \in {"warn", "console", "shown"}
    BY DEF NoCall
  <1> HIDE DEF d, via
  <1>3. Fresh(p, dialog'[p], buff'[p], result'[p])
    BY <1>1, <1>2, Texts DEF Fresh, Cleared, Chosen
  <1>4. Signed'
    <2>1. CASE via = "gdialog"
      <3> DEFINE line == Bare(p)
      <3>1. line \in Line /\ line.by = p /\ Text(line) = line
        <4>1. line \in Line
          BY Lines DEF Bare
        <4>2. line.by = p
          BY Author DEF Bare
        <4>3. ~line.one
          BY Texts DEF Bare
        <4> HIDE DEF line
        <4> QED
          BY <4>1, <4>2, <4>3, Texts
      <3>2. tmp' = <<line>>
        BY <1>1, <2>1 DEF Started, Bare
      <3>3. Text(line) = Bare(p)
        BY <3>1
      <3> HIDE DEF line
      <3> QED
        BY <3>1, <3>2, <3>3, SignedAnew
    <2>2. CASE via # "gdialog"
      <3>1. tmp' = tmp
        BY <1>1, <2>2 DEF Started
      <3>2. tmp # Absent => tmp[1].by # p
        BY <1>1 DEF AInv, NothingLeftBehind
      <3> QED
        BY <3>1, <3>2, SignedKept
    <2> QED
      BY <2>1, <2>2
  <1> QED
    BY <1>3, <1>4

LEMMA DismissFresh ==
  ASSUME AInv, NEW p \in Process, Dismiss(p), Alone(p)
  PROVE  Signed' /\ Fresh(p, dialog'[p], buff'[p], result'[p])
  <1>1. /\ dialog'[p].pc # "closed" /\ dialog'[p].chosen = dialog[p].chosen
        /\ dialog'[p].via = dialog[p].via /\ dialog'[p].kind = dialog[p].kind
        /\ dialog[p].pc = "warn" /\ tmp' \in {tmp, Absent}
        /\ UNCHANGED <<buff, result>>
    BY Fields DEF Dismiss, AInv, TInv, TypeOK, Call
  <1>2. Fresh(p, dialog[p], buff[p], result[p])
    BY DEF AInv
  <1> QED
    BY <1>1, <1>2, SignedKept DEF Fresh, Chosen

\* A program that closes while the choice stands.
LEMMA ClosesFresh ==
  ASSUME AInv, NEW p \in Process, Alone(p), NEW call \in Call, NEW line \in Line,
         NEW printed \in {<<>>, <<line>>}, Closes(p, call, printed),
         dialog[p].pc \in {"shown", "written"},
         call.via = dialog[p].via, call.kind = dialog[p].kind,
         call.out = dialog[p].out, ~call.chosen.one,
         printed # <<>> => Printed(p, call, line),
         UNCHANGED <<buff, result>>
  PROVE  Fresh(p, dialog'[p], buff'[p], result'[p])
  <1> DEFINE out == call.out \o printed
             d == [call EXCEPT !.pc = "closed", !.out = out]
  <1>1. dialog'[p] = d
    BY DEF Closes, AInv, TInv, TypeOK
  <1>2. /\ d.via = call.via /\ d.kind = call.kind /\ d.chosen = call.chosen
        /\ d.pc = "closed" /\ d.out = out
    BY DEF Call
  <1>3. \A i \in 1..Len(out) : \/ out[i] = Warning /\ call.via = "Xdialog"
                               \/ out[i] = line /\ printed # <<>>
    <2>1. call.out = <<>> \/ (call.via = "Xdialog" /\ call.out = <<Warning>>)
      BY Fields DEF AInv, Shape
    <2> QED
      BY <2>1
  <1> HIDE DEF d, out
  <1>4. \A i \in 1..Len(d.out) : Printed(p, d, d.out[i])
    <2>1. "Xdialog" \in Pickers
      BY DEF Pickers
    <2> QED
      BY <1>2, <1>3, <2>1 DEF Printed
  <1>5. Fresh(p, dialog[p], buff[p], result[p])
    BY DEF AInv
  <1> QED
    BY <1>1, <1>2, <1>4, <1>5 DEF Fresh, Chosen

\* An open call that moves to another point, with nothing to read yet.
LEMMA OpenFresh ==
  ASSUME AInv, NEW p \in Process,
         dialog'[p].via = dialog[p].via, dialog'[p].kind = dialog[p].kind,
         ~dialog'[p].chosen.one,
         dialog[p].pc \notin {"idle", "ended", "cut off"},
         dialog'[p].pc # "closed", UNCHANGED <<buff, result>>
  PROVE  Fresh(p, dialog'[p], buff'[p], result'[p])
  <1>1. Fresh(p, dialog[p], buff[p], result[p])
    BY DEF AInv
  <1> QED
    BY <1>1 DEF Fresh, Chosen

LEMMA PickFresh ==
  ASSUME AInv, NEW p \in Process, NEW dir \in Dir \cup {NoDir},
         NEW name \in Name, Pick(p, dir, name), Alone(p)
  PROVE  Signed' /\ Fresh(p, dialog'[p], buff'[p], result'[p])
  <1> DEFINE line == Typed(p, dir, name)
             one == One(line)
             via == dialog[p].via
             call == [dialog[p] EXCEPT !.chosen = line]
  <1>1. /\ line \in Line /\ line.by = p /\ ~line.one /\ Text(line) = line
        /\ one \in Line /\ one.by = p /\ Text(one) = line
    <2>1. line \in Line /\ one \in Line
      BY Lines
    <2>2. line.by = p /\ one.by = p
      BY Author
    <2>3. ~line.one
      BY Texts
    <2> HIDE DEF line
    <2> QED
      BY <2>1, <2>2, <2>3, Texts
  <1>2. /\ dialog[p].pc = "shown"
        /\ via \in FileTools => dialog' = [dialog EXCEPT ![p] =
                                  [call EXCEPT !.pc = "written", !.ok = TRUE]]
        /\ via \notin FileTools =>
             Closes(p, call, <<IF via \in Pickers THEN line ELSE one>>)
        /\ UNCHANGED <<buff, result>>
        /\ \/ tmp' = <<line>> \/ tmp' = <<one>>
           \/ tmp' = tmp /\ (via \in FileTools /\ tmp # Absent => tmp[1].by # p)
    BY DEF Pick, FileTools
  <1> HIDE DEF one, line
  <1>3. /\ call \in Call /\ call.via = via /\ call.kind = dialog[p].kind
        /\ call.out = dialog[p].out /\ call.chosen = line
    <2>1. TInv
      BY DEF AInv
    <2>2. call.chosen = line
      BY <2>1, Fields DEF Call
    <2> QED
      BY <1>1, <2>1, <2>2, ChosenTyped
  <1> HIDE DEF call
  <1>4. CASE via \in FileTools
    <2> DEFINE d == [call EXCEPT !.pc = "written", !.ok = TRUE]
    <2>6. dialog'[p] = d
      BY <1>2, <1>4 DEF AInv, TInv, TypeOK
    <2>7. /\ d.via = via /\ d.kind = dialog[p].kind
          /\ d.chosen = line /\ d.pc = "written"
      BY <1>3 DEF Call
    <2> HIDE DEF d
    <2>1. /\ dialog'[p].via = via /\ dialog'[p].kind = dialog[p].kind
          /\ dialog'[p].chosen = line /\ dialog'[p].pc = "written"
      BY <2>6, <2>7
    <2>2. Fresh(p, dialog'[p], buff'[p], result'[p])
      BY <1>1, <1>2, <2>1, OpenFresh
    <2>3. CASE tmp' = <<line>>
      BY <1>1, <2>1, <2>2, <2>3, SignedAnew
    <2>4. CASE tmp' = <<one>>
      BY <1>1, <2>1, <2>2, <2>4, SignedAnew
    <2>5. CASE tmp' = tmp /\ (tmp # Absent => tmp[1].by # p)
      BY <2>2, <2>5, SignedKept
    <2> QED
      BY <1>2, <1>4, <2>2, <2>3, <2>4, <2>5
  <1>5. CASE via \notin FileTools
    <2> DEFINE x == IF via \in Pickers THEN line ELSE one
    <2>1. Closes(p, call, <<x>>)
      BY <1>2, <1>5
    <2>2. x \in Line /\ Printed(p, call, x)
      BY <1>1, <1>3 DEF Printed
    <2> HIDE DEF x
    <2>3. Fresh(p, dialog'[p], buff'[p], result'[p])
      BY <1>1, <1>2, <1>3, <2>1, <2>2, ClosesFresh
    <2>4. tmp # Absent => tmp[1].by # p
      BY <1>5 DEF AInv, NothingLeftBehind
    <2>5. tmp' = tmp
      BY <1>5 DEF Pick, FileTools
    <2>6. Signed'
      BY <2>4, <2>5, SignedKept
    <2> QED
      BY <2>3, <2>6
  <1> QED
    BY <1>4, <1>5

\* A call that closes with x or with nothing, the choice as it was.
LEMMA SameFresh ==
  ASSUME AInv, NEW p \in Process, Alone(p), NEW x \in Line,
         NEW printed \in {<<>>, <<x>>}, Closes(p, dialog[p], printed),
         dialog[p].pc \in {"shown", "written"},
         printed # <<>> => Printed(p, dialog[p], x), UNCHANGED <<buff, result, tmp>>
  PROVE  Signed' /\ Fresh(p, dialog'[p], buff'[p], result'[p])
  <1>1. dialog[p] \in Call /\ ~dialog[p].chosen.one
    BY Fields DEF AInv, Fresh
  <1>2. Fresh(p, dialog'[p], buff'[p], result'[p])
    BY <1>1, ClosesFresh
  <1>3. dialog'[p].chosen = dialog[p].chosen
    BY <1>1 DEF Closes, AInv, TInv, TypeOK, Call
  <1> QED
    BY <1>2, <1>3, SignedKept

LEMMA CancelFresh ==
  ASSUME AInv, NEW p \in Process, Cancel(p), Alone(p)
  PROVE  Signed' /\ Fresh(p, dialog'[p], buff'[p], result'[p])
  <1> DEFINE via == dialog[p].via
  <1>1. dialog[p].pc = "shown" /\ UNCHANGED <<buff, result, tmp>>
    BY DEF Cancel
  <1>2. CASE via \in Pickers
    <2>1. \E printed \in {<<>>, <<Blank>>} : Closes(p, dialog[p], printed)
      BY <1>2, CancelledLine DEF Cancel, Pickers, FileTools
    <2>2. Printed(p, dialog[p], Blank)
      BY <1>2 DEF Printed
    <2> QED
      BY <1>1, <2>1, <2>2, SameFresh, Lines
  <1>3. CASE via \in FileTools
    <2>1. dialog' = [dialog EXCEPT ![p].pc = "written"]
      BY <1>3 DEF Cancel, FileTools, Pickers
    <2>2. /\ dialog'[p].via = via /\ dialog'[p].kind = dialog[p].kind
          /\ dialog'[p].chosen = dialog[p].chosen /\ dialog'[p].pc = "written"
      BY <2>1, Fields DEF AInv, TInv, TypeOK, Call
    <2>3. ~dialog[p].chosen.one
      BY DEF AInv, Fresh
    <2> QED
      BY <1>1, <2>2, <2>3, OpenFresh, SignedKept
  <1>4. CASE via \notin Pickers \cup FileTools
    <2>1. Closes(p, dialog[p], <<Blank>>)
      BY <1>4 DEF Cancel, Cancelled
    <2>2. Printed(p, dialog[p], Blank)
      BY <1>4, Texts, Lines DEF Printed
    <2> QED
      BY <1>1, <2>1, <2>2, SameFresh, Lines
  <1> QED
    BY <1>2, <1>3, <1>4

LEMMA EscapeFresh ==
  ASSUME AInv, NEW p \in Process, Escape(p), Alone(p)
  PROVE  Signed' /\ Fresh(p, dialog'[p], buff'[p], result'[p])
  <1> DEFINE line == One(EscapeOf(p))
  <1>1. /\ dialog[p].pc = "shown" /\ UNCHANGED <<buff, result>>
        /\ dialog' = [dialog EXCEPT ![p].pc = "written"] /\ tmp' = <<line>>
    BY DEF Escape, EscapeOf
  <1>2. /\ dialog'[p].via = dialog[p].via /\ dialog'[p].kind = dialog[p].kind
        /\ dialog'[p].chosen = dialog[p].chosen /\ dialog'[p].pc = "written"
    BY <1>1, Fields DEF AInv, TInv, TypeOK, Call
  <1>3. ~dialog[p].chosen.one
    BY DEF AInv, Fresh
  <1>4. line \in Line /\ line.by = p /\ Text(line) = EscapeOf(p)
    <2>1. EscapeOf(p) \in Line /\ line \in Line
      BY Lines DEF EscapeOf
    <2>2. line.by = p
      BY Author DEF EscapeOf
    <2>3. ~EscapeOf(p).one
      BY Texts DEF EscapeOf
    <2> QED
      BY <2>1, <2>2, <2>3, Texts
  <1> HIDE DEF line
  <1> QED
    BY <1>1, <1>2, <1>3, <1>4, OpenFresh, SignedAnew

LEMMA ExitStatusFresh ==
  ASSUME AInv, NEW p \in Process, ExitStatus(p), Alone(p)
  PROVE  Signed' /\ Fresh(p, dialog'[p], buff'[p], result'[p])
  <1> DEFINE line == One(Typed("shell", NoDir, "27"))
  <1>1. line \in Line
    BY Lines
  <1>2. /\ dialog[p].pc = "shown" /\ dialog[p].via \in {"gxmessage", "gmessage"}
        /\ Closes(p, dialog[p], <<line>>) /\ UNCHANGED <<buff, result, tmp>>
    BY DEF ExitStatus
  <1>3. line.by = "shell"
    BY Author
  <1> HIDE DEF line
  <1>4. Printed(p, dialog[p], line)
    BY <1>2, <1>3 DEF Printed, Pickers
  <1> QED
    BY <1>1, <1>2, <1>4, SameFresh

LEMMA ComplainFresh ==
  ASSUME AInv, NEW p \in Process, Complain(p), Alone(p)
  PROVE  Signed' /\ Fresh(p, dialog'[p], buff'[p], result'[p])
  <1>1. /\ dialog[p].pc = "shown" /\ UNCHANGED <<buff, result, tmp>>
        /\ dialog' = [dialog EXCEPT ![p].out = <<Warning>>]
    BY DEF Complain, Warning
  <1>2. /\ dialog'[p].via = dialog[p].via /\ dialog'[p].kind = dialog[p].kind
        /\ dialog'[p].chosen = dialog[p].chosen /\ dialog'[p].pc = "shown"
    BY <1>1, Fields DEF AInv, TInv, TypeOK, Call
  <1>3. ~dialog[p].chosen.one
    BY DEF AInv, Fresh
  <1> QED
    BY <1>1, <1>2, <1>3, OpenFresh, SignedKept

LEMMA CatFresh ==
  ASSUME AInv, NEW p \in Process, Cat(p), Alone(p)
  PROVE  Signed' /\ Fresh(p, dialog'[p], buff'[p], result'[p])
  <1> DEFINE head == IF tmp = Absent THEN Blank ELSE tmp[1]
             x == IF dialog[p].via = "terminal" THEN head
                  ELSE [head EXCEPT !.one = dialog[p].ok]
  <1>1. /\ dialog[p].pc = "written" /\ UNCHANGED <<buff, result, tmp>>
        /\ Closes(p, dialog[p],
                  IF dialog[p].via = "terminal" THEN tmp ELSE <<x>>)
    BY DEF Cat
  <1>2. dialog[p].via \in FileTools /\ dialog[p].via \notin Pickers
    BY <1>1, Fields DEF AInv, Shape, FileTools, Pickers
  <1>3. tmp \in Seq(Line) /\ Len(tmp) <= 1
    BY RestKept DEF AInv, TypeRest
  <1>4. head \in Line
    <2>1. tmp # <<>> => tmp[1] \in Line
      BY <1>3
    <2> QED
      BY <2>1, Lines
  <1>5. \/ Text(head) \in {Blank, Bare(p), EscapeOf(p), dialog[p].chosen}
        \/ head.by \in Somebody \ {p}
    <2>1. Text(Blank) = Blank
      BY Lines, Texts
    <2> QED
      BY <2>1 DEF AInv, Signed
  <1>6. tmp = <<>> \/ tmp = <<head>>
    <2>1. Len(tmp) \in Nat
      BY <1>3
    <2>2. Len(tmp) \in {0, 1}
      BY <1>3, <2>1, Small
    <2>3. CASE Len(tmp) = 0
      BY <1>3, <2>3
    <2>4. CASE Len(tmp) = 1
      <3>1. tmp = <<tmp[1]>>
        BY <1>3, <2>4
      <3>2. tmp # <<>>
        BY <2>4
      <3> QED
        BY <3>1, <3>2
    <2> QED
      BY <2>2, <2>3, <2>4
  <1> HIDE DEF head
  <1>7. x \in Line /\ Text(x) = Text(head) /\ x.by = head.by
    <2>1. dialog[p].ok \in BOOLEAN
      BY Fields DEF AInv, Call
    <2> QED
      BY <1>4, <2>1 DEF Line, Text
  <1>8. Printed(p, dialog[p], x)
    BY <1>2, <1>5, <1>7 DEF Printed
  <1>9. tmp = <<>> \/ (dialog[p].via = "terminal" => tmp = <<x>>)
    BY <1>6
  <1> HIDE DEF x
  <1> DEFINE printed == IF dialog[p].via = "terminal" THEN tmp ELSE <<x>>
  <1>10. printed \in {<<>>, <<x>>}
    BY <1>9
  <1>11. Closes(p, dialog[p], printed)
    BY <1>1
  <1> HIDE DEF printed
  <1> QED
    BY <1>1, <1>7, <1>8, <1>10, <1>11, SameFresh

\* A call that returns what it may return.
LEMMA ReturnsFresh ==
  ASSUME AInv, NEW p \in Process, Alone(p), NEW call \in Call, NEW answer,
         Returns(p, call, answer), ~call.chosen.one, Chosen(p, call, answer),
         \/ tmp' = Absent
         \/ /\ tmp' = tmp
            /\ call.chosen = dialog[p].chosen \/ dialog[p].via \notin FileTools
  PROVE  Signed' /\ Fresh(p, dialog'[p], buff'[p], result'[p])
  <1> DEFINE d == [call EXCEPT !.pc = "idle", !.out = <<>>]
  <1>1. dialog'[p] = d /\ result'[p] = answer
    BY DEF Returns, AInv, TInv, TypeOK
  <1>2. d.via = call.via /\ d.chosen = call.chosen /\ d.pc = "idle"
    BY DEF Call
  <1> HIDE DEF d
  <1>3. Fresh(p, dialog'[p], buff'[p], result'[p])
    BY <1>1, <1>2 DEF Fresh, Chosen
  <1>4. dialog[p].via \notin FileTools => tmp = Absent \/ tmp[1].by # p
    BY DEF AInv, NothingLeftBehind
  <1>5. Signed'
    BY <1>1, <1>2, <1>4, SignedKept
  <1> QED
    BY <1>3, <1>5

\* What is read at the end of a call.
LEMMA ReadFresh ==
  ASSUME AInv, NEW p \in Process, dialog[p].pc = "closed"
  PROVE  \A read \in {LastLine(dialog[p].out, Blank), AllLines(dialog[p].out)} :
           read \in Line /\ (read = Blank \/ Printed(p, dialog[p], read))
  <1> DEFINE out == dialog[p].out
  <1>1. LastLine(dialog[p].out, Blank) \in Line /\ AllLines(dialog[p].out) \in Line
    BY ReadType, Lines DEF AInv
  <1>2. \A i \in 1..Len(out) : Printed(p, dialog[p], out[i])
    BY DEF AInv, Fresh
  <1>3. out \in Seq(Line)
    BY Fields DEF AInv
  <1> HIDE DEF out
  <1>4. /\ out # <<>> => Len(out) \in 1..Len(out)
        /\ Len(out) = 1 => 1 \in 1..Len(out)
    BY <1>3
  <1> QED
    BY <1>1, <1>2, <1>4 DEF LastLine, AllLines, out

LEMMA ReturnSavedFresh ==
  ASSUME AInv, NEW p \in Process, ReturnSaved(p), Alone(p)
  PROVE  Signed' /\ Fresh(p, dialog'[p], buff'[p], result'[p])
  <1> DEFINE d == dialog[p]
             read == LastLine(d.out, Blank)
             answer == SavedPath(read)
  <1>1. /\ d.pc = "closed" /\ d.via \in Pickers /\ d.kind = "save" /\ tmp' = tmp
        /\ Returns(p, d, SavedPath(LastLine(d.out, buff[p])))
    BY DEF ReturnSaved
  <1>2. buff[p] = Blank /\ ~d.chosen.one
    BY <1>1 DEF AInv, Fresh
  <1>3. Returns(p, d, answer)
    BY <1>1, <1>2
  <1>4. read \in Line /\ (read = Blank \/ Printed(p, d, read))
    BY <1>1, ReadFresh
  <1>5. d \in Call
    BY Fields DEF AInv
  <1> HIDE DEF read
  <1>6. Chosen(p, d, answer)
    BY <1>1, <1>4, <1>5, CheckedPath DEF AInv
  <1> HIDE DEF answer
  <1> QED
    BY <1>1, <1>2, <1>3, <1>5, <1>6, ReturnsFresh

LEMMA ReturnOpenedFresh ==
  ASSUME AInv, NEW p \in Process, ReturnOpened(p), Alone(p)
  PROVE  Signed' /\ Fresh(p, dialog'[p], buff'[p], result'[p])
  <1> DEFINE d == dialog[p]
             read == AllLines(d.out)
             answer == Opened(read)
  <1>1. /\ d.pc = "closed" /\ d.via \in Pickers /\ tmp' = tmp
        /\ Returns(p, d, answer)
    BY DEF ReturnOpened
  <1>2. d \in Call /\ ~d.chosen.one
    BY Fields DEF AInv, Fresh
  <1>3. read \in Line /\ (read = Blank \/ Printed(p, d, read))
    BY <1>1, ReadFresh
  <1> HIDE DEF read
  <1>4. Chosen(p, d, answer)
    BY <1>1, <1>2, <1>3, CheckedPath DEF AInv
  <1> HIDE DEF answer
  <1> QED
    BY <1>1, <1>2, <1>4, ReturnsFresh

LEMMA ReturnTextFresh ==
  ASSUME AInv, NEW p \in Process, ReturnText(p), Alone(p)
  PROVE  Signed' /\ Fresh(p, dialog'[p], buff'[p], result'[p])
  <1> DEFINE d == dialog[p]
             read == LastLine(d.out, Blank)
             text == IF read.one /\ read.name # "^[" THEN Text(read) ELSE Blank
             answer == TextAnswer(d.kind, text)
  <1>1. /\ d.pc = "closed" /\ d.via \in InputTools /\ tmp' = Absent
        /\ Returns(p, d, answer)
    BY DEF ReturnText, ReturnsText, Removed
  <1>2. d \in Call /\ ~d.chosen.one
    BY Fields DEF AInv, Fresh
  <1>3. read \in Line /\ (read = Blank \/ Printed(p, d, read))
    BY <1>1, ReadFresh
  <1> HIDE DEF read
  <1>4. Chosen(p, d, answer)
    BY <1>1, <1>2, <1>3, CheckedText DEF AInv
  <1> HIDE DEF answer
  <1> QED
    BY <1>1, <1>2, <1>4, ReturnsFresh

LEMMA TypeTextFresh ==
  ASSUME AInv, NEW p \in Process, NEW dir \in Dir \cup {NoDir},
         NEW name \in Name, TypeText(p, dir, name), Alone(p)
  PROVE  Signed' /\ Fresh(p, dialog'[p], buff'[p], result'[p])
  <1> DEFINE line == Typed(p, dir, name)
             call == [dialog[p] EXCEPT !.chosen = line]
             answer == TextAnswer(call.kind, line)
  <1>1. /\ dialog[p].pc \in {"console", "again"}
        /\ Returns(p, call, answer) /\ tmp' = tmp
    BY DEF TypeText, ReturnsText
  <1>2. line \in Line /\ ~line.one
    BY Lines, Texts
  <1> HIDE DEF line
  <1>3. call \in Call /\ call.chosen = line /\ call.pc = dialog[p].pc
    <2>1. TInv
      BY DEF AInv
    <2>2. call.chosen = line
      BY <2>1, Fields DEF Call
    <2> QED
      BY <1>2, <2>1, <2>2, ChosenTyped
  <1>4. dialog[p].via \notin FileTools
    BY <1>1, <1>3, Fields DEF AInv, Shape, FileTools
  <1> HIDE DEF call
  <1>5. Chosen(p, call, answer)
    BY <1>2, <1>3, AnswerType DEF Chosen
  <1> HIDE DEF answer
  <1> QED
    BY <1>1, <1>2, <1>3, <1>4, <1>5, ReturnsFresh

LEMMA NoTextFresh ==
  ASSUME AInv, NEW p \in Process, NoText(p), Alone(p)
  PROVE  Signed' /\ Fresh(p, dialog'[p], buff'[p], result'[p])
  <1>1. Returns(p, dialog[p], Blank) /\ tmp' = tmp
    BY Lines, AnswerType DEF NoText, ReturnsText
  <1>2. dialog[p] \in Call /\ ~dialog[p].chosen.one
    BY Fields DEF AInv, Fresh
  <1>3. Chosen(p, dialog[p], Blank)
    BY DEF Chosen
  <1> QED
    BY <1>1, <1>2, <1>3, ReturnsFresh

LEMMA PointFresh ==
  ASSUME AInv, NEW p \in Process, SkipEmptyLine(p) \/ CanReceiveFiles(p), Alone(p)
  PROVE  Signed' /\ Fresh(p, dialog'[p], buff'[p], result'[p])
  <1>1. UNCHANGED <<buff, result, tmp>>
    BY DEF SkipEmptyLine, CanReceiveFiles
  <1>2. /\ dialog'[p].via = dialog[p].via /\ dialog'[p].kind = dialog[p].kind
        /\ dialog'[p].chosen = dialog[p].chosen
        /\ \/ dialog'[p].pc \in {"ended", "cut off"}
           \/ dialog[p].pc = "console" /\ dialog'[p].pc = "again"
    <2>1. CASE SkipEmptyLine(p)
      BY <2>1, PointGoes DEF SkipEmptyLine, AInv
    <2>2. CASE CanReceiveFiles(p)
      BY <2>2, CutOffGoes DEF AInv, Goes
    <2> QED
      BY <2>1, <2>2
  <1>3. Fresh(p, dialog[p], buff[p], result[p])
    BY DEF AInv
  <1> QED
    BY <1>1, <1>2, <1>3, SignedKept DEF Fresh, Chosen

LEMMA AnswerStep ==
  ASSUME AInv, [Next]_vars
  PROVE  AInv'
  <1>1. TInv' /\ NothingLeftBehind'
    BY TInvStep, NothingLeftStep DEF AInv
  <1>2. ASSUME NEW p \in Process, Step(p)
        PROVE  AInv'
    <2>1. Alone(p)
      BY <1>2, StepAlone DEF AInv
    <2>2. Signed' /\ Fresh(p, dialog'[p], buff'[p], result'[p])
      BY <1>2, <2>1, DialogFresh, DismissFresh, PickFresh, TypeTextFresh,
         CancelFresh, EscapeFresh, ExitStatusFresh, ComplainFresh, CatFresh,
         ReturnSavedFresh, ReturnOpenedFresh, ReturnTextFresh, NoTextFresh,
         PointFresh
      DEF Step, tinyfd_saveFileDialog, tinyfd_openFileDialog, Kind
    <2> QED
      BY <1>1, <2>1, <2>2, FreshStep DEF AInv
  <1>3. CASE UNCHANGED <<dialog, buff, result, tmp>>
    BY <1>1, <1>3 DEF AInv, Signed
  <1>4. ASSUME NEW q \in Others, OtherDialog(q)
        PROVE  AInv'
    <2>1. tmp' = Absent \/ tmp'[1].by = q
      <3>1. CASE tmp' # Absent
        <4>1. PICK dir \in Dir, name \in Name :
                tmp' = <<[Typed(q, dir, name) EXCEPT
                           !.one = "gdialog" \notin installed]>>
          BY <1>4, <3>1 DEF OtherDialog
        <4> DEFINE line == [Typed(q, dir, name) EXCEPT
                             !.one = "gdialog" \notin installed]
        <4>2. line.by = q
          BY Author
        <4>3. tmp' = <<line>>
          BY <4>1
        <4> HIDE DEF line
        <4> QED
          BY <4>2, <4>3
      <3> QED
        BY <3>1
    <2>2. UNCHANGED <<dialog, buff, result>> /\ q \notin Process
      BY <1>4, DialogsAssumption DEF OtherDialog
    <2>3. Signed'
      BY <2>1, <2>2 DEF Signed, Somebody
    <2> QED
      BY <1>1, <2>2, <2>3 DEF AInv
  <1>5. CASE UNCHANGED vars
    BY <1>3, <1>5 DEF vars
  <1>6. CASE (\E t \in Changing : InstallOrRemove(t))
             \/ (\E dir \in Volatile : CreateOrRemove(dir))
    BY <1>3, <1>6 DEF InstallOrRemove, CreateOrRemove
  <1> QED
    BY <1>2, <1>4, <1>5, <1>6 DEF Next

\* However the dialogs of several processes overlap, what the static buffers and
\* the shared file held before does not become an answer: a dialog returns what
\* its own user has chosen in this call, but for the two exceptions of the code.
THEOREM AnswersAreChoices == Spec => []AnswerIsChoice
  <1>1. Init => AInv
    <2>1. ASSUME Init PROVE AInv
      <3>1. TInv /\ NothingLeftBehind /\ Signed
        BY <2>1, TInvInit DEF Init, NothingLeftBehind, Signed
      <3>2. \A p \in Process : dialog[p] = NoCall /\ result[p] = Blank
        BY <2>1 DEF Init
      <3>3. /\ NoCall.pc = "idle" /\ NoCall.chosen = Blank
        BY DEF NoCall
      <3> QED
        BY <3>1, <3>2, <3>3, Texts DEF AInv, Fresh, Chosen
    <2> QED
      BY <2>1
  <1>2. AInv => AnswerIsChoice
    BY DEF AInv, Fresh, Chosen, AnswerIsChoice, Somebody
  <1> QED
    BY <1>1, <1>2, AnswerStep, PTL DEF Spec

=============================================================================
