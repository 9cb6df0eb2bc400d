------------------------------ MODULE Dialogs -------------------------------
(***************************************************************************)
(* The file dialogs behind /a and /f: the part of tinyfiledialogs.cpp that *)
(* ServerMod.cpp and ClientMod.cpp call on unix.  A dialog is a program    *)
(* that the process looks for, starts with popen and whose output it       *)
(* reads; without one it asks in a terminal window or on the console.      *)
(* Several WireSend processes run on a host and share its programs, its    *)
(* file system and /tmp/tinyfd.txt.                                        *)
(*                                                                         *)
(* Command lines are left out, except for what they do to the answer: so   *)
(* is lLastDirectory, where kdialog's dialog opens.  A path is a directory *)
(* and a name, and is shorter than MAX_PATH_OR_CMD (1024 bytes).           *)
(* tinyfd_inputBox's own buffer is left out: it is emptied at each entry,  *)
(* and its callers put back what it held, which is nothing.                *)
(***************************************************************************)
EXTENDS Integers, Sequences

CONSTANTS
  Process,      \* WireSend processes of the host
  Others,       \* more of them, seen only in what they do to /tmp/tinyfd.txt
  Settings,     \* Settings[p]: the environments that p may be started in
  Tools,        \* the programs that the host may have
  Changing,     \* those installed or removed while the processes run
  Dir,          \* the directories that may exist
  Name,         \* the names a user may give to a file
  BadName,      \* those of them that filenameValid refuses
  Volatile      \* the directories that are created and removed meanwhile

NoDir == ""      \* the directory part of a bare name
NoName == ""

ASSUME DialogsAssumption ==
  /\ Changing \subseteq Tools \ {"gdialog"}
  /\ Process \cap Others = {}
  /\ Volatile \subseteq Dir /\ NoDir \notin Dir
  /\ {NoName, "^[", "warning"} \cap Name = {} /\ BadName \subseteq Name

\* A line of text: the path it gives, who wrote it, and whether it begins with
\* the "1" that an input box puts before an answer.
Line == [dir : Dir \cup {NoDir},
         name : Name \cup {NoName, "^[", "27", "warning"},
         by : Process \cup Others \cup {"nobody", "shell"}, one : BOOLEAN]
Blank == [dir |-> NoDir, name |-> NoName, by |-> "nobody", one |-> FALSE]
Typed(p, dir, name) == [dir |-> dir, name |-> name, by |-> p, one |-> FALSE]
One(line) == [line EXCEPT !.one = TRUE]
Text(line) == [line EXCEPT !.one = FALSE]

\* The programs, by what they are to WireSend.  shellementary is never present
\* (line 4162), the curses programs dialog and whiptail are not allowed (137).
Pickers == {"osascript", "kdialog", "zenity", "matedialog", "qarma", "boxer",
            "shanty", "yad", "Xdialog", "tkinter3", "tkinter2"}
InputTools == {"gxmessage", "gmessage", "gdialog", "terminal"}
Notifiers == {"pythonDbus", "perlDbus", "notifysend", "notify"}
Program == Pickers \cup InputTools \cup Notifiers \cup {"xmessage"}
FileTools == {"gdialog", "terminal"}    \* these answer through /tmp/tinyfd.txt

VARIABLES
  env,          \* env[p]: graphic, kde, mac, ssh, tty: p's environment
  installed,    \* the programs the host has
  presence,     \* presence[p][t]: the static variable lTPresent; -1: unset
  warned,       \* gWarningDisplayed of each process
  dialog,       \* dialog[p]: the call that p's main thread is in
  buff,         \* buff[p]: lBuff of tinyfd_saveFileDialog
  result,       \* what the last call of p returned; Blank: NULL
  used,         \* used[p][kind]: how p's first such call asked (history)
  target,       \* IncomingFileRequest.FilePathOnTarget of each process
  tmp,          \* /tmp/tinyfd.txt: a line, or none
  dirs, files   \* what exists on the host's disk

host == <<installed, dirs, files>>
caches == <<presence, warned, used>>
vars == <<env, host, caches, dialog, buff, result, target, tmp>>

Kind == {"save", "open"}
Absent == <<>>
File == [dir : Dir \cup {NoDir}, name : Name]

\* pc: "idle"; "warn", the "missing software!" box; "shown"; "written", the
\* answer is in /tmp/tinyfd.txt; "closed", the output can be read; "console" and
\* "again", at fgets; "ended", the process is gone; "cut off", it went while this
\* call was open.
Call == [pc : {"idle", "warn", "shown", "written", "closed", "console",
               "again", "ended", "cut off"},
         kind : Kind, via : Program \cup {"none", "console"},
         out : Seq(Line),
         chosen : Line, ok : BOOLEAN]
Over == {"ended", "cut off"}
NoCall == [pc |-> "idle", kind |-> "save", via |-> "none", out |-> <<>>,
           chosen |-> Blank, ok |-> FALSE]

TypeOK ==
  /\ DOMAIN env = Process /\ \A p \in Process : env[p] \in Settings[p]
  /\ installed \subseteq Tools
  /\ presence \in [Process -> [Program -> {-1, 0, 1}]]
  /\ warned \in [Process -> BOOLEAN]
  /\ dialog \in [Process -> Call]
  /\ \A p \in Process : Len(dialog[p].out) <= 2
  /\ buff \in [Process -> Line]
  /\ result \in [Process -> Line] /\ target \in [Process -> Line]
  /\ used \in [Process -> [Kind -> Program \cup {"none", "console"}]]
  /\ tmp \in Seq(Line)
  /\ dirs \subseteq Dir /\ files \subseteq File

Init ==
  /\ env \in {e \in [Process -> UNION {Settings[p] : p \in Process}] :
               \A p \in Process : e[p] \in Settings[p]}
  /\ installed \in SUBSET Tools
  /\ presence = [p \in Process |-> [t \in Program |-> -1]]
  /\ warned = [p \in Process |-> FALSE]
  /\ dialog = [p \in Process |-> NoCall]
  /\ buff = [p \in Process |-> Blank]
  /\ result = [p \in Process |-> Blank]
  /\ used = [p \in Process |-> [k \in Kind |-> "none"]]
  /\ target = [p \in Process |-> Blank]
  /\ tmp = Absent
  /\ dirs = Dir
  /\ files = {f \in File : f.dir # NoDir /\ f.name \notin BadName}

-----------------------------------------------------------------------------
(***************************************************************************)
(* Which program.  A program is looked for once: its static variable keeps *)
(* what was found for as long as the process runs.                         *)
(***************************************************************************)
\* detectPresence, and tryCommand for the tkinter modules: is it there now?
detectPresence(t) == t \in installed

\* Mutant of Found: the static variable is set anew each time.
FoundAnew(p, t) == detectPresence(t)

Found(p, t) ==
  IF presence[p][t] = -1 THEN detectPresence(t) ELSE presence[p][t] = 1

\* graphicMode: DISPLAY or WAYLAND_DISPLAY is set, or this is macOS or Haiku and
\* not a remote login.
graphicMode(p) == env[p].graphic \/ (env[p].mac /\ ~env[p].ssh)

zenityPresent(p) == Found(p, "zenity") /\ graphicMode(p)

\* Outside KDE zenity goes first: the first call does not even look for kdialog.
kdialogFound(p) ==
  /\ Found(p, "kdialog")
  /\ presence[p]["kdialog"] = -1 => env[p].kde \/ ~zenityPresent(p)

\* What the static variable of t holds once t has been looked for.
Value(p, t) ==
  IF IF t = "kdialog" THEN kdialogFound(p) ELSE Found(p, t) THEN 1 ELSE 0

Present(p, t) ==
  /\ Value(p, t) = 1
  /\ t # "terminal" => graphicMode(p)
  /\ t = "osascript" => ~env[p].ssh
  /\ t \in {"tkinter3", "tkinter2", "pythonDbus"} => ~(env[p].mac /\ env[p].ssh)

\* The programs of a list that are looked for: all up to the first that is
\* present.
Looked(p, programs, order) ==
  LET present == {t \in programs : Present(p, t)}
  IN  {t \in programs : \A u \in present : order[t] <= order[u]}

\* The order in which the dialogs ask for the programs.  (shanty is looked for
\* before boxer, but boxer is used when both are there.)
SaveOrder ==
  [osascript |-> 1, kdialog |-> 2, zenity |-> 3, matedialog |-> 4, qarma |-> 5,
   boxer |-> 6, shanty |-> 7, yad |-> 8, Xdialog |-> 9, tkinter3 |-> 10,
   tkinter2 |-> 11]

OpenOrder ==
  [osascript |-> 1, kdialog |-> 2, zenity |-> 3, matedialog |-> 4, qarma |-> 5,
   boxer |-> 6, shanty |-> 7, yad |-> 8, tkinter3 |-> 9, tkinter2 |-> 10,
   Xdialog |-> 11]

\* tinyfd_inputBox asks for all of those again, in vain, and goes on.
InputOrder == [gxmessage |-> 12, gmessage |-> 13, gdialog |-> 14, terminal |-> 15]

Order(kind) ==
  [t \in Pickers \cup InputTools |->
     IF t \in InputTools THEN InputOrder[t]
     ELSE IF kind = "save" THEN SaveOrder[t] ELSE OpenOrder[t]]

\* isTerminalRunning rules out a terminal window of its own.
Candidates(p) ==
  {t \in Pickers \cup InputTools : t = "terminal" => ~env[p].tty}

Asked(p, kind) == Looked(p, Candidates(p), Order(kind))

\* The "missing software!" box of tinyfd_messageBox, after all of those.
MessageOrder ==
  [xmessage |-> 1, terminal |-> 2, pythonDbus |-> 3, perlDbus |-> 4,
   notifysend |-> 5, notify |-> 6]

BoxPrograms(p) ==
  {t \in {"xmessage", "terminal"} \cup Notifiers :
     t # "xmessage" => ~env[p].tty}

\* osascriptPresent, asked first of all, counts the warning as given in a
\* remote login.
Warned(p) == warned[p] \/ (presence[p]["osascript"] = -1 /\ env[p].ssh)

\* The program that asks.  Without any, the first call gives up when there is
\* no terminal either; otherwise the console asks.
Backend(p, kind) ==
  LET found == {t \in Asked(p, kind) : Present(p, t)}
  IN  IF found # {} THEN CHOOSE t \in found : TRUE
      ELSE IF ~Warned(p) /\ ~env[p].tty THEN "none" ELSE "console"

-----------------------------------------------------------------------------
(***************************************************************************)
(* A call: tinyfd_saveFileDialog from /a, tinyfd_openFileDialog from /f.   *)
(***************************************************************************)
\* Mutant of Cleared: the static buffer keeps the last answer.
KeepsAnswers(p, kind) == buff[p]

\* lBuff[0]='\0' at the entry.
Cleared(p, kind) == IF kind = "save" THEN Blank ELSE buff[p]

\* popen: gdialog's shell opens and empties /tmp/tinyfd.txt at once.
Started(p, via) ==
  IF via = "gdialog" THEN <<Typed(p, NoDir, NoName)>> ELSE tmp

\* gWarningDisplayed: the box is shown once, and only by an input box that
\* finds no program for a dialog.
Warns(p, via) == via \in {"none", "terminal", "console"} /\ ~Warned(p)

FileDialog(p, kind) ==
  LET via == Backend(p, kind)
      warns == Warns(p, via)
      looked == Asked(p, kind) \cup
        (IF warns THEN Looked(p, BoxPrograms(p), MessageOrder) ELSE {})
  IN  /\ dialog[p].pc = "idle"
      /\ dialog' = [dialog EXCEPT ![p] =
           [NoCall EXCEPT !.kind = kind, !.via = via,
              !.pc = IF warns THEN "warn"
                     ELSE IF via = "console" THEN "console" ELSE "shown"]]
      /\ presence' = [presence EXCEPT ![p] =
           [t \in Program |-> IF t \in looked THEN Value(p, t) ELSE @[t]]]
      /\ warned' = [warned EXCEPT ![p] = Warned(p) \/ warns]
      /\ used' = IF used[p][kind] = "none"
                   THEN [used EXCEPT ![p][kind] = via] ELSE used
      /\ buff' = [buff EXCEPT ![p] = Cleared(p, kind)]
      /\ result' = [result EXCEPT ![p] = Blank]
      /\ tmp' = Started(p, via)
      /\ UNCHANGED <<env, host, target>>

tinyfd_saveFileDialog(p) == FileDialog(p, "save")

tinyfd_openFileDialog(p) == FileDialog(p, "open")

\* The box is a terminal window of its own, which puts its answer into
\* /tmp/tinyfd.txt and removes it behind it.
TerminalBox(p) == Present(p, "terminal") /\ ~env[p].tty /\ ~Present(p, "xmessage")

\* The user closes the box, presses enter, or the notification has been sent.
Dismiss(p) ==
  LET via == dialog[p].via
  IN  /\ dialog[p].pc = "warn"
      /\ dialog' = [dialog EXCEPT ![p].pc =
           CASE via = "none" -> "idle" [] via = "console" -> "console"
             [] OTHER -> "shown"]
      /\ tmp' = IF TerminalBox(p) THEN Absent ELSE tmp
      /\ UNCHANGED <<env, host, caches, buff, result, target>>

-----------------------------------------------------------------------------
(***************************************************************************)
(* While the program runs.  What it prints is in dialog[p].out when it has *)
(* closed.                                                                 *)
(***************************************************************************)
Closes(p, call, printed) ==
  dialog' = [dialog EXCEPT ![p] =
               [call EXCEPT !.pc = "closed", !.out = @ \o printed]]

\* The user picks a file: a program prints its path, an input box prints "1" and
\* the text.  The programs that use /tmp/tinyfd.txt write it there first.
Pick(p, dir, name) ==
  LET line == Typed(p, dir, name)
      via == dialog[p].via
      call == [dialog[p] EXCEPT !.chosen = line]
  IN  /\ dialog[p].pc = "shown"
      /\ via \in Pickers => dir # NoDir
      /\ IF via \in FileTools
           THEN dialog' = [dialog EXCEPT ![p] =
                             [call EXCEPT !.pc = "written", !.ok = TRUE]]
           ELSE Closes(p, call, <<IF via \in Pickers THEN line ELSE One(line)>>)
      /\ CASE via = "terminal" -> tmp' = <<One(line)>>
           \* gdialog writes to the file it has opened, which may be gone
           [] via = "gdialog" ->
                tmp' \in {<<line>>} \cup
                  (IF tmp # Absent /\ tmp[1].by = p THEN {} ELSE {tmp})
           [] OTHER -> UNCHANGED tmp
      /\ UNCHANGED <<env, host, caches, buff, result, target>>

\* What a program prints without a choice.  tkinter's result is '' or, in some
\* versions, an empty tuple: Python prints an empty line for it, but for the
\* tuple nothing when a file is to be saved.
SaveCancelled(via) ==
  IF via \in {"tkinter3", "tkinter2"} THEN {<<>>, <<Blank>>} ELSE {<<>>}

OpenCancelled(via) ==
  IF via \in {"tkinter3", "tkinter2"} THEN {<<Blank>>} ELSE {<<>>}

\* An input box prints "0".
Cancelled(kind, via) ==
  IF via \notin Pickers THEN {<<Blank>>}
  ELSE IF kind = "save" THEN SaveCancelled(via) ELSE OpenCancelled(via)

\* The user cancels or closes the window; or the program has been removed since
\* it was found, or dies.
Cancel(p) ==
  LET d == dialog[p]
  IN  /\ d.pc = "shown"
      /\ IF d.via \in FileTools
           THEN dialog' = [dialog EXCEPT ![p].pc = "written"]
           ELSE \E printed \in Cancelled(d.kind, d.via) : Closes(p, d, printed)
      /\ UNCHANGED <<env, host, caches, buff, result, target, tmp>>

\* Escape and enter in the terminal window: the character is in the answer.
Escape(p) ==
  /\ dialog[p].pc = "shown" /\ dialog[p].via = "terminal"
  /\ dialog' = [dialog EXCEPT ![p].pc = "written"]
  /\ tmp' = <<One(Typed(p, NoDir, "^["))>>
  /\ UNCHANGED <<env, host, caches, buff, result, target>>

\* "echo $?$szAnswer" (line 6042): when the shell does not find gxmessage, or it
\* is killed, its exit status (127, 137) begins with the digit of the OK button.
ExitStatus(p) ==
  /\ dialog[p].pc = "shown" /\ dialog[p].via \in {"gxmessage", "gmessage"}
  /\ Closes(p, dialog[p], <<One(Typed("shell", NoDir, "27"))>>)
  /\ UNCHANGED <<env, host, caches, buff, result, target, tmp>>

\* Mutant of Complain: each complaint is kept.
ComplainMore(p) ==
  /\ dialog[p].pc = "shown" /\ dialog[p].via = "Xdialog"
  /\ dialog' = [dialog EXCEPT ![p].out =
                  Append(@, Typed("shell", NoDir, "warning"))]
  /\ UNCHANGED <<env, host, caches, buff, result, target, tmp>>

\* Xdialog's complaints are read with its answer: "2>&1" (lines 6802, 7364).
Complain(p) ==
  /\ dialog[p].pc = "shown" /\ dialog[p].via = "Xdialog"
  /\ dialog[p].out = <<>>
  /\ dialog' = [dialog EXCEPT ![p].out = <<Typed("shell", NoDir, "warning")>>]
  /\ UNCHANGED <<env, host, caches, buff, result, target, tmp>>

\* The shell behind gdialog and the terminal window: cat /tmp/tinyfd.txt.
Cat(p) ==
  LET d == dialog[p]
  IN  /\ d.pc = "written"
      /\ Closes(p, d,
           IF d.via = "terminal" THEN tmp
           ELSE <<[(IF tmp = Absent THEN Blank ELSE tmp[1]) EXCEPT !.one = d.ok]>>)
      /\ UNCHANGED <<env, host, caches, buff, result, target, tmp>>

-----------------------------------------------------------------------------
(***************************************************************************)
(* The end of a call: what is read, and which answers are refused.         *)
(***************************************************************************)
filenameValid(name) == name \notin BadName \cup {NoName, "warning"}
dirExists(dir) == dir \in dirs
fileExists(line) == [dir |-> line.dir, name |-> line.name] \in files

\* Which answers are passed on: a path that was picked for saving, a text that
\* was typed for it (the name is not put to filenameValid), a file to open.
SavedPath(line) ==
  IF (line.dir # NoDir => dirExists(line.dir)) /\ filenameValid(line.name)
    THEN line ELSE Blank

SavedText(line) ==
  IF (line.dir # NoDir => dirExists(line.dir)) /\ line.name # NoName
    THEN line ELSE Blank

Opened(line) == IF fileExists(line) THEN line ELSE Blank

TextAnswer(kind, line) ==
  IF kind = "save" THEN SavedText(line) ELSE Opened(line)

\* fgets until the end: tinyfd_saveFileDialog and tinyfd_inputBox keep the last
\* line, over what the buffer held; tinyfd_openFileDialog keeps all of it, and
\* two lines are no file's name.
LastLine(out, old) == IF out = <<>> THEN old ELSE out[Len(out)]

AllLines(out) == IF Len(out) = 1 THEN out[1] ELSE Blank

\* The call returns: /a stores a path as FilePathOnTarget (ServerMod.cpp:337).
Returns(p, call, answer) ==
  /\ dialog' = [dialog EXCEPT ![p] =
                  [call EXCEPT !.pc = "idle", !.out = <<>>]]
  /\ result' = [result EXCEPT ![p] = answer]
  /\ target' = IF dialog[p].kind = "save" /\ answer # Blank
                 THEN [target EXCEPT ![p] = answer] ELSE target

\* The end of tinyfd_saveFileDialog and of tinyfd_openFileDialog after popen.
ReturnSaved(p) ==
  LET d == dialog[p]
      read == LastLine(d.out, buff[p])
  IN  /\ d.pc = "closed" /\ d.via \in Pickers /\ d.kind = "save"
      /\ buff' = [buff EXCEPT ![p] = read]
      /\ Returns(p, d, SavedPath(read))
      /\ UNCHANGED <<env, host, caches, tmp>>

ReturnOpened(p) ==
  LET d == dialog[p]
  IN  /\ d.pc = "closed" /\ d.via \in Pickers /\ d.kind = "open"
      /\ Returns(p, d, Opened(AllLines(d.out)))
      /\ UNCHANGED <<env, host, caches, buff, tmp>>

\* Mutant of Removed: the file stays.
NotRemoved == tmp

\* /tmp/tinyfd.txt is wiped and removed.
Removed == Absent

\* What the input box returned: tinyfd_saveFileDialog copies it to its buffer.
ReturnsText(p, call, text) ==
  /\ buff' = IF call.kind = "save" THEN [buff EXCEPT ![p] = text] ELSE buff
  /\ Returns(p, call, TextAnswer(call.kind, text))

\* The end of tinyfd_inputBox, which removes /tmp/tinyfd.txt, and of its caller.
ReturnText(p) ==
  LET d == dialog[p]
      read == LastLine(d.out, Blank)
  IN  /\ d.pc = "closed" /\ d.via \in InputTools
      /\ tmp' = Removed
      /\ ReturnsText(p, d,
           IF read.one /\ read.name # "^[" THEN Text(read) ELSE Blank)
      /\ UNCHANGED <<env, host, caches>>

\* The console: one empty line is passed over; a second one, the end of the
\* input or an escape character is no answer.
SkipEmptyLine(p) ==
  /\ dialog[p].pc = "console"
  /\ dialog' = [dialog EXCEPT ![p].pc = "again"]
  /\ UNCHANGED <<env, host, caches, buff, result, target, tmp>>

TypeText(p, dir, name) ==
  LET line == Typed(p, dir, name)
  IN  /\ dialog[p].pc \in {"console", "again"}
      /\ ReturnsText(p, [dialog[p] EXCEPT !.chosen = line], line)
      /\ UNCHANGED <<env, host, caches, tmp>>

NoText(p) ==
  /\ dialog[p].pc \in {"console", "again"}
  /\ ReturnsText(p, dialog[p], Blank)
  /\ UNCHANGED <<env, host, caches, tmp>>

-----------------------------------------------------------------------------
(***************************************************************************)
(* What happens meanwhile.                                                 *)
(***************************************************************************)
\* The receive thread gets FILE_BEGIN: fs::space throws when the directory part
\* of FilePathOnTarget is empty or does not exist, and nothing catches it
\* (FileHandler.cpp:109-110): the process ends, whatever dialog is shown.
CanReceiveFiles(p) ==
  /\ dialog[p].pc \notin Over /\ target[p] # Blank
  /\ ~dirExists(target[p].dir)
  /\ dialog' = [dialog EXCEPT ![p].pc =
                   IF @ = "idle" THEN "ended" ELSE "cut off"]
  /\ UNCHANGED <<env, host, caches, buff, result, target, tmp>>

InstallOrRemove(t) ==
  /\ installed' = IF t \in installed THEN installed \ {t} ELSE installed \cup {t}
  /\ UNCHANGED <<env, caches, dialog, buff, result, target, tmp, dirs, files>>

\* Another process answers or ends a dialog of its own, with gdialog where the
\* host has it and in a terminal window where not.
OtherDialog(q) ==
  /\ \/ tmp' = Absent
     \/ \E dir \in Dir, name \in Name :
          tmp' = <<[Typed(q, dir, name) EXCEPT !.one = "gdialog" \notin installed]>>
  /\ UNCHANGED <<env, host, caches, dialog, buff, result, target>>

CreateOrRemove(dir) ==
  /\ dirs' = IF dir \in dirs THEN dirs \ {dir} ELSE dirs \cup {dir}
  /\ files' = {f \in files : f.dir # dir}
  /\ UNCHANGED <<env, installed, caches, dialog, buff, result, target, tmp>>

Step(p) ==
  \/ tinyfd_saveFileDialog(p) \/ tinyfd_openFileDialog(p)
  \/ Dismiss(p)
  \/ \E dir \in Dir \cup {NoDir}, name \in Name :
       Pick(p, dir, name) \/ TypeText(p, dir, name)
  \/ Cancel(p) \/ Escape(p) \/ ExitStatus(p) \/ Complain(p) \/ Cat(p)
  \/ ReturnSaved(p) \/ ReturnOpened(p) \/ ReturnText(p)
  \/ SkipEmptyLine(p) \/ NoText(p)
  \/ CanReceiveFiles(p)

Next ==
  \/ \E p \in Process : Step(p)
  \/ \E q \in Others : OtherDialog(q)
  \/ \E t \in Changing : InstallOrRemove(t)
  \/ \E dir \in Volatile : CreateOrRemove(dir)

Spec == Init /\ [][Next]_vars

-----------------------------------------------------------------------------
(***************************************************************************)
(* Properties.                                                             *)
(***************************************************************************)
\* "returns NULL on cancel" (tinyfiledialogs.hpp:160, 170), which ServerMod.cpp
\* 336 and 367 rely on: a dialog returns nothing but what its user chose in this
\* very call.  The exceptions are the code's: a text that another process has
\* left in /tmp/tinyfd.txt, and the exit status that gxmessage's shell prints.
AnswerIsChoice ==
  \A p \in Process :
    \/ result[p] \in {Blank, dialog[p].chosen}
    \/ /\ result[p].by \in (Process \cup Others) \ {p}
       /\ dialog[p].via \in FileTools
    \/ result[p].by = "shell" /\ dialog[p].via \in {"gxmessage", "gmessage"}

\* Programs are looked for once (static lTPresent): what a process has found for
\* one kind of dialog asks in every later dialog of that kind, whatever is
\* installed or removed meanwhile and whatever the other kind has looked for.
\* Only giving up for want of a program happens once at most.
DetectedOnce ==
  \A p \in Process :
    LET d == dialog[p]
    IN  used[p][d.kind] # "none" => d.via = used[p][d.kind]

\* "wipefile" (line 6367): what a user has typed does not stay in /tmp/tinyfd.txt
\* when its dialogs are over, also when the process ends then.  The exception is
\* a process that ends in the middle of a dialog that uses the file: nobody wipes
\* the file after it.
NothingLeftBehind ==
  tmp # Absent /\ tmp[1].by \in Process
    => LET d == dialog[tmp[1].by]
       IN  d.pc \notin {"idle", "ended"} /\ d.via \in FileTools

\* "Save file in " and the current directory (line 6821), the console's question,
\* answered with a file's name: the file can be received.
TypedNameIsSaved ==
  \A p \in Process : dialog[p].pc \notin Over

=============================================================================
