CONSTANTS
  Process = {"p"}
  Others = {"q"}
  Settings <- AnySetting
  Tools = {"kdialog", "zenity", "tkinter3", "Xdialog", "gxmessage", "gdialog", "terminal"}
  Changing = {"zenity"}
  Dir = {"usb"}
  Name = {"a"}
  BadName = {}
  Volatile = {"usb"}
SPECIFICATION Spec
INVARIANTS TypeOK AnswerIsChoice DetectedOnce NothingLeftBehind
CHECK_DEADLOCK FALSE
