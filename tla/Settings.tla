---- MODULE Settings ----
(***************************************************************************)
(* The application's own configuration: App.Config in memory, config.toml, *)
(* its two writers, and the check box that makes the program start with    *)
(* the system (backend, pkg/startup, the settings dialog, main).           *)
(*                                                                         *)
(* The toolkit's thread (the "ui" writer) changes the configuration and    *)
(* saves it when a dialog closes and twice on exit.  The goroutine of      *)
(* startConfigWriter (the "ticker") saves it once, after two minutes.  A   *)
(* writer that finds the lock taken goes on as if it had written.          *)
(*                                                                         *)
(* A configuration is a value of Values, of which Default is one.          *)
(***************************************************************************)
EXTENDS Naturals

CONSTANTS
    Values, Default,    \* configurations, and the one of DefaultConfig
    Absent,             \* there is no file
    Empty,              \* the file was truncated; it reads as the defaults
    Malformed,          \* the file holds a part of a configuration
    NoBytes             \* nothing marshalled

ASSUME DefaultAssumption == Default \in Values

VARIABLES
    file,       \* config.toml
    backup,     \* config.toml.bak
    main,       \* where the thread of the toolkit is
    config,     \* App.Config
    lastWritten,\* App.lastWrittenCfg
    lock,       \* is writeLock taken?
    stage,      \* where each writer is in SaveConfigFile
    bytes,      \* what each writer has marshalled
    ticker,     \* where the goroutine of startConfigWriter is
    dialog,     \* is the settings dialog shown?
    checked,    \* the check box "Start at system startup"
    calling,    \* the call its handler is about to make
    entry       \* is the program registered to start with the system?

fileVars == <<file, backup>>
writeVars == <<lock, stage, bytes, lastWritten>>
dialogVars == <<dialog, checked, calling>>
vars == <<file, backup, main, config, lastWritten, lock, stage, bytes, ticker,
          dialog, checked, calling, entry>>

-----------------------------------------------------------------------------

Writers == {"ui", "ticker"}

Readable(f) == IF f \in Values THEN f ELSE Default

Init ==
    /\ file = Absent
    /\ backup = Absent
    /\ main = "off"
    /\ config = Default
    /\ lastWritten = NoBytes
    /\ lock = FALSE
    /\ stage = [w \in Writers |-> "out"]
    /\ bytes = [w \in Writers |-> NoBytes]
    /\ ticker = "none"
    /\ dialog = FALSE
    /\ checked = FALSE
    /\ calling = "none"
    /\ entry = FALSE

\* The thread of the toolkit is at its event loop.
Idle == main = "run" /\ stage["ui"] = "out" /\ calling = "none"

\* StartupApp: a file that does not parse is copied first, if that succeeds.
StartApp ==
    /\ main = "off"
    /\ main' = "run"
    /\ config' = Readable(file)
    /\ backup' \in IF file = Malformed THEN {backup, Malformed} ELSE {backup}
    /\ ticker' = "wait"
    /\ UNCHANGED <<file, writeVars, dialogVars, entry>>

\* The state of a process that is gone.
Gone ==
    /\ lastWritten' = NoBytes
    /\ lock' = FALSE
    /\ stage' = [w \in Writers |-> "out"]
    /\ bytes' = [w \in Writers |-> NoBytes]
    /\ ticker' = "none"
    /\ dialog' = FALSE
    /\ checked' = FALSE
    /\ calling' = "none"

\* The process ends, and a write that was going on is cut.
ProcessEnds ==
    /\ main' = "off"
    /\ Gone
    /\ IF \E w \in Writers : stage[w] = "truncated"
       THEN file' \in {file, Malformed}
       ELSE UNCHANGED file
    /\ UNCHANGED <<backup, config, entry>>

\* The program is killed, or panics: Quit in the tray's menu calls the nil
\* proxyCancel.
Dies == main \in {"run", "first", "second"} /\ ProcessEnds

MainReturns == main \in {"saved", "skipped"} /\ ProcessEnds

-----------------------------------------------------------------------------
(* SaveConfigFile and WriteConfigFile.                                     *)

Goto(w, s) == stage' = [stage EXCEPT ![w] = s]

\* Mutant: the lock is not asked for.
TryLockAlways(w) ==
    /\ stage[w] = "enter"
    /\ lock' = TRUE
    /\ Goto(w, "locked")
    /\ UNCHANGED <<fileVars, main, config, lastWritten, bytes, ticker, dialogVars, entry>>

\* With another write in progress there is nothing to do.
TryLock(w) ==
    /\ stage[w] = "enter"
    /\ lock' = TRUE
    /\ Goto(w, IF lock THEN "skipped" ELSE "locked")
    /\ UNCHANGED <<fileVars, main, config, lastWritten, bytes, ticker, dialogVars, entry>>

\* The ticker reads the configuration without a lock; while the window can
\* change it, it may read a mixture.
Marshal(w) ==
    /\ stage[w] = "locked"
    /\ \E b \in IF w = "ticker" /\ main = "run" THEN Values ELSE {config} :
          bytes' = [bytes EXCEPT ![w] = b]
    /\ Goto(w, "marshalled")
    /\ UNCHANGED <<fileVars, main, config, lastWritten, lock, ticker, dialogVars, entry>>

\* os.WriteFile truncates the file and writes it.  Its error is ignored; that it
\* fails in a program that goes on is left out.
Truncate(w) ==
    /\ stage[w] = "marshalled"
    /\ file' = Empty
    /\ Goto(w, "truncated")
    /\ UNCHANGED <<backup, main, config, lastWritten, lock, bytes, ticker, dialogVars, entry>>

WriteFile(w) ==
    /\ stage[w] = "truncated"
    /\ file' = bytes[w]
    /\ bytes' = [bytes EXCEPT ![w] = NoBytes]
    /\ lock' = FALSE
    /\ Goto(w, "written")
    /\ UNCHANGED <<backup, main, config, lastWritten, ticker, dialogVars, entry>>

\* Where the thread goes on, and whether it calls Shutdown again.
MainAfter(s) ==
    CASE main = "first" -> "second"
      [] main = "second" -> s
      [] OTHER -> main

\* The configuration as it is now counts as written, also when it was not.
\* The first Shutdown ends the context.
Leave(w) ==
    /\ stage[w] \in {"written", "skipped"}
    /\ lastWritten' = config
    /\ IF w = "ui"
       THEN /\ main' = MainAfter(IF stage[w] = "written" THEN "saved" ELSE "skipped")
            /\ Goto(w, IF main = "first" THEN "enter" ELSE "out")
            /\ UNCHANGED ticker
       ELSE /\ ticker' = "none"
            /\ Goto(w, "out")
            /\ UNCHANGED main
    /\ UNCHANGED <<fileVars, config, lock, bytes, dialogVars, entry>>

-----------------------------------------------------------------------------
(* The ticker, which is not in a loop.                                     *)

Tick ==
    /\ ticker = "wait"
    /\ ticker' = "check"
    /\ UNCHANGED <<fileVars, main, config, writeVars, dialogVars, entry>>

\* Done is seen after the first Shutdown.
TickerStops ==
    /\ ticker = "wait"
    /\ main \in {"second", "saved", "skipped"}
    /\ ticker' = "none"
    /\ UNCHANGED <<fileVars, main, config, writeVars, dialogVars, entry>>

CheckWritten ==
    /\ ticker = "check"
    /\ IF lastWritten = config
       THEN ticker' = "none" /\ UNCHANGED stage
       ELSE ticker' = "save" /\ Goto("ticker", "enter")
    /\ UNCHANGED <<fileVars, main, config, lock, bytes, lastWritten, dialogVars, entry>>

-----------------------------------------------------------------------------
(* The window and the settings dialog.                                     *)

\* A handler of the dialog sets a field of the configuration.
ChangeSetting(v) ==
    /\ Idle
    /\ dialog
    /\ config' = v
    /\ UNCHANGED <<fileVars, main, writeVars, ticker, dialogVars, entry>>

\* The close button saves, Escape does not.
CloseDialog ==
    /\ Idle
    /\ dialog
    /\ dialog' = FALSE
    /\ \/ Goto("ui", "enter")
       \/ UNCHANGED stage
    /\ UNCHANGED <<fileVars, main, config, lock, bytes, lastWritten, ticker,
                   checked, calling, entry>>

\* The edit dialog of connections saves this configuration too.
EditDialogCloses ==
    /\ Idle
    /\ ~ dialog
    /\ Goto("ui", "enter")
    /\ UNCHANGED <<fileVars, main, config, lock, bytes, lastWritten, ticker,
                   dialogVars, entry>>

\* The window is closed: its size is kept, and if it is not only hidden, main
\* goes on to Shutdown.
CloseWindow(v) ==
    /\ Idle
    /\ config' = v
    /\ \/ UNCHANGED <<main, stage>>
       \/ main' = "first" /\ Goto("ui", "enter")
    /\ UNCHANGED <<fileVars, lock, bytes, lastWritten, ticker, dialogVars, entry>>

-----------------------------------------------------------------------------
(* The check box.  Its handler calls Enable or Disable; when that fails it *)
(* sets the box back, whose handler then makes the opposite call.          *)

SetChecked(b) ==
    /\ checked' = b
    /\ calling' = IF b THEN "enable" ELSE "disable"

\* NewSettingsDialog sets the box to IsEnabled; nothing is called if it is as
\* a new box.
OpenDialog ==
    /\ Idle
    /\ ~ dialog
    /\ dialog' = TRUE
    /\ IF entry THEN SetChecked(TRUE) ELSE checked' = FALSE /\ calling' = "none"
    /\ UNCHANGED <<fileVars, main, config, writeVars, ticker, entry>>

ClickCheck ==
    /\ Idle
    /\ dialog
    /\ SetChecked(~ checked)
    /\ UNCHANGED <<fileVars, main, config, writeVars, ticker, dialog, entry>>

\* The configuration notes what was asked for.
CallSucceeds ==
    /\ calling # "none"
    /\ entry' = (calling = "enable")
    /\ calling' = "none"
    /\ config' \in Values
    /\ UNCHANGED <<fileVars, main, writeVars, ticker, dialog, checked>>

\* Mutant: the box is left as it is.
CallFailsUnnoticed ==
    /\ calling # "none"
    /\ entry' \in IF calling = "enable" THEN {entry, TRUE} ELSE {entry}
    /\ calling' = "none"
    /\ UNCHANGED <<fileVars, main, config, writeVars, ticker, dialog, checked>>

\* Enable may fail after it has made the entry (launchctl load).
CallFails ==
    /\ calling # "none"
    /\ entry' \in IF calling = "enable" THEN {entry, TRUE} ELSE {entry}
    /\ SetChecked(calling = "disable")
    /\ UNCHANGED <<fileVars, main, config, writeVars, ticker, dialog>>

\* Somebody else adds or removes the entry; a dialog does not look again.
EntryChanges ==
    /\ ~ dialog
    /\ entry' = ~ entry
    /\ UNCHANGED <<fileVars, main, config, writeVars, ticker, dialogVars>>

Next ==
    \/ StartApp \/ Dies \/ MainReturns
    \/ \E w \in Writers : TryLock(w) \/ Marshal(w) \/ Truncate(w) \/ WriteFile(w) \/ Leave(w)
    \/ Tick \/ TickerStops \/ CheckWritten
    \/ \E v \in Values : ChangeSetting(v) \/ CloseWindow(v)
    \/ CloseDialog \/ EditDialogCloses
    \/ OpenDialog \/ ClickCheck \/ CallSucceeds \/ CallFails \/ EntryChanges

Spec == Init /\ [][Next]_vars

-----------------------------------------------------------------------------
(* Properties.                                                             *)

\* Every variable has a value of its type.
TypeOK ==
    /\ file \in Values \cup {Absent, Empty, Malformed}
    /\ backup \in {Absent, Malformed}
    /\ main \in {"off", "run", "first", "second", "saved", "skipped"}
    /\ config \in Values
    /\ lastWritten \in Values \cup {NoBytes}
    /\ lock \in BOOLEAN
    /\ stage \in [Writers -> {"out", "enter", "locked", "marshalled", "truncated",
                              "written", "skipped"}]
    /\ bytes \in [Writers -> Values \cup {NoBytes}]
    /\ ticker \in {"none", "wait", "check", "save"}
    /\ dialog \in BOOLEAN
    /\ checked \in BOOLEAN
    /\ calling \in {"none", "enable", "disable"}
    /\ entry \in BOOLEAN

\* When main has saved the configuration on exit, the file holds it: the write
\* that the ticker may have begun two minutes after the start (app.go:162) does
\* not put an older one in its place.  Only a write that is going on then, and
\* is cut by the end of the process, leaves an empty file.
SavedOnExit ==
    main = "saved" => file = config \/ stage["ticker"] = "truncated"

\* Where a writer holds the lock.
Holding == {"locked", "marshalled", "truncated"}

\* When main has gone through its saves, written or skipped, the file holds a
\* whole configuration, or the ticker is about to write one: a save is skipped
\* only in favour of another (config.go:106).
ExitLeavesWholeFile ==
    main \in {"saved", "skipped"} =>
        \/ file \in Values
        \/ stage["ticker"] \in Holding

\* While the dialog waits for the user, the box shows whether the program is
\* registered, also after calls that failed halfway (settingsdialog.go:97).
CheckShowsEntry == dialog /\ calling = "none" => checked = entry

====
