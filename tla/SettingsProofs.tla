---- MODULE SettingsProofs ----
(***************************************************************************)
(* Proofs about Settings, for every set of configurations: the exit saves  *)
(* what the user has set, and the check box tells the truth.               *)
(*                                                                         *)
(* The argument: writeLock keeps the two writers apart; the configuration  *)
(* does not change while the toolkit's thread saves, nor after the window  *)
(* is closed; so whatever the ticker marshals after the last save is the   *)
(* same configuration, and what it marshalled before has left the lock.    *)
(***************************************************************************)
EXTENDS Settings, TLAPS

LockFits ==
    /\ lock <=> \E w \in Writers : stage[w] \in Holding
    /\ ~ (stage["ui"] \in Holding /\ stage["ticker"] \in Holding)

BytesFit ==
    \A w \in Writers : stage[w] \in {"marshalled", "truncated"} => bytes[w] \in Values

\* The thread of the toolkit saves and waits for a call in turn, and neither
\* once main has gone on.
MainFits ==
    /\ main \in {"off", "saved", "skipped"} => stage["ui"] = "out"
    /\ calling # "none" => main = "run" /\ stage["ui"] = "out"

\* The ticker writes only after its check, and only while the program runs.
TickerFits ==
    /\ ticker # "save" => stage["ticker"] = "out"
    /\ main = "off" => ticker = "none"

UiCurrent == stage["ui"] \in {"marshalled", "truncated"} => bytes["ui"] = config

\* Once the last save has written, the ticker can write only the same again.
WrittenStays ==
    (main = "second" /\ stage["ui"] = "written") \/ main = "saved" =>
        /\ stage["ticker"] \in {"marshalled", "truncated"} => bytes["ticker"] = config
        /\ file = config \/ stage["ticker"] = "truncated"

BoxFits ==
    /\ calling # "none" => dialog /\ (checked <=> calling = "enable")
    /\ dialog /\ calling = "none" => (checked <=> entry)

IInv ==
    /\ TypeOK
    /\ LockFits
    /\ BytesFit
    /\ MainFits
    /\ TickerFits
    /\ UiCurrent
    /\ WrittenStays
    /\ BoxFits

USE DefaultAssumption DEF Writers, fileVars, writeVars, dialogVars

-----------------------------------------------------------------------------

LEMMA InitInv == Init => IInv
<1> SUFFICES ASSUME Init PROVE IInv
  OBVIOUS
<1>1. TypeOK
  BY DEF Init, TypeOK
<1>2. /\ LockFits
      /\ BytesFit
      /\ MainFits
      /\ TickerFits
      /\ UiCurrent
      /\ WrittenStays
      /\ BoxFits
  BY DEF Init, LockFits, Holding, BytesFit, MainFits, TickerFits, UiCurrent, WrittenStays, BoxFits
<1>3. QED
  BY <1>1, <1>2 DEF IInv

\* Where nothing of the writers changes, their part of the invariant stays.
LEMMA WritersKept ==
  ASSUME IInv, UNCHANGED <<lock, stage, bytes>>,
         UNCHANGED <<file, main, config>>
            \/ (UNCHANGED <<file, main>> /\ main = "run" /\ stage["ui"] = "out")
  PROVE  LockFits' /\ BytesFit' /\ UiCurrent' /\ WrittenStays'
BY DEF IInv, LockFits, BytesFit, UiCurrent, WrittenStays

LEMMA StartAppInv == IInv /\ StartApp => IInv'
<1> SUFFICES ASSUME IInv, StartApp PROVE IInv'
  OBVIOUS
<1>1. Readable(file) \in Values
  BY DEF Readable
<1>2. TypeOK'
  BY <1>1 DEF IInv, TypeOK, StartApp
<1>3. LockFits' /\ BytesFit' /\ MainFits' /\ TickerFits' /\ UiCurrent' /\ WrittenStays'
  BY DEF IInv, StartApp, LockFits, BytesFit, MainFits, TickerFits, UiCurrent, WrittenStays, TypeOK
<1>4. BoxFits'
  BY DEF IInv, StartApp, BoxFits
<1>5. QED
  BY <1>2, <1>3, <1>4 DEF IInv

LEMMA EndInv == IInv /\ (Dies \/ MainReturns) => IInv'
<1> SUFFICES ASSUME IInv, ProcessEnds PROVE IInv'
  BY DEF Dies, MainReturns
<1>1. TypeOK'
  BY DEF IInv, TypeOK, ProcessEnds, Gone
<1>2. /\ LockFits'
      /\ BytesFit'
      /\ MainFits'
      /\ TickerFits'
      /\ UiCurrent'
      /\ WrittenStays'
      /\ BoxFits'
  BY DEF ProcessEnds, Gone, LockFits, Holding, BytesFit, MainFits, TickerFits, UiCurrent,
         WrittenStays, BoxFits
<1>3. QED
  BY <1>1, <1>2 DEF IInv

LEMMA TryLockInv ==
  ASSUME IInv, NEW w \in Writers, TryLock(w)
  PROVE  IInv'
<1>1. TypeOK'
  BY DEF IInv, TypeOK, TryLock, Goto
<1>2. LockFits'
  BY DEF IInv, TypeOK, TryLock, Goto, LockFits, Holding
<1>3. BytesFit' /\ MainFits' /\ TickerFits' /\ UiCurrent'
  BY DEF IInv, TypeOK, TryLock, Goto, BytesFit, MainFits, TickerFits, UiCurrent
<1>4. WrittenStays'
  BY DEF IInv, TypeOK, TryLock, Goto, MainFits, WrittenStays
<1>5. BoxFits'
  BY DEF IInv, TryLock, BoxFits
<1>6. QED
  BY <1>1, <1>2, <1>3, <1>4, <1>5 DEF IInv

LEMMA MarshalInv ==
  ASSUME IInv, NEW w \in Writers, Marshal(w)
  PROVE  IInv'
<1>1. TypeOK'
  BY DEF IInv, TypeOK, Marshal, Goto
<1>2. LockFits'
  BY DEF IInv, TypeOK, Marshal, Goto, LockFits, Holding
<1>3. BytesFit' /\ MainFits' /\ TickerFits' /\ UiCurrent'
  BY DEF IInv, TypeOK, Marshal, Goto, BytesFit, MainFits, TickerFits, UiCurrent
<1>4. WrittenStays'
  BY DEF IInv, TypeOK, Marshal, Goto, MainFits, WrittenStays
<1>5. BoxFits'
  BY DEF IInv, Marshal, BoxFits
<1>6. QED
  BY <1>1, <1>2, <1>3, <1>4, <1>5 DEF IInv

LEMMA TruncateInv ==
  ASSUME IInv, NEW w \in Writers, Truncate(w)
  PROVE  IInv'
<1>1. TypeOK'
  BY DEF IInv, TypeOK, Truncate, Goto
<1>2. LockFits'
  BY DEF IInv, TypeOK, Truncate, Goto, LockFits, Holding
<1>3. BytesFit' /\ MainFits' /\ TickerFits' /\ UiCurrent'
  BY DEF IInv, TypeOK, Truncate, Goto, BytesFit, MainFits, TickerFits, UiCurrent
<1>4. WrittenStays'
  BY DEF IInv, TypeOK, Truncate, Goto, MainFits, WrittenStays
<1>5. BoxFits'
  BY DEF IInv, Truncate, BoxFits
<1>6. QED
  BY <1>1, <1>2, <1>3, <1>4, <1>5 DEF IInv

LEMMA WriteFileInv ==
  ASSUME IInv, NEW w \in Writers, WriteFile(w)
  PROVE  IInv'
<1>1. bytes[w] \in Values
  BY DEF IInv, BytesFit, WriteFile
<1>2. TypeOK'
  BY <1>1 DEF IInv, TypeOK, WriteFile, Goto
<1>3. LockFits'
  BY DEF IInv, TypeOK, WriteFile, Goto, LockFits, Holding
<1>4. BytesFit' /\ MainFits' /\ TickerFits' /\ UiCurrent'
  BY DEF IInv, TypeOK, WriteFile, Goto, BytesFit, MainFits, TickerFits, UiCurrent
<1>5. WrittenStays'
  BY DEF IInv, TypeOK, WriteFile, Goto, MainFits, TickerFits, UiCurrent, LockFits, Holding, WrittenStays
<1>6. BoxFits'
  BY DEF IInv, WriteFile, BoxFits
<1>7. QED
  BY <1>2, <1>3, <1>4, <1>5, <1>6 DEF IInv

LEMMA LeaveInv ==
  ASSUME IInv, NEW w \in Writers, Leave(w)
  PROVE  IInv'
<1>1. MainAfter("saved") \in {"off", "run", "first", "second", "saved", "skipped"}
      /\ MainAfter("skipped") \in {"off", "run", "first", "second", "saved", "skipped"}
  BY DEF IInv, TypeOK, MainAfter
<1>2. TypeOK'
  BY <1>1 DEF IInv, TypeOK, Leave, Goto
<1>3. LockFits'
  BY DEF IInv, TypeOK, Leave, Goto, LockFits, Holding
<1>4. BytesFit' /\ TickerFits' /\ UiCurrent'
  BY DEF IInv, TypeOK, Leave, Goto, BytesFit, TickerFits, UiCurrent, MainFits, MainAfter
<1>5. MainFits'
  BY DEF IInv, TypeOK, Leave, Goto, MainFits, MainAfter
<1>6. WrittenStays'
  BY DEF IInv, TypeOK, Leave, Goto, MainFits, MainAfter, WrittenStays
<1>7. BoxFits'
  BY DEF IInv, Leave, BoxFits
<1>8. QED
  BY <1>2, <1>3, <1>4, <1>5, <1>6, <1>7 DEF IInv

LEMMA TickerInv == IInv /\ (Tick \/ TickerStops \/ CheckWritten) => IInv'
<1>1. ASSUME IInv, Tick \/ TickerStops PROVE IInv'
  <2>1. TypeOK'
    BY <1>1 DEF IInv, TypeOK, Tick, TickerStops
  <2>2. /\ UNCHANGED <<file, main, config, lock, stage, bytes, dialog, checked, calling, entry>>
        /\ ticker # "save" /\ ticker' # "save" /\ ticker # "none"
    BY <1>1 DEF Tick, TickerStops
  <2>3. MainFits' /\ TickerFits' /\ BoxFits'
    BY <1>1, <2>2 DEF IInv, MainFits, TickerFits, BoxFits
  <2>4. QED
    BY <1>1, <2>1, <2>2, <2>3, WritersKept DEF IInv
<1>2. ASSUME IInv, CheckWritten PROVE IInv'
  <2>1. TypeOK'
    BY <1>2 DEF IInv, TypeOK, CheckWritten, Goto
  <2>2. \/ UNCHANGED stage
        \/ stage' = [stage EXCEPT !["ticker"] = "enter"]
    BY <1>2 DEF CheckWritten, Goto
  <2>3. LockFits' /\ WrittenStays'
    BY <1>2, <2>2 DEF IInv, TypeOK, CheckWritten, LockFits, Holding, TickerFits, WrittenStays
  <2>4. BytesFit' /\ MainFits' /\ UiCurrent' /\ BoxFits'
    BY <1>2, <2>2 DEF IInv, TypeOK, CheckWritten, BytesFit, MainFits, UiCurrent, BoxFits
  <2>5. TickerFits'
    BY <1>2 DEF IInv, TypeOK, CheckWritten, Goto, TickerFits
  <2>6. QED
    BY <2>1, <2>3, <2>4, <2>5 DEF IInv
<1>3. QED
  BY <1>1, <1>2

\* The window and the dialog, whose callbacks run one at a time.
LEMMA DialogInv ==
  ASSUME IInv,
         \/ \E v \in Values : ChangeSetting(v) \/ CloseWindow(v)
         \/ CloseDialog \/ EditDialogCloses \/ OpenDialog \/ ClickCheck
  PROVE  IInv'
<1>1. /\ Idle
      /\ UNCHANGED <<fileVars, lock, bytes, lastWritten, ticker, entry>>
      /\ stage' \in {stage, [stage EXCEPT !["ui"] = "enter"]}
      /\ main' \in {"run", "first"}
      /\ main' = "first" => stage' = [stage EXCEPT !["ui"] = "enter"]
      /\ config' \in Values
  BY DEF ChangeSetting, CloseWindow, CloseDialog, EditDialogCloses, OpenDialog, ClickCheck,
         Idle, Goto, IInv, TypeOK
<1>2. /\ dialog' \in BOOLEAN
      /\ checked' \in BOOLEAN
      /\ calling' \in {"none", "enable", "disable"}
      /\ calling' # "none" => main' = "run" /\ stage' = stage
      /\ BoxFits'
  <2>1. CASE \/ \E v \in Values : ChangeSetting(v) \/ CloseWindow(v)
             \/ EditDialogCloses
    BY <2>1 DEF ChangeSetting, CloseWindow, EditDialogCloses, Idle, IInv, TypeOK, BoxFits
  <2>2. CASE CloseDialog
    BY <2>2 DEF CloseDialog, Idle, IInv, TypeOK, BoxFits
  <2>3. CASE OpenDialog
    BY <2>3 DEF OpenDialog, SetChecked, Idle, IInv, TypeOK, BoxFits
  <2>4. CASE ClickCheck
    BY <2>4 DEF ClickCheck, SetChecked, Idle, IInv, TypeOK, BoxFits
  <2>5. QED
    BY <2>1, <2>2, <2>3, <2>4
<1>3. TypeOK'
  BY <1>1, <1>2 DEF IInv, TypeOK
<1>4. LockFits' /\ BytesFit' /\ UiCurrent'
  BY <1>1 DEF IInv, TypeOK, Idle, LockFits, Holding, BytesFit, UiCurrent
<1>5. MainFits' /\ TickerFits'
  BY <1>1, <1>2 DEF IInv, TypeOK, Idle, MainFits, TickerFits
<1>6. WrittenStays'
  BY <1>1 DEF IInv, TypeOK, Idle, WrittenStays
<1>7. QED
  BY <1>2, <1>3, <1>4, <1>5, <1>6 DEF IInv

LEMMA CallInv ==
  ASSUME IInv, CallSucceeds \/ CallFails
  PROVE  IInv'
<1>1. /\ UNCHANGED <<fileVars, main, lock, stage, bytes, lastWritten, ticker, dialog>>
      /\ config' \in Values
      /\ dialog /\ main = "run" /\ stage["ui"] = "out"
  BY DEF CallSucceeds, CallFails, IInv, TypeOK, MainFits, BoxFits
<1>2. entry' \in BOOLEAN /\ checked' \in BOOLEAN
  BY DEF CallSucceeds, CallFails, SetChecked, IInv, TypeOK
<1>3. calling' \in {"none", "enable", "disable"} /\ BoxFits'
  BY <1>1 DEF CallSucceeds, CallFails, SetChecked, IInv, TypeOK, BoxFits
<1>4. TypeOK'
  BY <1>1, <1>2, <1>3 DEF IInv, TypeOK
<1>5. LockFits' /\ BytesFit' /\ UiCurrent' /\ WrittenStays'
  BY <1>1, WritersKept
<1>6. MainFits' /\ TickerFits'
  BY <1>1 DEF IInv, MainFits, TickerFits
<1>7. QED
  BY <1>3, <1>4, <1>5, <1>6 DEF IInv

LEMMA OtherInv == IInv /\ (EntryChanges \/ UNCHANGED vars) => IInv'
<1> SUFFICES ASSUME IInv, EntryChanges \/ UNCHANGED vars PROVE IInv'
  OBVIOUS
<1>1. /\ UNCHANGED <<fileVars, main, config, writeVars, ticker, dialogVars>>
      /\ UNCHANGED entry \/ (~ dialog /\ entry' \in BOOLEAN)
  BY DEF EntryChanges, vars
<1>2. TypeOK'
  BY <1>1 DEF IInv, TypeOK
<1>3. LockFits' /\ BytesFit' /\ UiCurrent' /\ WrittenStays'
  BY <1>1, WritersKept
<1>4. MainFits' /\ TickerFits' /\ BoxFits'
  BY <1>1 DEF IInv, MainFits, TickerFits, BoxFits
<1>5. QED
  BY <1>2, <1>3, <1>4 DEF IInv

LEMMA NextInv == IInv /\ [Next]_vars => IInv'
BY StartAppInv, EndInv, TryLockInv, MarshalInv, TruncateInv, WriteFileInv, LeaveInv,
   TickerInv, DialogInv, CallInv, OtherInv DEF Next

\* The writers keep apart, and the exit writes last (config.go:106).
THEOREM Invariance == Spec => []IInv
<1>1. QED
  BY InitInv, NextInv, PTL DEF Spec

\* The variables keep their types, for every set of configurations.
THEOREM TypeCorrect == Spec => []TypeOK
<1>1. IInv => TypeOK
  BY DEF IInv
<1>2. QED
  BY <1>1, Invariance, PTL

\* What main saves on exit is what stays in the file, whatever the ticker does
\* (app.go:162, config.go:106).
THEOREM ExitSaves == Spec => []SavedOnExit
<1>1. IInv => SavedOnExit
  BY DEF IInv, WrittenStays, SavedOnExit
<1>2. QED
  BY <1>1, Invariance, PTL

\* The check box shows whether the program starts with the system, also after
\* calls that failed halfway (settingsdialog.go:97).
THEOREM BoxTellsTruth == Spec => []CheckShowsEntry
<1>1. IInv => CheckShowsEntry
  BY DEF IInv, TypeOK, BoxFits, CheckShowsEntry
<1>2. QED
  BY <1>1, Invariance, PTL

-----------------------------------------------------------------------------
(* What a skipped save leaves.                                             *)

\* Once a save of the thread is through, written or skipped, there is a whole
\* configuration, or the ticker holds the lock and will write one.
WholeAfterSave ==
    stage["ui"] \in {"written", "skipped"} \/ main \in {"saved", "skipped"} =>
        file \in Values \/ stage["ticker"] \in Holding

LEMMA WriterKeepsWhole ==
  ASSUME IInv, WholeAfterSave, NEW w \in Writers,
         TryLock(w) \/ Marshal(w) \/ Truncate(w) \/ WriteFile(w) \/ Leave(w)
  PROVE  WholeAfterSave'
<1> USE DEF IInv, TypeOK, Goto, Holding
<1>1. CASE TryLock(w)
  BY <1>1 DEF TryLock, LockFits, WholeAfterSave
<1>2. CASE Marshal(w)
  BY <1>2 DEF Marshal, MainFits, WholeAfterSave
<1>3. CASE Truncate(w)
  BY <1>3 DEF Truncate, LockFits, MainFits, WholeAfterSave
<1>4. CASE WriteFile(w)
  BY <1>4 DEF WriteFile, BytesFit, MainFits, WholeAfterSave
<1>5. CASE Leave(w)
  <2>1. CASE w = "ui"
    BY <1>5, <2>1 DEF Leave, MainAfter, WholeAfterSave
  <2>2. CASE w = "ticker"
    BY <1>5, <2>2 DEF Leave, WholeAfterSave
  <2>3. QED
    BY <2>1, <2>2
<1>6. QED
  BY <1>1, <1>2, <1>3, <1>4, <1>5

LEMMA StepKeepsWhole == IInv /\ WholeAfterSave /\ [Next]_vars => WholeAfterSave'
<1> SUFFICES ASSUME IInv, WholeAfterSave, [Next]_vars PROVE WholeAfterSave'
  OBVIOUS
<1>1. CASE StartApp
  BY <1>1 DEF StartApp, IInv, MainFits, WholeAfterSave
<1>2. CASE Dies \/ MainReturns
  BY <1>2 DEF Dies, MainReturns, ProcessEnds, Gone, WholeAfterSave
<1>3. CASE Tick \/ TickerStops
  BY <1>3 DEF Tick, TickerStops, WholeAfterSave
<1>4. CASE CheckWritten
  BY <1>4 DEF CheckWritten, Goto, IInv, TypeOK, TickerFits, Holding, WholeAfterSave
<1>5. CASE \/ \E v \in Values : ChangeSetting(v) \/ CloseWindow(v)
           \/ CloseDialog \/ EditDialogCloses \/ OpenDialog \/ ClickCheck
  <2>1. /\ stage["ui"] = "out"
        /\ stage' \in {stage, [stage EXCEPT !["ui"] = "enter"]}
        /\ main' \in {"run", "first"}
    BY <1>5 DEF ChangeSetting, CloseWindow, CloseDialog, EditDialogCloses, OpenDialog,
                ClickCheck, Idle, Goto
  <2>2. QED
    BY <2>1 DEF IInv, TypeOK, WholeAfterSave
<1>6. CASE CallSucceeds \/ CallFails \/ EntryChanges \/ UNCHANGED vars
  BY <1>6 DEF CallSucceeds, CallFails, SetChecked, EntryChanges, vars, WholeAfterSave
<1>7. QED
  BY <1>1, <1>2, <1>3, <1>4, <1>5, <1>6, WriterKeepsWhole DEF Next

\* When main has gone through its saves the file holds a whole configuration,
\* or the ticker is about to write one: a save is skipped only in favour of
\* another (config.go:106).
THEOREM ExitLeavesWhole == Spec => []ExitLeavesWholeFile
<1>1. Init => WholeAfterSave
  BY DEF Init, WholeAfterSave
<1>2. WholeAfterSave => ExitLeavesWholeFile
  BY DEF WholeAfterSave, ExitLeavesWholeFile
<1>3. QED
  BY <1>1, <1>2, StepKeepsWhole, Invariance, PTL DEF Spec

====
