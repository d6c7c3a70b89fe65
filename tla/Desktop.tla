---- MODULE Desktop ----
(***************************************************************************)
(* The window: connection list, edit dialog, timer panel, blocklist tab    *)
(* and rules tab, and the file config.json in which they all keep their    *)
(* part (internal/common, internal/storage).                               *)
(*                                                                         *)
(* The toolkit runs one callback at a time, and a dialog is modal, so a    *)
(* callback is one action, up to its call of SaveConfig.  Each callback    *)
(* loads the file, changes its part and saves the whole; storage.WriteFile *)
(* truncates the file and writes it, and the program may die in between.   *)
(* While the disk is failing, a read yields nothing, and a write may leave *)
(* the file as it was or truncated; the error of Close, which the code     *)
(* ignores, is left out.                                                   *)
(*                                                                         *)
(* A connection is its ID (a hash of host and port), its name and its      *)
(* status.  A pool of the manager is the name it was started under, and a  *)
(* rule its ID and a text, for all that the form edits; what rules do is   *)
(* in AccessControl.                                                       *)
(***************************************************************************)
EXTENDS FiniteSets

CONSTANTS
    Ids, Names,     \* of connections
    RuleIds, Texts, \* of rules
    IPs,            \* addresses on the blocklist
    Torn,           \* a file that was truncated and not written
    New,            \* a connection that is in no list yet
    None            \* no value

VARIABLES
    file,       \* config.json
    disk,       \* "sound": no read or write has failed since the program
                \* started; "failing": they do now; "recovered": they did
    pending,    \* the configuration SaveConfig is about to write, or None
    up,         \* does the program run?
    dialog,     \* the connection of an edit dialog that has called SaveConfig
                \* and is still open, or None
    list,       \* ConnectionList.connections
    pools,      \* the keys of Manager.pools
    panel,      \* TimerPanel.isRunning
    rules,      \* the rules of AccessControl, which the tab shows
    autoSave,   \* the field of that name of the rules tab
    blocked     \* the keys of IPBlocklist.blocked

memory == <<up, dialog, list, pools, panel, rules, autoSave, blocked>>
vars == <<file, disk, pending, memory>>

-----------------------------------------------------------------------------

Connections == [id : Ids, name : Names, status : {"inactive", "active"}]

Rules == [id : RuleIds, text : Texts]

Configs ==
    [conns : SUBSET Connections, rules : SUBSET Rules, blocked : SUBSET IPs]

ASSUME TornAssumption == Torn \notin Configs

ASSUME NoneAssumption == None \notin Configs \cup Connections \cup {New}

ASSUME NewAssumption == New \notin Connections

\* What LoadConfig returns when it cannot read or parse the file.
EmptyConfig == [conns |-> {}, rules |-> {}, blocked |-> {}]

\* What the file holds.
Stored == IF file = Torn THEN EmptyConfig ELSE file

LoadConfig == IF disk = "failing" THEN EmptyConfig ELSE Stored

NamesOf(conns) == {c.name : c \in conns}

\* The entry (or rule) with the ID of e is replaced by e, or e is appended.
Put(entries, e) == {d \in entries : d.id # e.id} \cup {e}

Init ==
    /\ file = EmptyConfig
    /\ disk = "sound"
    /\ pending = None
    /\ up = FALSE
    /\ dialog = None
    /\ list = {}
    /\ pools = {}
    /\ panel = FALSE
    /\ rules = {}
    /\ autoSave = TRUE
    /\ blocked = {}

\* The program runs and no callback is in progress.
Returned == up /\ pending = None

\* Nor is a dialog in the way.
Idle == Returned /\ dialog = None

SaveConfig(config) ==
    /\ pending' = config
    /\ UNCHANGED <<file, disk, up>>

-----------------------------------------------------------------------------
(* The life of the program and of the file.                                *)

\* The timer panel: Manager.Start or Stop for every connection of the list.
\* Start fails where no tunnel connects or the name has a pool; the panel does
\* not look, and saves nothing.
TapOn(conns, started) ==
    /\ started \subseteq NamesOf(conns)
    /\ pools' = pools \cup started
    /\ list' = {[c EXCEPT !.status = "active"] : c \in conns}

TapOff ==
    /\ pools' = pools \ NamesOf(list)
    /\ list' = {[c EXCEPT !.status = "inactive"] : c \in list}

\* NewMainWindow loads the list and the tabs; in AutoServiceMode it then taps
\* the panel.
StartApp ==
    /\ ~ up
    /\ up' = TRUE
    /\ disk' = IF disk = "failing" THEN disk ELSE "sound"
    /\ rules' = LoadConfig.rules
    /\ blocked' = LoadConfig.blocked
    /\ autoSave' = TRUE
    /\ \/ /\ panel' = FALSE
          /\ list' = LoadConfig.conns
          /\ UNCHANGED pools
       \/ /\ panel' = TRUE
          /\ \E started \in SUBSET Names : TapOn(LoadConfig.conns, started)
    /\ UNCHANGED <<file, pending, dialog>>

\* Reads and writes of the file begin to fail, for want of space, of rights or
\* of descriptors, and succeed again.
DiskFails ==
    /\ disk # "failing"
    /\ disk' = "failing"
    /\ UNCHANGED <<file, pending, memory>>

DiskRecovers ==
    /\ disk = "failing"
    /\ disk' = "recovered"
    /\ UNCHANGED <<file, pending, memory>>

\* Mutant: the list is not loaded again when a dialog closes.
WriteFileNoReload ==
    /\ up
    /\ pending # None
    /\ file' = pending
    /\ pending' = None
    /\ dialog' = None
    /\ UNCHANGED <<disk, up, list, pools, panel, rules, autoSave, blocked>>

\* The callback goes on: the dialog closes and loads the connections again.
WriteFile ==
    /\ up
    /\ pending # None
    /\ file' = pending
    /\ pending' = None
    /\ dialog' = None
    /\ UNCHANGED <<disk, up, pools, panel, rules, autoSave, blocked>>
    /\ list' = IF dialog = None THEN list ELSE LoadConfig'.conns

\* The file cannot be opened, or was truncated and cannot be written.  The
\* callback ends, with or without a message; what it has changed in memory
\* stays, and the dialog stays open.
WriteFileFails ==
    /\ up
    /\ pending # None
    /\ disk = "failing"
    /\ file' \in {file, Torn}
    /\ pending' = None
    /\ UNCHANGED <<disk, memory>>

ProcessEnds ==
    /\ up
    /\ up' = FALSE
    /\ pending' = None
    /\ dialog' = None
    /\ list' = {}
    /\ pools' = {}
    /\ panel' = FALSE
    /\ rules' = {}
    /\ autoSave' = TRUE
    /\ blocked' = {}
    /\ UNCHANGED disk

Exit ==
    /\ pending = None
    /\ ProcessEnds
    /\ UNCHANGED file

\* The program dies before, in the middle of, or after a write.
Crash ==
    /\ pending # None
    /\ ProcessEnds
    /\ file' \in {file, Torn, pending}

-----------------------------------------------------------------------------
(* The connection list, its dialogs and the panel.                         *)

PanelTap ==
    /\ Idle
    /\ panel' = ~ panel
    /\ IF panel THEN TapOff ELSE \E started \in SUBSET Names : TapOn(list, started)
    /\ UNCHANGED <<file, disk, pending, up, dialog, rules, autoSave, blocked>>

\* Mutant: the button was not made again after an edit and starts the
\* connection under the name it had.
RunClickStaleButton(c) ==
    /\ Idle
    /\ c \in list
    /\ c.status = "inactive"
    /\ list' = (list \ {c}) \cup {[c EXCEPT !.status = "active"]}
    /\ \E n \in Names : pools' = pools \cup {n}
    /\ SaveConfig(LoadConfig)
    /\ UNCHANGED <<dialog, panel, rules, autoSave, blocked>>

\* The run button flips the status, starts or stops the pool of that name
\* whatever comes of it, and saves the status of the entry with that ID.
RunClick(c) ==
    /\ Idle
    /\ c \in list
    /\ LET s == IF c.status = "inactive" THEN "active" ELSE "inactive"
       IN  /\ list' = (list \ {c}) \cup {[c EXCEPT !.status = s]}
           /\ IF s = "active"
              THEN pools' \in {pools, pools \cup {c.name}}
              ELSE pools' = pools \ {c.name}
           /\ SaveConfig([LoadConfig EXCEPT !.conns =
                  {IF d.id = c.id THEN [d EXCEPT !.status = s] ELSE d : d \in @}])
    /\ UNCHANGED <<dialog, panel, rules, autoSave, blocked>>

\* The save button of the edit dialog, pressed once or, where saving fails,
\* again: the dialog writes into the connection it was given, which is the
\* list's, and puts it into the file under the ID of its address.
EditConnection(c, i, n) ==
    /\ Returned
    /\ dialog \in {None, c}
    /\ c \in list
    /\ LET edited == [c EXCEPT !.id = i, !.name = n]
       IN  /\ list' = (list \ {c}) \cup {edited}
           /\ dialog' = edited
           /\ SaveConfig([LoadConfig EXCEPT !.conns = Put(@, edited)])
    /\ UNCHANGED <<pools, panel, rules, autoSave, blocked>>

\* The same for the toolbar's dialog, whose connection is in no list.
NewConnection(i, n) ==
    /\ Returned
    /\ dialog \in {None, New}
    /\ dialog' = New
    /\ SaveConfig([LoadConfig EXCEPT !.conns =
           Put(@, [id |-> i, name |-> n, status |-> "inactive"])])
    /\ UNCHANGED <<list, pools, panel, rules, autoSave, blocked>>

\* A dialog is cancelled, or the ping dialog closes.
LoadConnections ==
    /\ Returned
    /\ dialog' = None
    /\ list' = LoadConfig.conns
    /\ UNCHANGED <<file, disk, pending, up, pools, panel, rules, autoSave, blocked>>

\* The escape key hides the toolbar's dialog and loads nothing.
CloseEscapablePopUp ==
    /\ Returned
    /\ dialog = New
    /\ dialog' = None
    /\ UNCHANGED <<file, disk, pending, up, list, pools, panel, rules, autoSave, blocked>>

\* The connection leaves the list and the file.  Its pool is not stopped.
RemoveConnection(c) ==
    /\ Idle
    /\ c \in list
    /\ list' = list \ {c}
    /\ SaveConfig([LoadConfig EXCEPT !.conns = {d \in @ : d.id # c.id}])
    /\ UNCHANGED <<dialog, pools, panel, rules, autoSave, blocked>>

-----------------------------------------------------------------------------
(* The blocklist tab saves after every change.                             *)

\* Mutant: the tab saves what it showed before the change.
BlockedBecomesStale(ips) ==
    /\ Idle
    /\ blocked' = ips
    /\ SaveConfig([LoadConfig EXCEPT !.blocked = blocked])
    /\ UNCHANGED <<dialog, list, pools, panel, rules, autoSave>>

BlockedBecomes(ips) ==
    /\ Idle
    /\ blocked' = ips
    /\ SaveConfig([LoadConfig EXCEPT !.blocked = ips])
    /\ UNCHANGED <<dialog, list, pools, panel, rules, autoSave>>

BlockIP(ip) == ip \notin blocked /\ BlockedBecomes(blocked \cup {ip})

UnblockIP(ip) == ip \in blocked /\ BlockedBecomes(blocked \ {ip})

ClearAllBlocked == blocked # {} /\ BlockedBecomes({})

-----------------------------------------------------------------------------
(* The rules tab.                                                          *)

\* Mutant: the tab saves the whole configuration it loaded at its start.
SaveRulesToConfigAlone(table) ==
    SaveConfig([EmptyConfig EXCEPT !.rules = table])

SaveRulesToConfig(table) ==
    SaveConfig([LoadConfig EXCEPT !.rules = table])

\* Mutant: the table is saved before it is refreshed.
RuleSubmittedEarly(r) ==
    /\ Idle
    /\ rules' = Put(rules, r)
    /\ IF autoSave
       THEN SaveRulesToConfig(rules)
       ELSE UNCHANGED <<file, disk, pending, up>>
    /\ UNCHANGED <<dialog, list, pools, panel, autoSave, blocked>>

\* The add form, for a rule with an ID of its own, and the edit form, for one
\* with the ID of a rule: AddRule or UpdateRule, then the table is shown again
\* and saved.
RuleSubmitted(r) ==
    /\ Idle
    /\ rules' = Put(rules, r)
    /\ IF autoSave
       THEN SaveRulesToConfig(rules')
       ELSE UNCHANGED <<file, disk, pending, up>>
    /\ UNCHANGED <<dialog, list, pools, panel, autoSave, blocked>>

\* Deleting a rule saves nothing.
DeleteRule(r) ==
    /\ Idle
    /\ r \in rules
    /\ rules' = rules \ {r}
    /\ UNCHANGED <<file, disk, pending, up, dialog, list, pools, panel, autoSave, blocked>>

SaveButton ==
    /\ Idle
    /\ SaveRulesToConfig(rules)
    /\ UNCHANGED <<dialog, list, pools, panel, rules, autoSave, blocked>>

AutoSaveCheck ==
    /\ Idle
    /\ autoSave' = ~ autoSave
    /\ UNCHANGED <<file, disk, pending, up, dialog, list, pools, panel, rules, blocked>>

Next ==
    \/ StartApp \/ DiskFails \/ DiskRecovers
    \/ WriteFile \/ WriteFileFails \/ Exit \/ Crash
    \/ PanelTap \/ LoadConnections \/ CloseEscapablePopUp
    \/ \E c \in list :
          RunClick(c) \/ RemoveConnection(c)
             \/ \E i \in Ids, n \in Names : EditConnection(c, i, n)
    \/ \E i \in Ids, n \in Names : NewConnection(i, n)
    \/ \E ip \in IPs : BlockIP(ip) \/ UnblockIP(ip)
    \/ ClearAllBlocked
    \/ \E r \in Rules : RuleSubmitted(r) \/ DeleteRule(r)
    \/ SaveButton \/ AutoSaveCheck

Spec == Init /\ [][Next]_vars

-----------------------------------------------------------------------------
(* Properties.                                                             *)

\* Every variable has a value of its type.
TypeOK ==
    /\ file \in Configs \cup {Torn}
    /\ disk \in {"sound", "failing", "recovered"}
    /\ pending \in Configs \cup {None}
    /\ up \in BOOLEAN
    /\ dialog \in Connections \cup {New, None}
    /\ list \subseteq Connections
    /\ pools \subseteq Names
    /\ panel \in BOOLEAN
    /\ rules \subseteq Rules
    /\ autoSave \in BOOLEAN
    /\ blocked \subseteq IPs

\* What the file holds when the callback in progress is through.
Saved == IF pending = None THEN Stored ELSE pending

Keys(conns) == {<<c.id, c.name>> : c \in conns}

\* As long as no read or write of the file has failed, the list between two
\* callbacks shows the connections that a restart would load, whatever
\* dialogs, deletions and crashes came before; the status may differ, since
\* the panel does not save it (mainwindow.go:273).
ListMatchesFile == Idle /\ disk = "sound" => Keys(list) = Keys(Stored.conns)

\* As long as no read or write of the file has failed, the addresses the
\* manager blocks between two callbacks are those a restart would block
\* (block_list_tab.go:87, 55).
BlockedMatchesFile == Idle /\ disk = "sound" => blocked = Stored.blocked

\* Two configurations differ in one part at most.
OnePart(old, new) ==
    \/ old.rules = new.rules /\ old.blocked = new.blocked
    \/ old.conns = new.conns /\ old.blocked = new.blocked
    \/ old.conns = new.conns /\ old.rules = new.rules

\* The tab or dialog that writes the file takes over its own part and leaves
\* the parts of the others as they are in the file, since it loads it first
\* (config_manager.go:42).  They are lost only by a crash or while the disk is
\* failing: by a write that stops after the truncation (storage.go:90), or by
\* a read that fails before a write that does not (config_manager.go:21).
OnlyOwnPart ==
    [][up /\ up' /\ disk # "failing" => OnePart(Saved, Saved')]_vars

\* Rules that are enforced and that a restart would not load, or not as they
\* are enforced.
Unsaved == rules \ Saved.rules

\* Rules that a restart would load and that are not enforced.
Undead == Saved.rules \ rules

\* With Auto Save on, nothing the user does in any tab leaves one more rule
\* unsaved while reads and writes succeed (rule_tab.go:320, 375); and a rule
\* that a restart would bring back is one the user has deleted or, with Auto
\* Save off, edited (rule_tab.go:255).
RulesAutoSaved ==
    [][disk # "failing" =>
          /\ autoSave => Unsaved' \subseteq Unsaved
          /\ up' => Undead' \ Undead \subseteq rules \ rules']_vars

\* Every rule that is enforced is in the file or about to be.
NoneUnsaved == Unsaved = {}

\* No read or write of the file fails.
DiskHolds == disk # "failing"

\* Pools that no entry of the list can stop.
Orphans == pools \ NamesOf(list)

\* A pool gets out of reach only together with its name: by a removal or an
\* edit of a connection (connectionlist.go:66, editdialog.go:202) or the
\* reload after it; starting, tapping and saving never lose one.
OrphansLostTheirName ==
    [][Orphans' \ Orphans \subseteq NamesOf(list) \ NamesOf(list')]_vars

\* No name leaves the list while the program runs.
NamesStay == [][up' => NamesOf(list) \subseteq NamesOf(list')]_vars

\* The list has an entry for every pool.
NoOrphans == Orphans = {}

====
