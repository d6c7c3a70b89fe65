---- MODULE DesktopProofs ----
(***************************************************************************)
(* Proofs about Desktop, for every set of connections, rules and           *)
(* addresses: what the window shows is what config.json holds.             *)
(*                                                                         *)
(* The argument: as long as the disk is sound, a callback has loaded what  *)
(* the file holds and changes one part of it; and entries have unique IDs  *)
(* in the file and, unless a dialog is about to load it again, in the      *)
(* list, so that removing an entry by its ID and removing it from the list *)
(* are the same.                                                           *)
(***************************************************************************)
EXTENDS Desktop, TLAPS

UniqueIds(conns) == \A c, d \in conns : c.id = d.id => c = d

\* A program that is not up has no callback and no dialog; and a dialog stays
\* open only where a write has failed.
DialogFits ==
    /\ ~ up => pending = None /\ dialog = None
    /\ Returned /\ disk = "sound" => dialog = None

ListFits ==
    up /\ disk = "sound" /\ dialog = None =>
        UniqueIds(list) /\ Keys(list) = Keys(Saved.conns)

BlockedFits == up /\ disk = "sound" => blocked = Saved.blocked

IInv ==
    /\ TypeOK
    /\ UniqueIds(Stored.conns)
    /\ UniqueIds(Saved.conns)
    /\ DialogFits
    /\ ListFits
    /\ BlockedFits

USE TornAssumption, NoneAssumption, NewAssumption

-----------------------------------------------------------------------------
(* Records and keys.                                                       *)

LEMMA EmptyConfigType ==
  /\ EmptyConfig \in Configs
  /\ EmptyConfig.conns = {}
  /\ UniqueIds(EmptyConfig.conns)
BY DEF EmptyConfig, Configs, UniqueIds

LEMMA LoadConfigType ==
  ASSUME TypeOK
  PROVE  Stored \in Configs /\ LoadConfig \in Configs /\ Saved \in Configs
<1>1. Stored \in Configs
  BY EmptyConfigType DEF TypeOK, Stored
<1>2. QED
  BY <1>1, EmptyConfigType DEF TypeOK, LoadConfig, Saved

LEMMA ConfigParts ==
  ASSUME NEW config \in Configs
  PROVE  /\ config.conns \subseteq Connections
         /\ config.rules \subseteq Rules
         /\ config.blocked \subseteq IPs
BY DEF Configs

LEMMA ChangeConns ==
  ASSUME NEW config \in Configs, NEW X \in SUBSET Connections
  PROVE  LET new == [config EXCEPT !.conns = X]
         IN  /\ new \in Configs
             /\ new.conns = X
             /\ new.rules = config.rules
             /\ new.blocked = config.blocked
BY DEF Configs

LEMMA ChangeRules ==
  ASSUME NEW config \in Configs, NEW X \in SUBSET Rules
  PROVE  LET new == [config EXCEPT !.rules = X]
         IN  /\ new \in Configs
             /\ new.rules = X
             /\ new.conns = config.conns
             /\ new.blocked = config.blocked
BY DEF Configs

LEMMA ChangeBlocked ==
  ASSUME NEW config \in Configs, NEW X \in SUBSET IPs
  PROVE  LET new == [config EXCEPT !.blocked = X]
         IN  /\ new \in Configs
             /\ new.blocked = X
             /\ new.conns = config.conns
             /\ new.rules = config.rules
BY DEF Configs

LEMMA ChangeStatus ==
  ASSUME NEW c \in Connections, NEW s \in {"inactive", "active"}
  PROVE  LET d == [c EXCEPT !.status = s]
         IN  d \in Connections /\ d.id = c.id /\ d.name = c.name
BY DEF Connections

\* Giving every entry a status changes neither keys nor names.
LEMMA AllStatus ==
  ASSUME NEW S \in SUBSET Connections, NEW s \in {"inactive", "active"}
  PROVE  LET T == {[c EXCEPT !.status = s] : c \in S}
         IN  /\ T \subseteq Connections
             /\ Keys(T) = Keys(S)
             /\ NamesOf(T) = NamesOf(S)
             /\ UniqueIds(S) => UniqueIds(T)
<1> DEFINE g(c) == [c EXCEPT !.status = s]
           T == {g(c) : c \in S}
<1>1. \A c \in S : g(c) \in Connections /\ g(c).id = c.id /\ g(c).name = c.name
  BY ChangeStatus
<1> HIDE DEF g
<1>2. T \subseteq Connections
  BY <1>1
<1>3. Keys(T) = Keys(S)
  BY <1>1 DEF Keys
<1>4. NamesOf(T) = NamesOf(S)
  BY <1>1 DEF NamesOf
<1>5. UniqueIds(S) => UniqueIds(T)
  BY <1>1 DEF UniqueIds
<1>6. QED
  BY <1>2, <1>3, <1>4, <1>5 DEF g

\* Nor does giving one to the entries with one ID.
WithStatus(conns, i, s) ==
    {IF d.id = i THEN [d EXCEPT !.status = s] ELSE d : d \in conns}

LEMMA StatusOfId ==
  ASSUME NEW S \in SUBSET Connections, NEW s \in {"inactive", "active"}, NEW i
  PROVE  LET T == WithStatus(S, i, s)
         IN  /\ T \subseteq Connections
             /\ Keys(T) = Keys(S)
             /\ UniqueIds(S) => UniqueIds(T)
<1> DEFINE g(c) == IF c.id = i THEN [c EXCEPT !.status = s] ELSE c
           T == WithStatus(S, i, s)
<1>0. T = {g(d) : d \in S}
  BY DEF WithStatus
<1>1. \A c \in S : g(c) \in Connections /\ g(c).id = c.id /\ g(c).name = c.name
  BY ChangeStatus
<1> HIDE DEF g, T
<1>2. T \subseteq Connections
  BY <1>0, <1>1
<1>3. Keys(T) = Keys(S)
  BY <1>0, <1>1 DEF Keys
<1>4. UniqueIds(S) => UniqueIds(T)
  BY <1>0, <1>1 DEF UniqueIds
<1>5. QED
  BY <1>2, <1>3, <1>4 DEF T

\* Nor to one entry.
LEMMA StatusOfOne ==
  ASSUME NEW S \in SUBSET Connections, NEW s \in {"inactive", "active"}, NEW c \in S
  PROVE  LET T == (S \ {c}) \cup {[c EXCEPT !.status = s]}
         IN  /\ T \subseteq Connections
             /\ Keys(T) = Keys(S)
             /\ NamesOf(T) = NamesOf(S)
             /\ UniqueIds(S) => UniqueIds(T)
<1> DEFINE e == [c EXCEPT !.status = s]
           T == (S \ {c}) \cup {e}
<1>1. e \in Connections /\ e.id = c.id /\ e.name = c.name
  BY ChangeStatus
<1> HIDE DEF e
<1>2. T \subseteq Connections
  BY <1>1
<1>3. Keys(T) = Keys(S)
  BY <1>1 DEF Keys
<1>4. NamesOf(T) = NamesOf(S)
  BY <1>1 DEF NamesOf
<1>5. UniqueIds(S) => UniqueIds(T)
  BY <1>1 DEF UniqueIds
<1>6. QED
  BY <1>2, <1>3, <1>4, <1>5 DEF e

\* An entry that is put into the file has its ID alone.
LEMMA PutUnique ==
  ASSUME NEW S \in SUBSET Connections, UniqueIds(S), NEW c \in Connections
  PROVE  Put(S, c) \subseteq Connections /\ UniqueIds(Put(S, c))
BY DEF Put, UniqueIds

\* Where IDs are unique, removing an entry and removing its ID are the same.
LEMMA RemoveOne ==
  ASSUME NEW S \in SUBSET Connections, NEW L \in SUBSET Connections, NEW c \in L,
         UniqueIds(S), UniqueIds(L), Keys(L) = Keys(S)
  PROVE  LET T == {d \in S : d.id # c.id}
         IN  UniqueIds(T) /\ UniqueIds(L \ {c}) /\ Keys(L \ {c}) = Keys(T)
<1> DEFINE T == {d \in S : d.id # c.id}
<1>1. UniqueIds(T) /\ UniqueIds(L \ {c})
  BY DEF UniqueIds
<1>2. ASSUME NEW k \in Keys(L \ {c}) PROVE k \in Keys(T)
  <2>1. PICK d \in L \ {c} : k = <<d.id, d.name>>
    BY <1>2 DEF Keys
  <2>2. d.id # c.id
    BY <2>1 DEF UniqueIds
  <2>3. PICK e \in S : k = <<e.id, e.name>>
    BY <2>1 DEF Keys
  <2>4. e \in T
    BY <2>1, <2>2, <2>3
  <2>5. QED
    BY <2>3, <2>4 DEF Keys
<1>3. ASSUME NEW k \in Keys(T) PROVE k \in Keys(L \ {c})
  <2>1. PICK e \in T : k = <<e.id, e.name>>
    BY <1>3 DEF Keys
  <2>2. PICK d \in L : k = <<d.id, d.name>>
    BY <2>1 DEF Keys
  <2>3. d # c
    BY <2>1, <2>2
  <2>4. QED
    BY <2>2, <2>3 DEF Keys
<1>4. QED
  BY <1>1, <1>2, <1>3

-----------------------------------------------------------------------------
(* The steps.                                                              *)

LEMMA InitInv == Init => IInv
<1> SUFFICES ASSUME Init PROVE IInv
  OBVIOUS
<1>1. Stored = EmptyConfig /\ Saved = EmptyConfig
  BY EmptyConfigType DEF Init, Stored, Saved
<1>2. TypeOK
  BY EmptyConfigType DEF Init, TypeOK
<1>3. QED
  BY <1>1, <1>2, EmptyConfigType
  DEF Init, IInv, DialogFits, ListFits, BlockedFits, Returned

\* What holds when a callback begins.
LEMMA CallbackFacts ==
  ASSUME IInv, Returned
  PROVE  /\ LoadConfig \in Configs
         /\ LoadConfig.conns \subseteq Connections
         /\ UniqueIds(LoadConfig.conns)
         /\ list \subseteq Connections
         /\ disk = "sound" =>
               /\ dialog = None
               /\ UniqueIds(list)
               /\ Keys(list) = Keys(LoadConfig.conns)
               /\ blocked = LoadConfig.blocked
         /\ disk # "failing" => LoadConfig = Saved
         /\ pools \subseteq Names /\ panel \in BOOLEAN
         /\ rules \subseteq Rules /\ autoSave \in BOOLEAN /\ blocked \subseteq IPs
<1>1. Saved = Stored /\ up
  BY DEF Saved, Returned
<1>2. disk # "failing" => LoadConfig = Stored
  BY DEF LoadConfig
<1>3. UniqueIds(LoadConfig.conns)
  BY EmptyConfigType DEF IInv, LoadConfig
<1>4. LoadConfig \in Configs /\ LoadConfig.conns \subseteq Connections
  BY LoadConfigType, ConfigParts DEF IInv
<1>5. disk = "sound" => dialog = None
  BY DEF IInv, DialogFits
<1>6. QED
  BY <1>1, <1>2, <1>3, <1>4, <1>5 DEF IInv, TypeOK, ListFits, BlockedFits

\* A callback that calls SaveConfig.
LEMMA SaveInv ==
  ASSUME IInv, Returned, NEW config \in Configs, SaveConfig(config),
         UniqueIds(config.conns),
         disk = "sound" => blocked' = config.blocked,
         disk = "sound" /\ dialog' = None =>
             UniqueIds(list') /\ Keys(list') = Keys(config.conns),
         list' \subseteq Connections, dialog' \in Connections \cup {New, None},
         pools' \subseteq Names, panel' \in BOOLEAN, rules' \subseteq Rules,
         autoSave' \in BOOLEAN, blocked' \subseteq IPs
  PROVE  IInv'
<1>1. pending' = config /\ pending' # None /\ UNCHANGED <<file, disk, up>> /\ up
  BY DEF SaveConfig, Returned
<1>2. Stored' = Stored /\ Saved' = config
  BY <1>1 DEF Stored, Saved
<1>3. TypeOK'
  BY <1>1 DEF IInv, TypeOK
<1>4. QED
  BY <1>1, <1>2, <1>3 DEF IInv, DialogFits, ListFits, BlockedFits, Returned

\* A callback that leaves the file alone.
LEMMA MemoryInv ==
  ASSUME IInv, Returned, UNCHANGED <<file, disk, pending, up, blocked>>,
         list' \subseteq Connections, dialog' \in Connections \cup {New, None},
         disk = "sound" =>
             /\ dialog' = None
             /\ UniqueIds(list')
             /\ Keys(list') = Keys(LoadConfig.conns),
         pools' \subseteq Names, panel' \in BOOLEAN, rules' \subseteq Rules,
         autoSave' \in BOOLEAN
  PROVE  IInv'
<1>1. Stored' = Stored /\ Saved' = Saved
  BY DEF Stored, Saved
<1>2. disk = "sound" => LoadConfig = Saved
  BY CallbackFacts
<1>3. TypeOK'
  BY DEF IInv, TypeOK
<1>4. QED
  BY <1>1, <1>2, <1>3 DEF IInv, DialogFits, ListFits, BlockedFits, Returned

LEMMA TapOnFacts ==
  ASSUME NEW conns \in SUBSET Connections, NEW started \in SUBSET Names,
         TapOn(conns, started)
  PROVE  /\ list' \subseteq Connections
         /\ Keys(list') = Keys(conns)
         /\ NamesOf(list') = NamesOf(conns)
         /\ UniqueIds(conns) => UniqueIds(list')
         /\ pools \subseteq Names => pools' \subseteq Names
         /\ pools' \ NamesOf(list') \subseteq pools
BY AllStatus DEF TapOn

LEMMA TapOffFacts ==
  ASSUME list \subseteq Connections, TapOff
  PROVE  /\ list' \subseteq Connections
         /\ Keys(list') = Keys(list)
         /\ NamesOf(list') = NamesOf(list)
         /\ UniqueIds(list) => UniqueIds(list')
         /\ pools' \subseteq pools
BY AllStatus DEF TapOff

LEMMA StartAppInv == IInv /\ StartApp => IInv'
<1> SUFFICES ASSUME IInv, StartApp PROVE IInv'
  OBVIOUS
<1>1. /\ pending = None /\ pending' = None
      /\ dialog' = None
      /\ up'
      /\ disk' \in {"sound", "failing"}
  BY DEF IInv, DialogFits, StartApp
<1>2. /\ Stored' = Stored /\ Saved' = Stored
      /\ disk' = "sound" => LoadConfig = Stored
  BY <1>1 DEF Stored, Saved, LoadConfig, StartApp
<1>3. /\ LoadConfig \in Configs
      /\ LoadConfig.conns \subseteq Connections
      /\ LoadConfig.rules \subseteq Rules
      /\ LoadConfig.blocked \subseteq IPs
      /\ UniqueIds(LoadConfig.conns)
  BY LoadConfigType, ConfigParts, EmptyConfigType DEF IInv, LoadConfig
<1>4. /\ list' \subseteq Connections
      /\ Keys(list') = Keys(LoadConfig.conns)
      /\ UniqueIds(list')
      /\ pools' \subseteq Names
      /\ panel' \in BOOLEAN
  <2>1. CASE list' = LoadConfig.conns /\ UNCHANGED pools /\ panel' = FALSE
    BY <1>3, <2>1 DEF IInv, TypeOK
  <2>2. CASE panel' = TRUE /\ \E started \in SUBSET Names : TapOn(LoadConfig.conns, started)
    BY <1>3, <2>2, TapOnFacts DEF IInv, TypeOK
  <2>3. QED
    BY <2>1, <2>2 DEF StartApp
<1>5. blocked' = LoadConfig.blocked
  BY DEF StartApp
<1>6. TypeOK'
  BY <1>1, <1>3, <1>4 DEF IInv, TypeOK, StartApp
<1>7. QED
  BY <1>1, <1>2, <1>4, <1>5, <1>6 DEF IInv, DialogFits, ListFits, BlockedFits, Returned

LEMMA DiskInv == IInv /\ (DiskFails \/ DiskRecovers) => IInv'
<1> SUFFICES ASSUME IInv, DiskFails \/ DiskRecovers PROVE IInv'
  OBVIOUS
<1>1. UNCHANGED <<file, pending, memory>> /\ disk' \in {"failing", "recovered"}
  BY DEF DiskFails, DiskRecovers
<1>2. Stored' = Stored /\ Saved' = Saved /\ TypeOK'
  BY <1>1 DEF IInv, Stored, Saved, TypeOK, memory
<1>3. QED
  BY <1>1, <1>2 DEF IInv, DialogFits, ListFits, BlockedFits, Returned, memory

LEMMA WriteFileInv == IInv /\ WriteFile => IInv'
<1> SUFFICES ASSUME IInv, WriteFile PROVE IInv'
  OBVIOUS
<1>1. pending \in Configs /\ pending.conns \subseteq Connections /\ pending # Torn
  BY ConfigParts DEF IInv, TypeOK, WriteFile
<1>2. Saved = pending /\ Stored' = pending /\ Saved' = pending
  BY <1>1 DEF WriteFile, Saved, Stored
<1>3. /\ LoadConfig' \in Configs
      /\ LoadConfig'.conns \subseteq Connections
      /\ disk' = "sound" => LoadConfig' = pending
  BY <1>1, <1>2, EmptyConfigType, ConfigParts DEF LoadConfig
<1>4. list' = IF dialog = None THEN list ELSE LoadConfig'.conns
  BY DEF WriteFile
<1>5. disk = "sound" => UniqueIds(list') /\ Keys(list') = Keys(pending.conns)
  BY <1>2, <1>3, <1>4 DEF IInv, ListFits, WriteFile
<1>6. TypeOK'
  BY <1>1, <1>3, <1>4 DEF IInv, TypeOK, WriteFile
<1>7. QED
  BY <1>2, <1>5, <1>6
  DEF IInv, DialogFits, ListFits, BlockedFits, Returned, WriteFile

LEMMA WriteFileFailsInv == IInv /\ WriteFileFails => IInv'
<1> SUFFICES ASSUME IInv, WriteFileFails PROVE IInv'
  OBVIOUS
<1>1. /\ pending' = None
      /\ up'
      /\ disk' = "failing"
      /\ file' \in {file, Torn}
  BY DEF WriteFileFails, memory
<1>2. Saved' = Stored' /\ Stored' \in {Stored, EmptyConfig}
  BY <1>1 DEF Saved, Stored
<1>3. UniqueIds(Stored'.conns)
  BY <1>2, EmptyConfigType DEF IInv
<1>4. TypeOK'
  BY <1>1 DEF IInv, TypeOK, WriteFileFails, memory
<1>5. QED
  BY <1>1, <1>2, <1>3, <1>4 DEF IInv, DialogFits, ListFits, BlockedFits, Returned

LEMMA EndInv == IInv /\ (Exit \/ Crash) => IInv'
<1> SUFFICES ASSUME IInv, Exit \/ Crash PROVE IInv'
  OBVIOUS
<1>1. ~ up' /\ pending' = None /\ dialog' = None
  BY DEF Exit, Crash, ProcessEnds
<1>2. file' \in Configs \cup {Torn} /\ UniqueIds(Stored'.conns)
  <2>1. CASE file' = file
    BY <2>1 DEF IInv, TypeOK, Stored
  <2>2. CASE file' = Torn
    BY <2>2, EmptyConfigType DEF Stored
  <2>3. CASE pending # None /\ file' = pending
    <3>1. pending \in Configs
      BY <2>3 DEF IInv, TypeOK
    <3>2. Stored' = Saved
      BY <2>3, <3>1 DEF Stored, Saved
    <3>3. QED
      BY <2>3, <3>1, <3>2 DEF IInv
  <2>4. QED
    BY <2>1, <2>2, <2>3 DEF Exit, Crash
<1>3. Saved' = Stored'
  BY <1>1 DEF Saved
<1>4. TypeOK'
  BY <1>1, <1>2 DEF IInv, TypeOK, Exit, Crash, ProcessEnds
<1>5. QED
  BY <1>1, <1>2, <1>3, <1>4 DEF IInv, DialogFits, ListFits, BlockedFits, Returned

LEMMA PanelInv == IInv /\ PanelTap => IInv'
<1> SUFFICES ASSUME IInv, PanelTap PROVE IInv'
  OBVIOUS
<1>1. Returned /\ UNCHANGED <<file, disk, pending, up, dialog, rules, autoSave, blocked>>
  BY DEF PanelTap, Idle
<1>2. /\ list' \subseteq Connections
      /\ Keys(list') = Keys(list)
      /\ UniqueIds(list) => UniqueIds(list')
      /\ pools' \subseteq Names
      /\ panel' \in BOOLEAN
  <2>1. CASE panel
    <3>1. TapOff /\ panel' = FALSE
      BY <2>1 DEF PanelTap
    <3>2. QED
      BY <1>1, <3>1, CallbackFacts, TapOffFacts
  <2>2. CASE ~ panel
    <3>1. PICK started \in SUBSET Names : TapOn(list, started)
      BY <2>2 DEF PanelTap
    <3>2. panel' = TRUE
      BY <2>2 DEF PanelTap
    <3>3. QED
      BY <1>1, <3>1, <3>2, CallbackFacts, TapOnFacts
  <2>3. QED
    BY <2>1, <2>2
<1>3. dialog' \in Connections \cup {New, None} /\ rules' \subseteq Rules /\ autoSave' \in BOOLEAN
  BY <1>1 DEF IInv, TypeOK
<1>4. disk = "sound" =>
          /\ dialog' = None
          /\ UniqueIds(list')
          /\ Keys(list') = Keys(LoadConfig.conns)
  BY <1>1, <1>2, CallbackFacts
<1>5. QED
  BY <1>1, <1>2, <1>3, <1>4, MemoryInv

LEMMA DialogClosesInv == IInv /\ (LoadConnections \/ CloseEscapablePopUp) => IInv'
<1> SUFFICES ASSUME IInv, LoadConnections \/ CloseEscapablePopUp PROVE IInv'
  OBVIOUS
<1>1. /\ Returned
      /\ UNCHANGED <<file, disk, pending, up, pools, panel, rules, autoSave, blocked>>
      /\ dialog' = None
  BY DEF LoadConnections, CloseEscapablePopUp
<1>2. list' = LoadConfig.conns \/ (list' = list /\ dialog = New)
  BY DEF LoadConnections, CloseEscapablePopUp
<1>3. disk = "sound" => list' = LoadConfig.conns
  BY <1>1, <1>2, CallbackFacts
<1>4. QED
  BY <1>1, <1>2, <1>3, CallbackFacts, MemoryInv

LEMMA RunClickInv ==
  ASSUME IInv, NEW c \in list, RunClick(c)
  PROVE  IInv'
<1> DEFINE s == IF c.status = "inactive" THEN "active" ELSE "inactive"
           conns == {IF d.id = c.id THEN [d EXCEPT !.status = s] ELSE d : d \in LoadConfig.conns}
           config == [LoadConfig EXCEPT !.conns = conns]
<1>1. /\ Returned
      /\ dialog' = None
      /\ list' = (list \ {c}) \cup {[c EXCEPT !.status = s]}
      /\ SaveConfig(config)
      /\ UNCHANGED <<panel, rules, autoSave, blocked>>
  BY DEF RunClick, Idle
<1>2. pools' \subseteq Names
  BY <1>1, CallbackFacts DEF RunClick, Connections
<1>3. s \in {"inactive", "active"}
  OBVIOUS
<1> HIDE DEF s
<1>4. /\ list' \subseteq Connections
      /\ Keys(list') = Keys(list)
      /\ UniqueIds(list) => UniqueIds(list')
  BY <1>1, <1>3, CallbackFacts, StatusOfOne
<1>5. /\ conns \subseteq Connections
      /\ Keys(conns) = Keys(LoadConfig.conns)
      /\ UniqueIds(conns)
  <2>1. LoadConfig.conns \in SUBSET Connections /\ UniqueIds(LoadConfig.conns)
    BY <1>1, CallbackFacts
  <2> DEFINE S == LoadConfig.conns
  <2>2. S \in SUBSET Connections
    BY <2>1
  <2> HIDE DEF S
  <2> DEFINE T == WithStatus(S, c.id, s)
  <2>3. T \subseteq Connections /\ Keys(T) = Keys(S) /\ (UniqueIds(S) => UniqueIds(T))
    BY <2>2, <1>3, StatusOfId
  <2>4. conns = T
    BY DEF S, WithStatus
  <2> HIDE DEF T, conns
  <2>5. QED
    BY <2>1, <2>3, <2>4 DEF S
<1> HIDE DEF conns
<1>6. /\ config \in Configs
      /\ config.conns = conns
      /\ config.blocked = LoadConfig.blocked
  BY <1>1, <1>5, CallbackFacts, ChangeConns
<1> HIDE DEF config
<1>7. QED
  BY <1>1, <1>2, <1>4, <1>5, <1>6, CallbackFacts, SaveInv

\* A callback that changes the connections of the file.
LEMMA ConnsInv ==
  ASSUME IInv, Returned, NEW conns \in SUBSET Connections, UniqueIds(conns),
         SaveConfig([LoadConfig EXCEPT !.conns = conns]),
         list' \subseteq Connections, dialog' \in Connections \cup {New, None},
         disk = "sound" /\ dialog' = None =>
             UniqueIds(list') /\ Keys(list') = Keys(conns),
         UNCHANGED <<pools, panel, rules, autoSave, blocked>>
  PROVE  IInv'
<1> DEFINE config == [LoadConfig EXCEPT !.conns = conns]
<1>1. /\ config \in Configs
      /\ config.conns = conns
      /\ config.blocked = LoadConfig.blocked
  BY CallbackFacts, ChangeConns
<1>2. SaveConfig(config)
  OBVIOUS
<1> HIDE DEF config
<1>3. QED
  BY <1>1, <1>2, CallbackFacts, SaveInv

LEMMA EditConnectionInv ==
  ASSUME IInv, NEW c \in list, NEW i \in Ids, NEW n \in Names, EditConnection(c, i, n)
  PROVE  IInv'
<1> DEFINE edited == [c EXCEPT !.id = i, !.name = n]
<1>1. /\ Returned
      /\ list' = (list \ {c}) \cup {edited}
      /\ dialog' = edited
      /\ SaveConfig([LoadConfig EXCEPT !.conns = Put(LoadConfig.conns, edited)])
      /\ UNCHANGED <<pools, panel, rules, autoSave, blocked>>
  BY DEF EditConnection
<1>2. list \subseteq Connections /\ LoadConfig.conns \subseteq Connections
  BY <1>1, CallbackFacts
<1>3. edited \in Connections
  BY <1>2 DEF Connections
<1> HIDE DEF edited
<1> DEFINE conns == Put(LoadConfig.conns, edited)
<1>4. conns \in SUBSET Connections /\ UniqueIds(conns)
  BY <1>1, <1>2, <1>3, CallbackFacts, PutUnique
<1>5. list' \subseteq Connections /\ dialog' \in Connections /\ dialog' # None
  BY <1>1, <1>2, <1>3
<1>6. SaveConfig([LoadConfig EXCEPT !.conns = conns])
  BY <1>1
<1> HIDE DEF conns
<1>7. QED
  BY <1>1, <1>4, <1>5, <1>6, ConnsInv

LEMMA NewConnectionInv ==
  ASSUME IInv, NEW i \in Ids, NEW n \in Names, NewConnection(i, n)
  PROVE  IInv'
<1> DEFINE new == [id |-> i, name |-> n, status |-> "inactive"]
<1>1. /\ Returned
      /\ dialog' = New
      /\ SaveConfig([LoadConfig EXCEPT !.conns = Put(LoadConfig.conns, new)])
      /\ UNCHANGED <<list, pools, panel, rules, autoSave, blocked>>
  BY DEF NewConnection
<1>2. new \in Connections
  BY DEF Connections
<1> HIDE DEF new
<1> DEFINE conns == Put(LoadConfig.conns, new)
<1>3. conns \in SUBSET Connections /\ UniqueIds(conns)
  BY <1>1, <1>2, CallbackFacts, PutUnique
<1>4. list' \subseteq Connections /\ dialog' # None
  BY <1>1, CallbackFacts
<1>5. SaveConfig([LoadConfig EXCEPT !.conns = conns])
  BY <1>1
<1> HIDE DEF conns
<1>6. QED
  BY <1>1, <1>3, <1>4, <1>5, ConnsInv

LEMMA RemoveConnectionInv ==
  ASSUME IInv, NEW c \in list, RemoveConnection(c)
  PROVE  IInv'
<1> DEFINE conns == {d \in LoadConfig.conns : d.id # c.id}
<1>1. /\ Returned
      /\ list' = list \ {c}
      /\ dialog' = None
      /\ SaveConfig([LoadConfig EXCEPT !.conns = conns])
      /\ UNCHANGED <<pools, panel, rules, autoSave, blocked>>
  BY DEF RemoveConnection, Idle
<1>2. disk = "sound" => UniqueIds(list') /\ Keys(list') = Keys(conns)
  <2>1. LoadConfig.conns \in SUBSET Connections /\ list \in SUBSET Connections
    BY <1>1, CallbackFacts
  <2>2. CASE disk = "sound"
    <3>1. /\ UniqueIds(LoadConfig.conns) /\ UniqueIds(list)
          /\ Keys(list) = Keys(LoadConfig.conns)
      BY <1>1, <2>2, CallbackFacts
    <3>2. QED
      BY <1>1, <2>1, <3>1, RemoveOne
  <2>3. QED
    BY <2>2
<1>3. /\ conns \in SUBSET Connections
      /\ UniqueIds(conns)
      /\ list' \subseteq Connections
  BY <1>1, CallbackFacts DEF UniqueIds
<1> HIDE DEF conns
<1>4. QED
  BY <1>1, <1>2, <1>3, ConnsInv

LEMMA BlockedInv ==
  ASSUME IInv, NEW ips \in SUBSET IPs, BlockedBecomes(ips)
  PROVE  IInv'
<1> DEFINE config == [LoadConfig EXCEPT !.blocked = ips]
<1>1. /\ Returned
      /\ blocked' = ips
      /\ dialog' = None
      /\ SaveConfig(config)
      /\ UNCHANGED <<list, pools, panel, rules, autoSave>>
  BY DEF BlockedBecomes, Idle
<1>2. /\ config \in Configs
      /\ config.blocked = ips
      /\ config.conns = LoadConfig.conns
  BY <1>1, CallbackFacts, ChangeBlocked
<1> HIDE DEF config
<1>3. QED
  BY <1>1, <1>2, CallbackFacts, SaveInv

\* The rules tab saves its table.
LEMMA SaveRulesInv ==
  ASSUME IInv, Idle, NEW table \in SUBSET Rules, SaveRulesToConfig(table),
         rules' = table, UNCHANGED <<dialog, list, pools, panel, autoSave, blocked>>
  PROVE  IInv'
<1> DEFINE config == [LoadConfig EXCEPT !.rules = table]
<1>1. Returned /\ dialog' = None
  BY DEF Idle
<1>2. /\ config \in Configs
      /\ config.conns = LoadConfig.conns
      /\ config.blocked = LoadConfig.blocked
  BY <1>1, CallbackFacts, ChangeRules
<1>3. SaveConfig(config)
  BY DEF SaveRulesToConfig
<1> HIDE DEF config
<1>4. QED
  BY <1>1, <1>2, <1>3, CallbackFacts, SaveInv

LEMMA PutRule ==
  ASSUME NEW S \in SUBSET Rules, NEW r \in Rules
  PROVE  Put(S, r) \in SUBSET Rules
BY DEF Put

LEMMA RulesInv ==
  ASSUME IInv,
         \/ \E r \in Rules : RuleSubmitted(r) \/ DeleteRule(r)
         \/ SaveButton \/ AutoSaveCheck
  PROVE  IInv'
<1>1. Idle /\ Returned
  BY DEF RuleSubmitted, DeleteRule, SaveButton, AutoSaveCheck, Idle
<1>2. CASE \/ \E r \in Rules : DeleteRule(r) \/ (RuleSubmitted(r) /\ ~ autoSave)
           \/ AutoSaveCheck
  <2>1. UNCHANGED <<file, disk, pending, up, dialog, blocked, list, pools, panel>>
    BY <1>2 DEF RuleSubmitted, DeleteRule, AutoSaveCheck
  <2>2. rules' \subseteq Rules /\ autoSave' \in BOOLEAN
    BY <1>1, <1>2, CallbackFacts, PutRule DEF RuleSubmitted, DeleteRule, AutoSaveCheck
  <2>3. dialog' = None
    BY <1>1, <2>1 DEF Idle
  <2>4. QED
    BY <1>1, <2>1, <2>2, <2>3, CallbackFacts, MemoryInv
<1>3. ASSUME NEW r \in Rules, RuleSubmitted(r), autoSave PROVE IInv'
  <2>1. rules' \in SUBSET Rules /\ SaveRulesToConfig(rules')
    BY <1>1, <1>3, CallbackFacts, PutRule DEF RuleSubmitted
  <2>2. QED
    BY <1>1, <1>3, <2>1, SaveRulesInv DEF RuleSubmitted
<1>4. CASE SaveButton
  <2>1. rules \in SUBSET Rules
    BY <1>1, CallbackFacts
  <2>2. QED
    BY <1>1, <1>4, <2>1, SaveRulesInv DEF SaveButton
<1>5. QED
  BY <1>2, <1>3, <1>4

LEMMA NextInv == IInv /\ [Next]_vars => IInv'
<1> SUFFICES ASSUME IInv, [Next]_vars PROVE IInv'
  OBVIOUS
<1>1. CASE StartApp \/ WriteFile \/ WriteFileFails \/ Exit \/ Crash \/ DiskFails \/ DiskRecovers
  BY <1>1, StartAppInv, WriteFileInv, WriteFileFailsInv, EndInv, DiskInv
<1>2. CASE PanelTap \/ LoadConnections \/ CloseEscapablePopUp
  BY <1>2, PanelInv, DialogClosesInv
<1>3. ASSUME NEW c \in list, RunClick(c) \/ RemoveConnection(c) PROVE IInv'
  BY <1>3, RunClickInv, RemoveConnectionInv
<1>4. ASSUME NEW c \in list, NEW i \in Ids, NEW n \in Names, EditConnection(c, i, n)
      PROVE  IInv'
  BY <1>4, EditConnectionInv
<1>5. ASSUME NEW i \in Ids, NEW n \in Names, NewConnection(i, n) PROVE IInv'
  BY <1>5, NewConnectionInv
<1>6. ASSUME NEW ip \in IPs, BlockIP(ip) \/ UnblockIP(ip) PROVE IInv'
  <2>1. blocked \subseteq IPs
    BY DEF IInv, TypeOK
  <2>2. QED
    BY <1>6, <2>1, BlockedInv DEF BlockIP, UnblockIP
<1>7. CASE ClearAllBlocked
  BY <1>7, BlockedInv DEF ClearAllBlocked
<1>8. CASE \/ \E r \in Rules : RuleSubmitted(r) \/ DeleteRule(r)
           \/ SaveButton \/ AutoSaveCheck
  BY <1>8, RulesInv
<1>9. CASE UNCHANGED vars
  BY <1>9 DEF vars, memory, IInv, TypeOK, Stored, Saved, DialogFits, ListFits, BlockedFits,
              Returned
<1>10. QED
  BY <1>1, <1>2, <1>3, <1>4, <1>5, <1>6, <1>7, <1>8, <1>9 DEF Next

-----------------------------------------------------------------------------
(* The action properties.                                                  *)

\* What a callback passes to SaveConfig is what is saved, and until then what
\* it has loaded is, unless the disk is failing.
LEMMA SavedAfter ==
  ASSUME IInv, Returned, NEW config \in Configs, SaveConfig(config)
  PROVE  Saved' = config /\ (disk # "failing" => LoadConfig = Saved)
<1>1. config # None
  OBVIOUS
<1>2. QED
  BY <1>1, CallbackFacts DEF SaveConfig, Saved

\* Changing the connections leaves the rules and the addresses.
LEMMA ConnsSaved ==
  ASSUME IInv, Returned, NEW conns \in SUBSET Connections,
         SaveConfig([LoadConfig EXCEPT !.conns = conns]), disk # "failing"
  PROVE  Saved'.rules = Saved.rules /\ Saved'.blocked = Saved.blocked
<1> DEFINE config == [LoadConfig EXCEPT !.conns = conns]
<1>1. /\ config \in Configs
      /\ config.rules = LoadConfig.rules
      /\ config.blocked = LoadConfig.blocked
  BY CallbackFacts, ChangeConns
<1>2. SaveConfig(config)
  OBVIOUS
<1> HIDE DEF config
<1>3. QED
  BY <1>1, <1>2, SavedAfter

ConnsCallback ==
    \/ \E c \in list : RunClick(c) \/ RemoveConnection(c)
    \/ \E c \in list, i \in Ids, n \in Names : EditConnection(c, i, n)
    \/ \E i \in Ids, n \in Names : NewConnection(i, n)

LEMMA ConnsStep ==
  ASSUME IInv, ConnsCallback, disk # "failing"
  PROVE  rules' = rules /\ Saved'.rules = Saved.rules /\ Saved'.blocked = Saved.blocked
<1>1. CASE \E c \in list : RunClick(c)
  <2>1. PICK c \in list : RunClick(c)
    BY <1>1
  <2> DEFINE s == IF c.status = "inactive" THEN "active" ELSE "inactive"
             conns == {IF d.id = c.id THEN [d EXCEPT !.status = s] ELSE d :
                           d \in LoadConfig.conns}
  <2>2. /\ Returned
        /\ SaveConfig([LoadConfig EXCEPT !.conns = conns])
        /\ rules' = rules
    BY <2>1 DEF RunClick, Idle
  <2>3. s \in {"inactive", "active"}
    OBVIOUS
  <2> HIDE DEF s
  <2>4. conns \in SUBSET Connections
    BY <2>2, <2>3, CallbackFacts, ChangeStatus
  <2> HIDE DEF conns
  <2>5. QED
    BY <2>2, <2>4, ConnsSaved
<1>2. CASE \E c \in list : RemoveConnection(c)
  <2>1. PICK c \in list : RemoveConnection(c)
    BY <1>2
  <2> DEFINE conns == {d \in LoadConfig.conns : d.id # c.id}
  <2>2. /\ Returned
        /\ SaveConfig([LoadConfig EXCEPT !.conns = conns])
        /\ rules' = rules
    BY <2>1 DEF RemoveConnection, Idle
  <2>3. conns \in SUBSET Connections
    BY <2>2, CallbackFacts
  <2> HIDE DEF conns
  <2>4. QED
    BY <2>2, <2>3, ConnsSaved
<1>3. CASE \E c \in list, i \in Ids, n \in Names : EditConnection(c, i, n)
  <2>1. PICK c \in list, i \in Ids, n \in Names : EditConnection(c, i, n)
    BY <1>3
  <2> DEFINE conns == Put(LoadConfig.conns, [c EXCEPT !.id = i, !.name = n])
  <2>2. /\ Returned
        /\ SaveConfig([LoadConfig EXCEPT !.conns = conns])
        /\ rules' = rules
    BY <2>1 DEF EditConnection
  <2>3. conns \in SUBSET Connections
    BY <2>2, CallbackFacts DEF Put, Connections
  <2> HIDE DEF conns
  <2>4. QED
    BY <2>2, <2>3, ConnsSaved
<1>4. CASE \E i \in Ids, n \in Names : NewConnection(i, n)
  <2>1. PICK i \in Ids, n \in Names : NewConnection(i, n)
    BY <1>4
  <2> DEFINE conns == Put(LoadConfig.conns, [id |-> i, name |-> n, status |-> "inactive"])
  <2>2. /\ Returned
        /\ SaveConfig([LoadConfig EXCEPT !.conns = conns])
        /\ rules' = rules
    BY <2>1 DEF NewConnection
  <2>3. conns \in SUBSET Connections
    BY <2>2, CallbackFacts DEF Put, Connections
  <2> HIDE DEF conns
  <2>4. QED
    BY <2>2, <2>3, ConnsSaved
<1>5. QED
  BY <1>1, <1>2, <1>3, <1>4 DEF ConnsCallback

BlockedCallback ==
    \/ \E ip \in IPs : BlockIP(ip) \/ UnblockIP(ip)
    \/ ClearAllBlocked

LEMMA BlockedStep ==
  ASSUME IInv, BlockedCallback, disk # "failing"
  PROVE  rules' = rules /\ Saved'.rules = Saved.rules /\ Saved'.conns = Saved.conns
<1>1. PICK ips \in SUBSET IPs : BlockedBecomes(ips)
  BY DEF BlockedCallback, BlockIP, UnblockIP, ClearAllBlocked, IInv, TypeOK
<1> DEFINE config == [LoadConfig EXCEPT !.blocked = ips]
<1>2. Returned /\ SaveConfig(config) /\ rules' = rules
  BY <1>1 DEF BlockedBecomes, Idle
<1>3. /\ config \in Configs
      /\ config.rules = LoadConfig.rules
      /\ config.conns = LoadConfig.conns
  BY <1>2, CallbackFacts, ChangeBlocked
<1> HIDE DEF config
<1>4. QED
  BY <1>2, <1>3, SavedAfter

\* The rules tab saves the rules it was given and nothing else of its own.
LEMMA SaveRulesSaves ==
  ASSUME IInv, Idle, NEW table \in SUBSET Rules, SaveRulesToConfig(table)
  PROVE  /\ Saved'.rules = table
         /\ disk # "failing" =>
               Saved'.conns = Saved.conns /\ Saved'.blocked = Saved.blocked
<1> DEFINE config == [LoadConfig EXCEPT !.rules = table]
<1>1. Returned
  BY DEF Idle
<1>2. /\ config \in Configs
      /\ config.rules = table
      /\ config.conns = LoadConfig.conns
      /\ config.blocked = LoadConfig.blocked
  BY <1>1, CallbackFacts, ChangeRules
<1>3. SaveConfig(config)
  BY DEF SaveRulesToConfig
<1> HIDE DEF config
<1>4. QED
  BY <1>1, <1>2, <1>3, SavedAfter

RulesCallback ==
    \/ \E r \in Rules : RuleSubmitted(r)
    \/ SaveButton

\* A form that is saved, or the save button.
LEMMA RulesStep ==
  ASSUME IInv, RulesCallback
  PROVE  \/ /\ ~ autoSave
            /\ Saved' = Saved
         \/ /\ Saved'.rules = rules'
            /\ disk # "failing" =>
                  Saved'.conns = Saved.conns /\ Saved'.blocked = Saved.blocked
<1>1. CASE SaveButton
  <2>1. Idle /\ SaveRulesToConfig(rules) /\ rules' = rules /\ rules \in SUBSET Rules
    BY <1>1 DEF SaveButton, IInv, TypeOK
  <2>2. QED
    BY <2>1, SaveRulesSaves
<1>2. CASE \E r \in Rules : RuleSubmitted(r)
  <2>1. PICK r \in Rules : RuleSubmitted(r)
    BY <1>2
  <2>2. Idle /\ rules' = Put(rules, r)
    BY <2>1 DEF RuleSubmitted
  <2>3. rules' \in SUBSET Rules
    BY <2>2, PutRule DEF IInv, TypeOK
  <2>4. CASE autoSave
    <3>1. SaveRulesToConfig(rules')
      BY <2>1, <2>4 DEF RuleSubmitted
    <3>2. QED
      BY <2>2, <2>3, <3>1, SaveRulesSaves
  <2>5. CASE ~ autoSave
    <3>1. Saved' = Saved
      BY <2>1, <2>5 DEF RuleSubmitted, Saved, Stored
    <3>2. QED
      BY <2>5, <3>1
  <2>6. QED
    BY <2>4, <2>5
<1>3. QED
  BY <1>1, <1>2 DEF RulesCallback

\* The steps that save nothing and leave the rules alone.
LEMMA QuietStep ==
  ASSUME IInv,
         \/ DiskFails \/ DiskRecovers \/ WriteFile \/ PanelTap \/ LoadConnections
         \/ CloseEscapablePopUp \/ AutoSaveCheck \/ UNCHANGED vars
  PROVE  rules' = rules /\ Saved' = Saved
<1>1. CASE WriteFile
  <2>1. pending \in Configs
    BY <1>1 DEF WriteFile, IInv, TypeOK
  <2>2. QED
    BY <1>1, <2>1 DEF WriteFile, Saved, Stored
<1>2. CASE ~ WriteFile
  <2>1. UNCHANGED <<file, pending, rules>>
    BY <1>2 DEF DiskFails, DiskRecovers, PanelTap, LoadConnections, CloseEscapablePopUp,
                AutoSaveCheck, vars, memory
  <2>2. QED
    BY <2>1 DEF Saved, Stored
<1>3. QED
  BY <1>1, <1>2

\* The kinds of steps.
LEMMA StepKinds ==
  ASSUME [Next]_vars
  PROVE  \/ ConnsCallback \/ BlockedCallback \/ RulesCallback
         \/ \E r \in Rules : DeleteRule(r)
         \/ DiskFails \/ DiskRecovers \/ WriteFile \/ PanelTap \/ LoadConnections
         \/ CloseEscapablePopUp \/ AutoSaveCheck \/ UNCHANGED vars
         \/ StartApp \/ WriteFileFails \/ Exit \/ Crash
BY DEF Next, ConnsCallback, BlockedCallback, RulesCallback

\* What is about to be in the file changes in one part at a time.
LEMMA StepOwnPart ==
  ASSUME IInv, [Next]_vars, up, up', disk # "failing"
  PROVE  OnePart(Saved, Saved')
<1>1. CASE ConnsCallback
  BY <1>1, ConnsStep DEF OnePart
<1>2. CASE BlockedCallback
  BY <1>2, BlockedStep DEF OnePart
<1>3. CASE RulesCallback
  BY <1>3, RulesStep DEF OnePart
<1>4. CASE \E r \in Rules : DeleteRule(r)
  BY <1>4 DEF DeleteRule, Saved, Stored, OnePart
<1>5. ~ (StartApp \/ WriteFileFails \/ Exit \/ Crash)
  BY DEF StartApp, WriteFileFails, Exit, Crash, ProcessEnds
<1>6. QED
  BY <1>1, <1>2, <1>3, <1>4, <1>5, StepKinds, QuietStep DEF OnePart

\* With Auto Save on no step leaves one more rule unsaved; with or without it,
\* a rule comes to be in the file only by the user who changes it elsewhere.
LEMMA StepAutoSaved ==
  ASSUME IInv, [Next]_vars, disk # "failing"
  PROVE  /\ autoSave => Unsaved' \subseteq Unsaved
         /\ up' => Undead' \ Undead \subseteq rules \ rules'
<1> DEFINE Goal == /\ autoSave => Unsaved' \subseteq Unsaved
                   /\ up' => Undead' \ Undead \subseteq rules \ rules'
<1>1. rules' = rules /\ Saved'.rules = Saved.rules => Goal
  BY DEF Unsaved, Undead
<1>2. Saved'.rules = rules' => Goal
  BY DEF Unsaved, Undead
<1>3. CASE ConnsCallback
  BY <1>1, <1>3, ConnsStep
<1>4. CASE BlockedCallback
  BY <1>1, <1>4, BlockedStep
<1>5. CASE RulesCallback
  BY <1>2, <1>5, RulesStep DEF Undead
<1>6. CASE \E r \in Rules : DeleteRule(r)
  <2>1. rules' \subseteq rules /\ Saved' = Saved
    BY <1>6 DEF DeleteRule, Saved, Stored
  <2>2. QED
    BY <2>1 DEF Unsaved, Undead
<1>7. CASE StartApp
  <2>1. pending = None /\ pending' = None /\ Stored' = Stored
    BY <1>7 DEF StartApp, IInv, DialogFits, Stored
  <2>2. Saved'.rules = rules'
    BY <1>7, <2>1 DEF StartApp, Saved, LoadConfig
  <2>3. QED
    BY <1>2, <2>2
<1>8. CASE Exit \/ Crash
  <2>1. rules' = {} /\ ~ up'
    BY <1>8 DEF Exit, Crash, ProcessEnds
  <2>2. QED
    BY <2>1 DEF Unsaved
<1>9. ~ WriteFileFails
  BY DEF WriteFileFails
<1>10. QED
  BY <1>1, <1>3, <1>4, <1>5, <1>6, <1>7, <1>8, <1>9, StepKinds, QuietStep

\* A pool that a step starts is one the list can stop.
LEMMA StepOrphans ==
  ASSUME IInv, [Next]_vars
  PROVE  Orphans' \ Orphans \subseteq NamesOf(list) \ NamesOf(list')
<1>1. pools' \ NamesOf(list') \subseteq pools
  <2>1. CASE StartApp
    <3>1. LoadConfig.conns \in SUBSET Connections
      BY LoadConfigType, ConfigParts DEF IInv
    <3>2. QED
      BY <2>1, <3>1, TapOnFacts DEF StartApp
  <2>2. CASE PanelTap
    <3>1. list \subseteq Connections
      BY DEF IInv, TypeOK
    <3>2. QED
      BY <2>2, <3>1, TapOnFacts, TapOffFacts DEF PanelTap
  <2>3. ASSUME NEW c \in list, RunClick(c) PROVE pools' \ NamesOf(list') \subseteq pools
    <3>1. list \subseteq Connections
      BY DEF IInv, TypeOK
    <3>2. \A s : [c EXCEPT !.status = s].name = c.name
      BY <3>1 DEF Connections
    <3>3. c.name \in NamesOf(list')
      BY <2>3, <3>2 DEF RunClick, NamesOf
    <3>4. QED
      BY <2>3, <3>3 DEF RunClick
  <2>4. CASE pools' \subseteq pools
    BY <2>4
  <2>5. CASE DiskFails \/ DiskRecovers \/ WriteFile \/ WriteFileFails \/ LoadConnections
             \/ CloseEscapablePopUp \/ AutoSaveCheck \/ Exit \/ Crash \/ UNCHANGED vars
    BY <2>4, <2>5 DEF DiskFails, DiskRecovers, WriteFile, WriteFileFails, LoadConnections,
           CloseEscapablePopUp, AutoSaveCheck, Exit, Crash, ProcessEnds, vars, memory
  <2>6. CASE BlockedCallback \/ RulesCallback \/ \E r \in Rules : DeleteRule(r)
    BY <2>4, <2>6 DEF BlockedCallback, BlockIP, UnblockIP, ClearAllBlocked, BlockedBecomes,
           RulesCallback, RuleSubmitted, SaveButton, DeleteRule
  <2>7. CASE ConnsCallback
    BY <2>3, <2>4, <2>7 DEF ConnsCallback, RemoveConnection, EditConnection, NewConnection
  <2>8. QED
    BY <2>1, <2>2, <2>5, <2>6, <2>7, StepKinds
<1>2. QED
  BY <1>1 DEF Orphans

-----------------------------------------------------------------------------
(* The theorems.                                                           *)

\* As long as the disk holds, the list agrees with what is about to be in the
\* file or is about to be loaded (config_manager.go:42).
THEOREM Invariance == Spec => []IInv
<1>1. QED
  BY InitInv, NextInv, PTL DEF Spec

\* The variables keep their types, for every value of the constants.
THEOREM TypeCorrect == Spec => []TypeOK
<1>1. IInv => TypeOK
  BY DEF IInv
<1>2. QED
  BY <1>1, Invariance, PTL

\* As long as no read or write fails, the list between two callbacks shows
\* what a restart would load (connectionlist.go:63, editdialog.go:211).
THEOREM ListIsSaved == Spec => []ListMatchesFile
<1>1. IInv => ListMatchesFile
  BY DEF IInv, ListFits, ListMatchesFile, Saved, Idle, Returned
<1>2. QED
  BY <1>1, Invariance, PTL

\* As long as no read or write fails, the blocked addresses between two
\* callbacks are those of the file (block_list_tab.go:87).
THEOREM BlocklistIsSaved == Spec => []BlockedMatchesFile
<1>1. IInv => BlockedMatchesFile
  BY DEF IInv, BlockedFits, BlockedMatchesFile, Saved, Idle, Returned
<1>2. QED
  BY <1>1, Invariance, PTL

\* No tab overwrites the part of another, unless the file cannot be read or
\* written meanwhile (config_manager.go:42, storage.go:90).
THEOREM TabsKeepToTheirPart == Spec => OnlyOwnPart
<1>1. IInv /\ [Next]_vars =>
        [up /\ up' /\ disk # "failing" => OnePart(Saved, Saved')]_vars
  BY StepOwnPart
<1>2. QED
  BY <1>1, Invariance, PTL DEF Spec, OnlyOwnPart

\* With Auto Save on, no step leaves one more rule unsaved while the file can
\* be read and written (rule_tab.go:320, 375), and only a deletion or an
\* unsaved edit leaves one that a restart brings back (rule_tab.go:255).
THEOREM AutoSaveSaves == Spec => RulesAutoSaved
<1>1. IInv /\ [Next]_vars =>
        [disk # "failing" =>
            /\ autoSave => Unsaved' \subseteq Unsaved
            /\ up' => Undead' \ Undead \subseteq rules \ rules']_vars
  BY StepAutoSaved
<1>2. QED
  BY <1>1, Invariance, PTL DEF Spec, RulesAutoSaved

\* While Auto Save stays on and reads and writes succeed, every rule that is
\* enforced is saved as it is enforced, whatever starts, crashes and other
\* tabs come in between (rule_tab.go:320, 375).
THEOREM AutoSaveSuffices == Spec /\ []autoSave /\ []DiskHolds => []NoneUnsaved
<1>1. Init => NoneUnsaved
  BY DEF Init, NoneUnsaved, Unsaved
<1>2. IInv /\ autoSave /\ DiskHolds /\ NoneUnsaved /\ [Next]_vars => NoneUnsaved'
  BY StepAutoSaved DEF NoneUnsaved, DiskHolds
<1>3. QED
  BY <1>1, <1>2, Invariance, PTL DEF Spec

\* A pool gets out of reach of the list only with the name of its entry
\* (connectionlist.go:66, editdialog.go:202).
THEOREM PoolsStayInReach == Spec => OrphansLostTheirName
<1>1. IInv /\ [Next]_vars =>
        [Orphans' \ Orphans \subseteq NamesOf(list) \ NamesOf(list')]_vars
  BY StepOrphans
<1>2. QED
  BY <1>1, Invariance, PTL DEF Spec, OrphansLostTheirName

\* As long as no name leaves the list, by a removal, an edit or a reload, every
\* pool has an entry whose button stops it (connectionlist.go:66,
\* editdialog.go:202).
THEOREM KeptNamesKeepPools == Spec /\ NamesStay => []NoOrphans
<1>1. Init => NoOrphans
  BY DEF Init, NoOrphans, Orphans
<1>2. IInv /\ NoOrphans /\ [Next]_vars
        /\ [up' => NamesOf(list) \subseteq NamesOf(list')]_vars => NoOrphans'
  <2> SUFFICES ASSUME IInv, NoOrphans, [Next]_vars,
                      [up' => NamesOf(list) \subseteq NamesOf(list')]_vars
               PROVE  NoOrphans'
    OBVIOUS
  <2>1. CASE UNCHANGED vars
    BY <2>1 DEF vars, memory, NoOrphans, Orphans, NamesOf
  <2>2. CASE pools' = {}
    BY <2>2 DEF NoOrphans, Orphans
  <2>3. CASE up' /\ ~ UNCHANGED vars
    BY <2>3, StepOrphans DEF NoOrphans
  <2>4. ~ up' => pools' = {} \/ UNCHANGED <<pools, list>>
    <3>1. CASE \/ StartApp \/ WriteFile \/ Exit \/ Crash \/ DiskFails \/ DiskRecovers
               \/ WriteFileFails \/ UNCHANGED vars
      BY <3>1 DEF StartApp, WriteFile, Exit, Crash, ProcessEnds, DiskFails, DiskRecovers,
                  WriteFileFails, vars, memory
    <3>2. CASE ConnsCallback
      <4>1. \A config : SaveConfig(config) => up' = up
        BY DEF SaveConfig
      <4>2. up' = up /\ up
        BY <3>2, <4>1 DEF ConnsCallback, RunClick, RemoveConnection, EditConnection,
                          NewConnection, Idle, Returned
      <4>3. QED
        BY <4>2
    <3>3. CASE BlockedCallback
      BY <3>3 DEF BlockedCallback, BlockIP, UnblockIP, ClearAllBlocked, BlockedBecomes
    <3>4. CASE RulesCallback \/ \E r \in Rules : DeleteRule(r)
      BY <3>4 DEF RulesCallback, RuleSubmitted, SaveButton, DeleteRule
    <3>5. CASE PanelTap \/ LoadConnections \/ CloseEscapablePopUp \/ AutoSaveCheck
      BY <3>5 DEF PanelTap, LoadConnections, CloseEscapablePopUp, AutoSaveCheck, Idle, Returned
    <3>6. QED
      BY <3>1, <3>2, <3>3, <3>4, <3>5, StepKinds
  <2>5. CASE UNCHANGED <<pools, list>>
    BY <2>5 DEF NoOrphans, Orphans, NamesOf
  <2>6. QED
    BY <2>1, <2>2, <2>3, <2>4, <2>5
<1>3. QED
  BY <1>1, <1>2, Invariance, PTL DEF Spec, NamesStay

====
