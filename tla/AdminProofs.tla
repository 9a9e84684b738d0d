----------------------------- MODULE AdminProofs -----------------------------
(***************************************************************************)
(* Proofs about Admin: the type invariant, that an inline domain decides   *)
(* under every interleaving of changes and reloads, that a removed domain  *)
(* stays removed, and that a restart at a quiet moment keeps the rules.    *)
(***************************************************************************)
EXTENDS Admin, TLAPS

-----------------------------------------------------------------------------
(* The pieces of the state *)

\* What a configuration file loads as is a configuration (LoadConfig).
LEMMA LoadedType ==
    ASSUME NEW f
    PROVE  Loaded(f) \in Config
BY DEF Loaded, Defaults, Config, Modes

\* The domains that NewFilter takes from a configuration (NewFilter).
LEMMA StartInlineType ==
    ASSUME NEW c \in Config
    PROVE  StartInline(c) \subseteq Norms(Spellings)
BY DEF StartInline, Norms, Config

\* Loading the lists yields nothing that is not on them (loadListFromSource).
LEMMA FromListsType ==
    ASSUME NEW c, NEW S \in FromLists(c)
    PROVE  S \subseteq ListDomains
BY DEF FromLists

\* An uncontended edit does what the operation says.
LEMMA LoneEdit ==
    ASSUME NEW h \in Handlers, NEW slice, NEW T, ~Contended(h, slice)
    PROVE  /\ RacyEdit(h, slice, T) = {(T \ handler[h].remove) \cup handler[h].add}
           /\ Seen(h, slice, T) = {T}
BY DEF RacyEdit, Seen

\* No edit brings in what was neither there nor added, and no walk over a
\* slice sees more than the slice.
LEMMA EditBounds ==
    ASSUME NEW h \in Handlers, NEW slice, NEW T
    PROVE  /\ \A S \in RacyEdit(h, slice, T) : S \subseteq T \cup handler[h].add
           /\ \A S \in Seen(h, slice, T) : S \subseteq T
BY DEF RacyEdit, Seen

\* Of two operations that do not overlap, only one contends for anything.
LEMMA Uncontended ==
    ASSUME OneAtATime, ~raced, NEW h \in Handlers, handler[h] # Idle,
           NEW slice, slice # "idle"
    PROVE  ~Contended(h, slice)
BY DEF OneAtATime, Contended, Idle

-----------------------------------------------------------------------------
(* Type correctness *)

LEMMA TypeInit == AdminInit => AdminTypeOK
<1> SUFFICES ASSUME AdminInit PROVE AdminTypeOK
  OBVIOUS
<1>1. cfg \in Config /\ file \in Config \cup {Absent}
  BY LoadedType, Files DEF AdminInit
<1>2. inline \subseteq Norms(Spellings)
  BY <1>1, StartInlineType DEF AdminInit
<1>3. filter \in [domains : SUBSET Domains, mode : Modes]
  BY <1>1, <1>2, FromListsType DEF AdminInit, Domains, Config
<1>4. records \in SUBSET Records
  BY <1>1 DEF AdminInit, Config
<1>5. ops \in 0..MaxOps /\ starts \in 1..MaxStarts
  BY AdminConstants DEF AdminInit
<1> QED
  BY <1>1, <1>2, <1>3, <1>4, <1>5 DEF AdminInit, AdminTypeOK, HandlerStates

LEMMA TypeStep == AdminTypeOK /\ [AdminNext]_adminVars => AdminTypeOK'
<1> SUFFICES ASSUME AdminTypeOK, [AdminNext]_adminVars PROVE AdminTypeOK'
  OBVIOUS
<1> USE DEF HandlerStates
<1>1. ASSUME NEW h \in Handlers, Operation(h) PROVE AdminTypeOK'
  <2>1. /\ ops' \in 0..MaxOps
        /\ raced' \in BOOLEAN
        /\ UNCHANGED <<process, file, reloader, saved>>
    <3>1. PICK next : Begin(h, next)
      BY <1>1 DEF Operation, AddBlock, RemoveBlock, SetFilterMode, AddRecord,
         RemoveRecord, UpdateSettings
    <3> QED
      BY <3>1, AdminConstants DEF Begin, AdminTypeOK
  <2>2. CASE \E s \in Spellings : AddBlock(h, s) \/ RemoveBlock(h, s)
    <3> PICK s \in Spellings : AddBlock(h, s) \/ RemoveBlock(h, s)
      BY <2>2
    <3>1. s.name \in Norms(Spellings) /\ s.name \in Domains
      BY DEF Norms, Domains
    <3>2. /\ handler' \in [Handlers -> HandlerStates]
          /\ filter' \in [domains : SUBSET Domains, mode : Modes]
          /\ inline' \in SUBSET Norms(Spellings)
          /\ UNCHANGED <<cfg, records>>
      BY <3>1 DEF AddBlock, RemoveBlock, FilterAdd, FilterRemove, Begin, AdminTypeOK
    <3> QED
      BY <2>1, <3>2 DEF AdminTypeOK, process
  <2>3. CASE \E m \in Modes : SetFilterMode(h, m)
    <3>1. handler' \in [Handlers -> HandlerStates] /\ cfg' \in Config
      BY <2>3 DEF SetFilterMode, Begin, AdminTypeOK, Config
    <3> QED
      BY <2>1, <2>3, <3>1 DEF AdminTypeOK, process, SetFilterMode
  <2>4. CASE (\E r \in Records : AddRecord(h, r) \/ RemoveRecord(h, r.key)) \/ UpdateSettings(h)
    <3>1. handler' \in [Handlers -> HandlerStates] /\ UNCHANGED memory
      BY <2>4 DEF AddRecord, RemoveRecord, UpdateSettings, Begin, AdminTypeOK
    <3> QED
      BY <2>1, <3>1 DEF AdminTypeOK, process, memory
  <2> QED
    BY <1>1, <2>2, <2>3, <2>4 DEF Operation
<1>2. ASSUME NEW h \in Handlers, Proceed(h) PROVE AdminTypeOK'
  <2>1. UNCHANGED <<process, reloader, ops, raced>>
    BY <1>2 DEF Proceed, EditInline, ApplyMode, EditRecords, RebuildRecords,
       SaveNoPath, Marshal, Truncate, Write, WriteFails, Step
  <2>2. handler[h] \in HandlerStates
    BY DEF AdminTypeOK
  <2>3. CASE EditInline(h)
    <3>1. handler[h].add \subseteq Spellings
      BY <2>2, <2>3 DEF EditInline, Step, Idle
    <3>2. cfg' \in Config
      BY <2>3, <3>1, EditBounds DEF EditInline, AdminTypeOK, Config
    <3> QED
      BY <2>1, <2>3, <3>2 DEF EditInline, Step, AdminTypeOK, process
  <2>4. CASE ApplyMode(h)
    <3>1. handler[h].mode \in Modes
      BY <2>2, <2>4 DEF ApplyMode, Step, Idle
    <3> QED
      BY <2>1, <2>4, <3>1 DEF ApplyMode, Step, AdminTypeOK, process
  <2>5. CASE EditRecords(h)
    <3>1. handler[h].add \subseteq Records
      BY <2>2, <2>5 DEF EditRecords, Step, Idle
    <3>2. cfg' \in Config
      BY <2>5, <3>1, EditBounds DEF EditRecords, AdminTypeOK, Config
    <3> QED
      BY <2>1, <2>5, <3>2 DEF EditRecords, Step, AdminTypeOK, process
  <2>6. CASE RebuildRecords(h)
    <3>1. records' \subseteq Records
      BY <2>6, EditBounds DEF RebuildRecords, AdminTypeOK, Config
    <3> QED
      BY <2>1, <2>6, <3>1 DEF RebuildRecords, Step, AdminTypeOK, process
  <2>7. CASE SaveNoPath(h)
    BY <2>1, <2>7 DEF SaveNoPath, Step, AdminTypeOK, process, memory
  <2>8. CASE Marshal(h)
    <3>1. PICK S \in Seen(h, "inline", cfg.inline), T \in Seen(h, "records", cfg.records) :
             Step(h, "save", [pc |-> "truncate",
                              data |-> [cfg EXCEPT !.inline = S, !.records = T]])
      BY <2>8 DEF Marshal
    <3>2. [cfg EXCEPT !.inline = S, !.records = T] \in Config
      BY EditBounds DEF AdminTypeOK, Config
    <3> QED
      BY <2>1, <2>8, <3>1, <3>2 DEF Marshal, Step, AdminTypeOK, process, memory
  <2>9. CASE Truncate(h) \/ Write(h) \/ WriteFails(h)
    <3>1. handler[h].data \in Config
      BY <2>2, <2>9 DEF Truncate, Write, WriteFails, Step, Idle
    <3>2. CASE Truncate(h)
      <4>1. [pc |-> "write", data |-> handler[h].data] \in HandlerStates
        BY <3>1
      <4> QED
        BY <2>1, <3>2, <4>1 DEF Truncate, Step, AdminTypeOK, process, memory
    <3>3. CASE Write(h) \/ WriteFails(h)
      <4>1. file' \in Config \cup {Absent, Empty, Garbled} /\ saved' \in BOOLEAN
        BY <3>1, <3>3 DEF Write, WriteFails, AdminTypeOK
      <4> QED
        BY <2>1, <3>3, <4>1 DEF Write, WriteFails, Step, AdminTypeOK, process, memory
    <3> QED
      BY <2>9, <3>2, <3>3
  <2> QED
    BY <1>2, <2>3, <2>4, <2>5, <2>6, <2>7, <2>8, <2>9 DEF Proceed
<1>3. ASSUME NEW r \in Reloaders, ReloadRead(r) PROVE AdminTypeOK'
  <2>1. PICK S \in FromLists(cfg) :
           reloader' = [reloader EXCEPT ![r] = [pc |-> "loaded", mode |-> cfg.mode, loaded |-> S]]
    BY <1>3 DEF ReloadRead
  <2>2. S \in SUBSET Domains /\ cfg.mode \in Modes
    BY FromListsType DEF Domains, AdminTypeOK, Config
  <2> QED
    BY <1>3, <2>1, <2>2 DEF ReloadRead, AdminTypeOK, process, memory
<1>4. ASSUME NEW r \in Reloaders, ReloadCommit(r) PROVE AdminTypeOK'
  <2>1. reloader[r].loaded \subseteq Domains /\ reloader[r].mode \in Modes
    BY <1>4 DEF ReloadCommit, AdminTypeOK, Idle
  <2>2. Reloaded(r) \in [domains : SUBSET Domains, mode : Modes]
    BY <2>1 DEF Reloaded, AdminTypeOK, Domains
  <2> QED
    BY <1>4, <2>2 DEF ReloadCommit, AdminTypeOK, process
<1>5. CASE Restart
  <2>1. cfg' \in Config
    BY <1>5, LoadedType DEF Restart
  <2>2. inline' \subseteq Norms(Spellings)
    BY <1>5, <2>1, StartInlineType DEF Restart
  <2>3. filter' \in [domains : SUBSET Domains, mode : Modes]
    BY <1>5, <2>1, <2>2, FromListsType DEF Restart, Domains, Config
  <2>4. records' \in SUBSET Records
    BY <1>5, <2>1 DEF Restart, Config
  <2>5. starts' \in 1..MaxStarts
    BY <1>5, AdminConstants DEF Restart, AdminTypeOK
  <2> QED
    BY <1>5, <2>1, <2>2, <2>3, <2>4, <2>5 DEF Restart, AdminTypeOK
<1>6. CASE UNCHANGED adminVars
  BY <1>6 DEF adminVars, AdminTypeOK
<1> QED
  BY <1>1, <1>2, <1>3, <1>4, <1>5, <1>6 DEF AdminNext

\* Every reachable state has the types of AdminTypeOK, whatever handlers, reloads and
\* restarts do.
THEOREM AdminTypeCorrect == AdminSpec => []AdminTypeOK
<1>1. AdminInit => AdminTypeOK
  BY TypeInit
<1>2. AdminTypeOK /\ [AdminNext]_adminVars => AdminTypeOK'
  BY TypeStep
<1> QED
  BY <1>1, <1>2, PTL DEF AdminSpec

-----------------------------------------------------------------------------
(* Inline domains and lists *)

InMap == InlineInMap /\ LoadedFromLists

\* An operation changes the map and the inline set alike, under one mutex
\* (Filter.Add, Filter.Remove).
LEMMA OperationOnFilter ==
    ASSUME AdminTypeOK, NEW h \in Handlers, Operation(h)
    PROVE  \/ filter' = filter /\ inline' = inline
           \/ \E d : /\ filter'.domains = filter.domains \cup {d}
                     /\ inline' = inline \cup {d}
           \/ \E d : /\ filter'.domains = filter.domains \ {d}
                     /\ inline' = inline \ {d}
<1>1. CASE \E s \in Spellings : AddBlock(h, s)
  <2> PICK s \in Spellings : AddBlock(h, s)
    BY <1>1
  <2>1. filter'.domains = filter.domains \cup {s.name} /\ inline' = inline \cup {s.name}
    BY DEF AddBlock, FilterAdd, AdminTypeOK
  <2> QED
    BY <2>1
<1>2. CASE \E s \in Spellings : RemoveBlock(h, s)
  <2> PICK s \in Spellings : RemoveBlock(h, s)
    BY <1>2
  <2>1. filter'.domains = filter.domains \ {s.name} /\ inline' = inline \ {s.name}
    BY DEF RemoveBlock, FilterRemove, AdminTypeOK
  <2> QED
    BY <2>1
<1>3. CASE \/ \E m \in Modes : SetFilterMode(h, m)
           \/ \E r \in Records : AddRecord(h, r) \/ RemoveRecord(h, r.key)
           \/ UpdateSettings(h)
  BY <1>3 DEF SetFilterMode, AddRecord, RemoveRecord, UpdateSettings, memory
<1> QED
  BY <1>1, <1>2, <1>3 DEF Operation

LEMMA InMapInit == AdminInit => InMap
<1> SUFFICES ASSUME AdminInit PROVE InMap
  OBVIOUS
<1>1. InlineInMap
  BY DEF AdminInit, InlineInMap
<1>2. LoadedFromLists
  BY DEF AdminInit, LoadedFromLists, Idle
<1> QED
  BY <1>1, <1>2 DEF InMap

LEMMA InMapStep == AdminTypeOK /\ InMap /\ [AdminNext]_adminVars => InMap'
<1> SUFFICES ASSUME AdminTypeOK, InMap, [AdminNext]_adminVars PROVE InMap'
  OBVIOUS
<1> USE DEF InMap
<1>1. ASSUME NEW h \in Handlers, Operation(h) PROVE InMap'
  <2>1. UNCHANGED reloader
    BY <1>1 DEF Operation, AddBlock, RemoveBlock, SetFilterMode, AddRecord,
       RemoveRecord, UpdateSettings, Begin
  <2>2. InlineInMap'
    BY <1>1, OperationOnFilter DEF InlineInMap
  <2> QED
    BY <2>1, <2>2 DEF LoadedFromLists, InlineInMap
<1>2. ASSUME NEW h \in Handlers, Proceed(h) PROVE InMap'
  <2>1. UNCHANGED <<reloader, inline>> /\ filter'.domains = filter.domains
    BY <1>2 DEF Proceed, EditInline, ApplyMode, EditRecords, RebuildRecords,
       SaveNoPath, Marshal, Truncate, Write, WriteFails, Step, memory, AdminTypeOK
  <2> QED
    BY <2>1 DEF LoadedFromLists, InlineInMap
<1>3. ASSUME NEW r \in Reloaders, ReloadRead(r) PROVE InMap'
  <2>1. LoadedFromLists'
    BY <1>3, FromListsType DEF ReloadRead, LoadedFromLists, AdminTypeOK
  <2> QED
    BY <1>3, <2>1 DEF ReloadRead, memory, InlineInMap
<1>4. ASSUME NEW r \in Reloaders, ReloadCommit(r) PROVE InMap'
  <2>1. InlineInMap'
    BY <1>4 DEF ReloadCommit, Reloaded, InlineInMap
  <2>2. LoadedFromLists'
    BY <1>4 DEF ReloadCommit, LoadedFromLists, AdminTypeOK, Idle
  <2> QED
    BY <2>1, <2>2
<1>5. CASE Restart
  BY <1>5 DEF Restart, InlineInMap, LoadedFromLists, Idle
<1>6. CASE UNCHANGED adminVars
  BY <1>6 DEF adminVars, InlineInMap, LoadedFromLists
<1> QED
  BY <1>1, <1>2, <1>3, <1>4, <1>5, <1>6 DEF AdminNext

LEMMA InMapAlways == AdminSpec => [](AdminTypeOK /\ InMap)
<1>1. AdminInit => AdminTypeOK /\ InMap
  BY TypeInit, InMapInit
<1>2. AdminTypeOK /\ InMap /\ [AdminNext]_adminVars => (AdminTypeOK /\ InMap)'
  BY TypeStep, InMapStep
<1> QED
  BY <1>1, <1>2, PTL DEF AdminSpec

\* A domain of the administrator decides about the names at or below it under
\* every interleaving of changes and reloads (filter.go:71-80, 115-138).
THEOREM InlineRulesInForce == AdminSpec => []RulesInForce
<1>1. InMap => RulesInForce
  BY DEF InMap, InlineInMap, RulesInForce, Blocked
<1> QED
  BY <1>1, InMapAlways, PTL

\* A removed domain that is on no list comes back by an addition or a restart
\* only, never by a reload that overlaps the removal (filter.go:82-91, 127-136).
THEOREM RemovedDomainsStayRemoved == AdminSpec => RemovedStaysRemoved
<1> DEFINE Stays == \A d \in Domains \ ListDomains :
              d \notin filter.domains /\ d \in filter'.domains
              => starts' # starts \/ (ops' # ops /\ d \in inline')
<1>1. ASSUME AdminTypeOK, InMap, AdminNext PROVE Stays
  <2>1. ASSUME NEW h \in Handlers, Operation(h) PROVE Stays
    <3>1. ops' # ops
      <4>1. ops' = ops + 1
        BY <2>1 DEF Operation, AddBlock, RemoveBlock, SetFilterMode, AddRecord,
           RemoveRecord, UpdateSettings, Begin
      <4> QED
        BY <1>1, <4>1 DEF AdminTypeOK
    <3>2. \A d : d \notin filter.domains /\ d \in filter'.domains => d \in inline'
      BY <1>1, <2>1, OperationOnFilter
    <3> QED
      BY <3>1, <3>2
  <2>2. ASSUME NEW h \in Handlers, Proceed(h) PROVE Stays
    <3>1. filter'.domains = filter.domains
      BY <1>1, <2>2 DEF Proceed, EditInline, ApplyMode, EditRecords, RebuildRecords,
         SaveNoPath, Marshal, Truncate, Write, WriteFails, memory, AdminTypeOK
    <3> QED
      BY <3>1
  <2>3. ASSUME NEW r \in Reloaders, ReloadRead(r) PROVE Stays
    BY <2>3 DEF ReloadRead, memory
  <2>4. ASSUME NEW r \in Reloaders, ReloadCommit(r) PROVE Stays
    <3>1. filter'.domains = reloader[r].loaded \cup inline
      BY <2>4 DEF ReloadCommit, Reloaded
    <3>2. reloader[r].loaded \subseteq ListDomains /\ inline \subseteq filter.domains
      BY <1>1, <2>4 DEF ReloadCommit, InMap, LoadedFromLists, InlineInMap
    <3> QED
      BY <3>1, <3>2
  <2>5. CASE Restart
    BY <1>1, <2>5 DEF Restart, AdminTypeOK
  <2> QED
    BY <1>1, <2>1, <2>2, <2>3, <2>4, <2>5 DEF AdminNext
<1>2. AdminTypeOK /\ InMap /\ [AdminNext]_adminVars => [Stays]_adminVars
  BY <1>1
<1> QED
  BY <1>2, InMapAlways, PTL DEF AdminSpec, RemovedStaysRemoved

-----------------------------------------------------------------------------
(* What a restart finds *)

Persisted ==
    OneAtATime /\ DataCurrent /\ FileCurrent /\ InlineCovered /\ RecordsCovered

\* While nothing runs, the inline domains and the records are those of the
\* configuration.
LEMMA IdleCovered ==
    ASSUME Persisted, ~raced, \A h \in Handlers : handler[h] = Idle
    PROVE  inline \subseteq Norms(cfg.inline) /\ records = cfg.records
BY DEF Persisted, InlineCovered, RecordsCovered, Idle

\* An operation that overlaps no other finds the others idle, and leaves them so.
LEMMA LoneBegin ==
    ASSUME AdminTypeOK, NEW h \in Handlers, NEW next, Begin(h, next), ~raced'
    PROVE  /\ ~raced
           /\ \A g \in Handlers : handler[g] = Idle
           /\ handler'[h] = next
           /\ \A g \in Handlers \ {h} : handler'[g] = Idle
BY DEF Begin, AdminTypeOK

\* A running operation that overlaps no other is the only one.
LEMMA LoneStep ==
    ASSUME AdminTypeOK, OneAtATime, NEW h \in Handlers, NEW pc, pc # "idle", NEW next,
           Step(h, pc, next), ~raced'
    PROVE  /\ ~raced
           /\ handler[h].pc = pc
           /\ \A g \in Handlers \ {h} : handler[g] = Idle
           /\ handler'[h] = next
           /\ \A g \in Handlers \ {h} : handler'[g] = Idle
<1>1. ~raced /\ handler[h].pc = pc /\ handler[h] # Idle
  BY DEF Step, Idle
<1>2. \A g \in Handlers \ {h} : handler[g] = Idle
  BY <1>1 DEF OneAtATime
<1> QED
  BY <1>1, <1>2 DEF Step, AdminTypeOK

LEMMA PersistedInit == AdminInit => Persisted
<1> SUFFICES ASSUME AdminInit PROVE Persisted
  OBVIOUS
<1>1. OneAtATime /\ DataCurrent /\ RecordsCovered
  BY DEF AdminInit, OneAtATime, DataCurrent, RecordsCovered, Idle
<1>2. FileCurrent
  <2>1. file # Garbled /\ Loaded(file) = cfg
    BY Files DEF AdminInit
  <2> QED
    BY <2>1 DEF AdminInit, FileCurrent, Idle
<1>3. InlineCovered
  BY DEF AdminInit, InlineCovered, StartInline, Idle
<1> QED
  BY <1>1, <1>2, <1>3 DEF Persisted

LEMMA PersistedOperation ==
    ASSUME AdminTypeOK, Persisted, NEW h \in Handlers, Operation(h), ~raced'
    PROVE  Persisted'
<1>1. PICK next :
         /\ Begin(h, next)
         /\ next.pc \in {"inline", "mode", "records", "save"}
         /\ cfg'.inline = cfg.inline /\ cfg'.records = cfg.records
         /\ records' = records
         /\ \/ next.pc # "inline" /\ inline' = inline
            \/ \E s : /\ next = [pc |-> "inline", add |-> {s}, remove |-> {}]
                      /\ inline' = inline \cup {s.name}
            \/ \E s : /\ next = [pc |-> "inline", add |-> {}, remove |-> {s}]
                      /\ inline' = inline \ {s.name}
  <2>1. CASE \E s \in Spellings : AddBlock(h, s)
    <3> PICK s \in Spellings : AddBlock(h, s)
      BY <2>1
    <3> WITNESS [pc |-> "inline", add |-> {s}, remove |-> {}]
    <3> QED
      BY DEF AddBlock, FilterAdd
  <2>2. CASE \E s \in Spellings : RemoveBlock(h, s)
    <3> PICK s \in Spellings : RemoveBlock(h, s)
      BY <2>2
    <3> WITNESS [pc |-> "inline", add |-> {}, remove |-> {s}]
    <3> QED
      BY DEF RemoveBlock, FilterRemove
  <2>3. CASE \E m \in Modes : SetFilterMode(h, m)
    <3> PICK m \in Modes : SetFilterMode(h, m)
      BY <2>3
    <3> WITNESS [pc |-> "mode", mode |-> m]
    <3> QED
      BY DEF SetFilterMode, AdminTypeOK, Config
  <2>4. CASE \E r \in Records : AddRecord(h, r) \/ RemoveRecord(h, r.key)
    BY <2>4 DEF AddRecord, RemoveRecord, memory
  <2>5. CASE UpdateSettings(h)
    BY <2>5 DEF UpdateSettings, memory
  <2> QED
    BY <2>1, <2>2, <2>3, <2>4, <2>5 DEF Operation
<1>2. /\ ~raced
      /\ \A g \in Handlers : handler[g] = Idle
      /\ handler'[h] = next
      /\ \A g \in Handlers \ {h} : handler'[g] = Idle
  BY <1>1, LoneBegin
<1>3. inline \subseteq Norms(cfg.inline) /\ records = cfg.records
  BY <1>2, IdleCovered
<1>4. OneAtATime' /\ DataCurrent' /\ FileCurrent' /\ RecordsCovered'
  <2>1. OneAtATime'
    BY <1>2 DEF OneAtATime
  <2>2. \A g \in Handlers : handler'[g].pc \notin {"truncate", "write"}
    BY <1>1, <1>2 DEF Idle
  <2>3. handler'[h] # Idle
    BY <1>1, <1>2 DEF Idle
  <2> QED
    BY <1>1, <1>3, <2>1, <2>2, <2>3 DEF DataCurrent, FileCurrent, RecordsCovered
<1>5. InlineCovered'
  <2>1. CASE next.pc # "inline" /\ inline' = inline
    BY <1>1, <1>2, <1>3, <2>1 DEF InlineCovered, Idle, Norms
  <2>2. CASE \E s : /\ next = [pc |-> "inline", add |-> {s}, remove |-> {}]
                    /\ inline' = inline \cup {s.name}
    BY <1>1, <1>2, <1>3, <2>2 DEF InlineCovered, Idle, Norms
  <2>3. CASE \E s : /\ next = [pc |-> "inline", add |-> {}, remove |-> {s}]
                    /\ inline' = inline \ {s.name}
    BY <1>1, <1>2, <1>3, <2>3 DEF InlineCovered, Idle, Norms
  <2> QED
    BY <1>1, <2>1, <2>2, <2>3
<1> QED
  BY <1>4, <1>5 DEF Persisted

LEMMA PersistedProceed ==
    ASSUME AdminTypeOK, Persisted, NEW h \in Handlers, Proceed(h), ~raced'
    PROVE  Persisted'
<1> DEFINE Alone ==
      /\ ~raced
      /\ \A g \in Handlers \ {h} : handler[g] = Idle
      /\ \A g \in Handlers \ {h} : handler'[g] = Idle
<1> USE DEF Persisted
<1>1. OneAtATime /\ up' = up /\ inline' = inline
  BY DEF Proceed, EditInline, ApplyMode, EditRecords, RebuildRecords, SaveNoPath,
     Marshal, Truncate, Write, WriteFails, Step, process, memory
<1>2. Alone => OneAtATime'
  BY DEF OneAtATime
<1>3. ASSUME Alone, handler'[h].pc \notin {"truncate", "write", "idle"}
      PROVE  DataCurrent' /\ FileCurrent'
  BY <1>3 DEF DataCurrent, FileCurrent, Idle
<1>4. ASSUME Alone, UNCHANGED <<cfg, records>>, handler[h].pc \notin {"inline", "rebuild"},
             handler'[h].pc \notin {"inline", "rebuild"}
      PROVE  InlineCovered' /\ RecordsCovered'
  BY <1>1, <1>4 DEF InlineCovered, RecordsCovered, Idle
<1>5. CASE EditInline(h)
  <2>1. /\ Alone /\ handler[h].pc = "inline" /\ handler'[h] = [pc |-> "save"]
        /\ UNCHANGED records
    BY <1>1, <1>5, LoneStep DEF EditInline
  <2>2. ~Contended(h, "inline")
    BY <1>1, <2>1, Uncontended DEF Idle
  <2>3. /\ cfg'.inline = (cfg.inline \ handler[h].remove) \cup handler[h].add
        /\ cfg'.records = cfg.records
    BY <1>5, <2>2, LoneEdit DEF EditInline, AdminTypeOK, Config
  <2>4. inline \subseteq Norms(cfg.inline) \cup Norms(handler[h].add)
        /\ Norms(handler[h].remove) \cap inline = {}
    BY <2>1 DEF InlineCovered, Idle
  <2>5. inline \subseteq Norms(cfg'.inline)
    BY <2>3, <2>4 DEF Norms
  <2>6. InlineCovered'
    BY <1>1, <2>1, <2>5 DEF InlineCovered, Idle
  <2>7. RecordsCovered'
    BY <2>1, <2>3 DEF RecordsCovered, Idle
  <2> QED
    BY <1>2, <1>3, <2>1, <2>6, <2>7
<1>6. CASE ApplyMode(h)
  <2>1. /\ Alone /\ handler[h].pc = "mode" /\ handler'[h] = [pc |-> "save"]
        /\ UNCHANGED <<cfg, records>>
    BY <1>1, <1>6, LoneStep DEF ApplyMode
  <2> QED
    BY <1>2, <1>3, <1>4, <2>1
<1>7. CASE EditRecords(h)
  <2>1. /\ Alone /\ handler[h].pc = "records" /\ handler'[h] = [pc |-> "rebuild"]
        /\ cfg'.inline = cfg.inline
    BY <1>1, <1>7, LoneStep DEF EditRecords, AdminTypeOK, Config
  <2>2. InlineCovered'
    BY <1>1, <2>1 DEF InlineCovered, Idle
  <2>3. RecordsCovered'
    BY <2>1 DEF RecordsCovered
  <2> QED
    BY <1>2, <1>3, <2>1, <2>2, <2>3
<1>8. CASE RebuildRecords(h)
  <2>1. /\ Alone /\ handler[h].pc = "rebuild" /\ handler'[h] = [pc |-> "save"]
        /\ UNCHANGED cfg
    BY <1>1, <1>8, LoneStep DEF RebuildRecords
  <2>2. ~Contended(h, "records")
    BY <1>1, <2>1, Uncontended DEF Idle
  <2>3. records' = cfg.records
    BY <1>8, <2>2, LoneEdit DEF RebuildRecords
  <2>4. InlineCovered' /\ RecordsCovered'
    BY <1>1, <2>1, <2>3 DEF InlineCovered, RecordsCovered, Idle
  <2> QED
    BY <1>2, <1>3, <2>1, <2>4
<1>9. CASE SaveNoPath(h)
  <2>1. /\ Alone /\ handler[h].pc = "save" /\ handler'[h] = Idle
        /\ UNCHANGED <<cfg, records>> /\ ~saved'
    BY <1>1, <1>9, LoneStep DEF SaveNoPath, memory
  <2>2. DataCurrent' /\ FileCurrent'
    BY <2>1 DEF DataCurrent, FileCurrent, Idle
  <2> QED
    BY <1>2, <1>4, <2>1, <2>2 DEF Idle
<1>10. CASE Marshal(h)
  <2>1. PICK S \in Seen(h, "inline", cfg.inline), T \in Seen(h, "records", cfg.records) :
           Step(h, "save", [pc |-> "truncate",
                            data |-> [cfg EXCEPT !.inline = S, !.records = T]])
    BY <1>10 DEF Marshal
  <2>2. /\ Alone /\ handler[h].pc = "save"
        /\ handler'[h] = [pc |-> "truncate", data |-> [cfg EXCEPT !.inline = S, !.records = T]]
        /\ UNCHANGED <<cfg, records>>
    BY <1>1, <1>10, <2>1, LoneStep DEF Marshal, memory
  <2>3. S = cfg.inline /\ T = cfg.records
    BY <1>1, <2>2, Uncontended, LoneEdit DEF Idle
  <2>4. [cfg EXCEPT !.inline = S, !.records = T] = cfg
    BY <2>3 DEF AdminTypeOK, Config
  <2>5. DataCurrent' /\ FileCurrent'
    BY <2>2, <2>4 DEF DataCurrent, FileCurrent, Idle
  <2> QED
    BY <1>2, <1>4, <2>2, <2>5
<1>11. CASE Truncate(h)
  <2>1. /\ Alone /\ handler[h].pc = "truncate"
        /\ handler'[h] = [pc |-> "write", data |-> handler[h].data]
        /\ UNCHANGED <<cfg, records>> /\ file' = Empty
    <3>1. PICK next : /\ next = [pc |-> "write", data |-> handler[h].data]
                      /\ Step(h, "truncate", next)
      BY <1>11 DEF Truncate
    <3>2. Step(h, "truncate", next) /\ "truncate" # "idle"
      BY <3>1
    <3> HIDE DEF Alone
    <3>3. handler[h].pc = "truncate" /\ handler'[h] = next
      BY <1>1, <3>2, LoneStep
    <3>4. Alone
      BY <1>1, <3>2, LoneStep DEF Alone
    <3> QED
      BY <1>11, <3>1, <3>3, <3>4 DEF Truncate, memory
  <2>2. DataCurrent' /\ FileCurrent'
    BY <2>1 DEF DataCurrent, FileCurrent, Idle
  <2> QED
    BY <1>2, <1>4, <2>1, <2>2
<1>12. CASE Write(h)
  <2>1. /\ Alone /\ handler[h].pc = "write" /\ handler'[h] = Idle
        /\ UNCHANGED <<cfg, records>>
    BY <1>1, <1>12, LoneStep DEF Write, memory
  <2>2. handler[h].data = cfg
    BY <2>1 DEF DataCurrent
  <2>3. up => file' = cfg
    BY <1>12, <2>1, <2>2 DEF Write, FileCurrent
  <2>4. up => Loaded(file') = cfg /\ file' # Garbled
    BY <2>3, Files DEF Loaded, AdminTypeOK
  <2>5. DataCurrent' /\ FileCurrent'
    BY <1>1, <2>1, <2>4 DEF DataCurrent, FileCurrent, Idle, Loaded
  <2> QED
    BY <1>2, <1>4, <2>1, <2>5 DEF Idle
<1>13. CASE WriteFails(h)
  <2>1. /\ Alone /\ handler[h].pc = "write" /\ handler'[h] = Idle
        /\ UNCHANGED <<cfg, records>> /\ ~saved'
    BY <1>1, <1>13, LoneStep DEF WriteFails, memory
  <2>2. DataCurrent' /\ FileCurrent'
    BY <2>1 DEF DataCurrent, FileCurrent, Idle
  <2> QED
    BY <1>2, <1>4, <2>1, <2>2 DEF Idle
<1> QED
  BY <1>5, <1>6, <1>7, <1>8, <1>9, <1>10, <1>11, <1>12, <1>13 DEF Proceed

LEMMA PersistedStep == AdminTypeOK /\ Persisted /\ [AdminNext]_adminVars => Persisted'
<1> SUFFICES ASSUME AdminTypeOK, Persisted, [AdminNext]_adminVars PROVE Persisted'
  OBVIOUS
<1>1. CASE raced'
  BY <1>1 DEF Persisted, OneAtATime, DataCurrent, FileCurrent, InlineCovered,
     RecordsCovered
<1>2. ASSUME ~raced', NEW h \in Handlers, Operation(h) \/ Proceed(h) PROVE Persisted'
  BY <1>2, PersistedOperation, PersistedProceed
<1>3. ASSUME NEW r \in Reloaders, ReloadRead(r) \/ ReloadCommit(r) PROVE Persisted'
  <2>1. UNCHANGED <<up, file, cfg, inline, records, handler, raced, saved>>
    BY <1>3 DEF ReloadRead, ReloadCommit, process, memory
  <2> QED
    BY <2>1 DEF Persisted, OneAtATime, DataCurrent, FileCurrent, InlineCovered,
       RecordsCovered
<1>4. CASE Restart
  <2>1. /\ \A h \in Handlers : handler'[h] = Idle
        /\ file' = file /\ cfg' = Loaded(file) /\ up' = (file # Garbled)
        /\ inline' = StartInline(cfg') /\ records' = cfg'.records
    BY <1>4 DEF Restart
  <2>2. OneAtATime' /\ DataCurrent' /\ RecordsCovered'
    BY <2>1 DEF OneAtATime, DataCurrent, RecordsCovered, Idle
  <2>3. FileCurrent'
    <3>1. \A h \in Handlers : handler'[h].pc # "write"
      BY <2>1 DEF Idle
    <3>2. up' => file' # Garbled
      BY <2>1, Zenon
    <3>3. Loaded(file)' = cfg'
      BY <2>1 DEF Loaded
    <3> QED
      BY <3>1, <3>2, <3>3 DEF FileCurrent
  <2>4. InlineCovered'
    BY <2>1 DEF InlineCovered, StartInline, Idle
  <2> QED
    BY <2>2, <2>3, <2>4 DEF Persisted
<1>5. CASE UNCHANGED adminVars
  BY <1>5 DEF adminVars, Persisted, OneAtATime, DataCurrent, FileCurrent, InlineCovered,
     RecordsCovered
<1> QED
  BY <1>1, <1>2, <1>3, <1>4, <1>5 DEF AdminNext

\* Every reachable state satisfies the inductive invariant that the model's
\* properties rest on.
THEOREM AdminInvariant == AdminSpec => []AdminIInv
<1>1. AdminInit => AdminTypeOK /\ InMap /\ Persisted
  BY TypeInit, InMapInit, PersistedInit
<1>2. AdminTypeOK /\ InMap /\ Persisted /\ [AdminNext]_adminVars => (AdminTypeOK /\ InMap /\ Persisted)'
  BY TypeStep, InMapStep, PersistedStep
<1>3. AdminTypeOK /\ InMap /\ Persisted => AdminIInv
  BY DEF AdminIInv, InMap, Persisted
<1> QED
  BY <1>1, <1>2, <1>3, PTL DEF AdminSpec

\* A restart at a quiet moment finds the mode, the domains and the records that
\* were in force in the file (server.go:358-409, config.go:262-271).
THEOREM RestartsKeepRules == AdminSpec => RestartKeepsRules
<1> DEFINE Keeps ==
      starts' # starts /\ Quiet /\ cfg.mode # "off"
      => /\ up'
         /\ filter'.mode = cfg.mode
         /\ inline \subseteq inline'
         /\ records' = records
<1>1. ASSUME AdminIInv, AdminNext PROVE Keeps
  <2>1. SUFFICES ASSUME starts' # starts, Quiet, cfg.mode # "off"
                 PROVE  /\ up'
                        /\ filter'.mode = cfg.mode
                        /\ inline \subseteq inline'
                        /\ records' = records
    OBVIOUS
  <2>2. Restart
    <3>1. ASSUME NEW h \in Handlers, Operation(h) PROVE UNCHANGED starts
      BY <3>1 DEF Operation, AddBlock, RemoveBlock, SetFilterMode, AddRecord,
         RemoveRecord, UpdateSettings, Begin, process
    <3>2. ASSUME NEW h \in Handlers, Proceed(h) PROVE UNCHANGED starts
      BY <3>2 DEF Proceed, EditInline, ApplyMode, EditRecords, RebuildRecords,
         SaveNoPath, Marshal, Truncate, Write, WriteFails, Step, process
    <3>3. ASSUME NEW r \in Reloaders, ReloadRead(r) \/ ReloadCommit(r) PROVE UNCHANGED starts
      BY <3>3 DEF ReloadRead, ReloadCommit, process
    <3> QED
      BY <1>1, <2>1, <3>1, <3>2, <3>3 DEF AdminNext
  <2>3. Loaded(file) = cfg /\ file # Garbled
    BY <1>1, <2>1 DEF AdminIInv, FileCurrent, Quiet
  <2>4. inline \subseteq Norms(cfg.inline) /\ records = cfg.records
    BY <1>1, <2>1, IdleCovered DEF AdminIInv, Persisted, Quiet
  <2>5. up' /\ cfg' = cfg /\ inline' = Norms(cfg.inline) /\ records' = cfg.records
    BY <2>1, <2>2, <2>3 DEF Restart, StartInline
  <2>6. filter'.mode = cfg.mode
    BY <2>2, <2>5 DEF Restart
  <2> QED
    BY <2>4, <2>5, <2>6
<1>2. AdminIInv /\ [AdminNext]_adminVars => [Keeps]_adminVars
  BY <1>1
<1> QED
  BY <1>2, AdminInvariant, PTL DEF AdminSpec, RestartKeepsRules
=============================================================================
