------------------------------- MODULE Admin -------------------------------
(***************************************************************************)
(* The administrator's side of kmresolv: the filter (internal/filter), the *)
(* custom records, the configuration in memory and in its file             *)
(* (internal/config), and the operations of Server that change them        *)
(* (internal/server/server.go), each called on a goroutine of its own by   *)
(* the dashboard's HTTP handlers.  SIGHUP and a ticker reload the filter.  *)
(*                                                                         *)
(* The filter has a mutex for writers and an atomic pointer for readers.   *)
(* The configuration has neither: handlers edit its slices in place, and   *)
(* Save marshals it and rewrites the file.  A slice is modelled by the set *)
(* of its elements; where two goroutines work on the same slice at once,   *)
(* what comes out is any set of elements that were there (RacyEdit, Seen). *)
(* A spelling of a domain is its name, which filter.go lowers and trims,   *)
(* and whether there is white space around it, which strings.EqualFold     *)
(* does not ignore.                                                        *)
(***************************************************************************)
EXTENDS Integers, Sequences

CONSTANTS
    Handlers,      \* goroutines of the dashboard's HTTP server
    Reloaders,     \* reloads that may run at once: of the signal loop, the ticker
    Spellings,     \* domains as the administrator writes them
    ListDomains,   \* what the configured lists hold
    QueryNames,    \* names that are asked for, as sequences of labels
    Records,       \* custom records: key (name and type) and value
    FirstFiles,    \* what the administrator may have written, or Absent
    MaxOps,        \* bound: operations of the administrator
    MaxStarts,     \* bound: starts of the process
    Absent, Empty, Garbled  \* a file that is not there, truncated, unreadable

ASSUME AdminConstants ==
    /\ \A s \in Spellings : s.padded \in BOOLEAN
    /\ MaxOps \in Nat
    /\ MaxStarts \in Nat \ {0}

Modes == {"off", "blacklist", "whitelist"}

Norms(S) == {s.name : s \in S}

Domains == Norms(Spellings) \cup ListDomains

\* The ticker runs if reload_interval_hours > 0.
Config ==
    [mode : Modes, inline : SUBSET Spellings, lists : BOOLEAN, ticks : BOOLEAN,
     records : SUBSET Records]

ASSUME Files ==
    /\ Config \cap {Absent, Empty, Garbled} = {}
    /\ Garbled \notin {Absent, Empty}
    /\ FirstFiles \subseteq Config \cup {Absent}

\* defaults: also what an empty file loads as.
Defaults ==
    [mode |-> "off", inline |-> {}, lists |-> FALSE, ticks |-> FALSE, records |-> {}]

VARIABLES
    up,        \* the process runs (LoadConfig did not fail)
    cfg,       \* Server.cfg
    path,      \* cfg.path is set
    file,      \* the configuration file
    filter,    \* Filter.state: the domains and the mode
    inline,    \* Filter.inline
    records,   \* Server.records
    handler,   \* where each HTTP handler is
    reloader,  \* where each reload is
    ops,       \* operations so far
    starts,    \* starts so far
    raced,     \* ghost: two handlers have overlapped since the start
    saved      \* ghost: the last Save went well

memory == <<cfg, filter, inline, records>>
process == <<up, path, starts>>
adminVars == <<up, cfg, path, file, filter, inline, records, handler, reloader,
          ops, starts, raced, saved>>

-----------------------------------------------------------------------------
(* The filter *)

\* Filter.Blocked: the name, then what follows each of its dots.
Blocked(st, name) ==
    /\ st.mode # "off"
    /\ IF \E i \in 1..Len(name) : SubSeq(name, i, Len(name)) \in st.domains
       THEN st.mode = "blacklist"
       ELSE st.mode = "whitelist"

\* NewFilter's inline set.
StartInline(c) == IF c.mode = "off" THEN {} ELSE Norms(c.inline)

\* Mutant of FromLists: a reload starts from the inline domains as well.
FromListsAndInline(c) ==
    {inline \cup IF c.mode # "off" /\ c.lists THEN ListDomains ELSE {}}

\* What loading the lists yields: a list may be out of reach.
FromLists(c) == IF c.mode # "off" /\ c.lists THEN {ListDomains, {}} ELSE {{}}

\* Filter.Add and Filter.Remove: the critical sections.
FilterAdd(d) ==
    /\ filter' = [filter EXCEPT !.domains = @ \cup {d}]
    /\ inline' = inline \cup {d}

FilterRemove(d) ==
    /\ filter' = [filter EXCEPT !.domains = @ \ {d}]
    /\ inline' = inline \ {d}

-----------------------------------------------------------------------------
(* The operations of Server *)

Idle == [pc |-> "idle"]

\* Ghost part of every operation: does it overlap another one?
Begin(h, next) ==
    /\ up
    /\ handler[h] = Idle
    /\ ops < MaxOps
    /\ ops' = ops + 1
    /\ handler' = [handler EXCEPT ![h] = next]
    /\ raced' = (raced \/ \E g \in Handlers \ {h} : handler[g] # Idle)
    /\ UNCHANGED <<process, file, reloader, saved>>

\* AddBlock: filter.Add
AddBlock(h, s) ==
    /\ Begin(h, [pc |-> "inline", add |-> {s}, remove |-> {}])
    /\ FilterAdd(s.name)
    /\ UNCHANGED <<cfg, records>>

\* RemoveBlock: filter.Remove; a domain of a list goes, too, until a reload.
RemoveBlock(h, s) ==
    /\ Begin(h, [pc |-> "inline", add |-> {}, remove |-> {s}])
    /\ FilterRemove(s.name)
    /\ UNCHANGED <<cfg, records>>

\* SetFilterMode: s.cfg.Filtering.Mode = mode
SetFilterMode(h, m) ==
    /\ Begin(h, [pc |-> "mode", mode |-> m])
    /\ cfg' = [cfg EXCEPT !.mode = m]
    /\ UNCHANGED <<filter, inline, records>>

\* AddRecord, of a record that ValidateRecord accepts.
AddRecord(h, r) ==
    /\ Begin(h, [pc |-> "records", add |-> {r}, remove |-> {}])
    /\ UNCHANGED memory

\* RemoveRecord: all records of a name and type.
RemoveRecord(h, key) ==
    /\ Begin(h, [pc |-> "records", add |-> {}, remove |-> {r \in Records : r.key = key}])
    /\ UNCHANGED memory

\* UpdateSettings: four flags that nothing here depends on, and Save.
UpdateSettings(h) ==
    /\ Begin(h, [pc |-> "save"])
    /\ UNCHANGED memory

\* Another handler is about to edit this slice of the configuration.
Contended(h, slice) == \E g \in Handlers \ {h} : handler[g].pc = slice

\* What the slice may hold after this handler has edited it.
RacyEdit(h, slice, S) ==
    IF Contended(h, slice) THEN SUBSET (S \cup handler[h].add)
    ELSE {(S \ handler[h].remove) \cup handler[h].add}

\* What a goroutine that walks over the slice may see.
Seen(h, slice, S) == IF Contended(h, slice) THEN SUBSET S ELSE {S}

Step(h, pc, next) ==
    /\ handler[h].pc = pc
    /\ handler' = [handler EXCEPT ![h] = next]
    /\ UNCHANGED <<process, reloader, ops, raced>>

\* AddBlock: append; RemoveBlock: the loop over cfg.Filtering.Inline[:0].
EditInline(h) ==
    /\ Step(h, "inline", [pc |-> "save"])
    /\ \E S \in RacyEdit(h, "inline", cfg.inline) : cfg' = [cfg EXCEPT !.inline = S]
    /\ UNCHANGED <<file, filter, inline, records, saved>>

\* Mutant of ApplyMode: the mode is not saved.
ApplyModeUnsaved(h) ==
    /\ Step(h, "mode", Idle)
    /\ filter' = [filter EXCEPT !.mode = handler[h].mode]
    /\ UNCHANGED <<file, cfg, inline, records, saved>>

\* SetFilterMode: s.filter.SetMode(mode)
ApplyMode(h) ==
    /\ Step(h, "mode", [pc |-> "save"])
    /\ filter' = [filter EXCEPT !.mode = handler[h].mode]
    /\ UNCHANGED <<file, cfg, inline, records, saved>>

\* AddRecord, RemoveRecord: the change of cfg.Records.
EditRecords(h) ==
    /\ Step(h, "records", [pc |-> "rebuild"])
    /\ \E S \in RacyEdit(h, "records", cfg.records) : cfg' = [cfg EXCEPT !.records = S]
    /\ UNCHANGED <<file, filter, inline, records, saved>>

\* s.records = records.NewRecordStore(s.cfg)
RebuildRecords(h) ==
    /\ Step(h, "rebuild", [pc |-> "save"])
    /\ records' \in Seen(h, "records", cfg.records)
    /\ UNCHANGED <<file, cfg, filter, inline, saved>>

-----------------------------------------------------------------------------
(* Config.Save *)

\* Save fails at once for a configuration that did not come from a file.
SaveNoPath(h) ==
    /\ ~path
    /\ Step(h, "save", Idle)
    /\ saved' = FALSE
    /\ UNCHANGED <<file, memory>>

\* yaml.Marshal
Marshal(h) ==
    /\ path
    /\ \E S \in Seen(h, "inline", cfg.inline), T \in Seen(h, "records", cfg.records) :
          Step(h, "save", [pc |-> "truncate",
                           data |-> [cfg EXCEPT !.inline = S, !.records = T]])
    /\ UNCHANGED <<file, memory, saved>>

\* os.WriteFile opens the file with O_TRUNC ...
Truncate(h) ==
    /\ Step(h, "truncate", [pc |-> "write", data |-> handler[h].data])
    /\ file' = Empty
    /\ UNCHANGED <<memory, saved>>

\* ... and writes it.  If the file is not empty by now, another handler has
\* written it since, and what was longer stays behind the new data.
Write(h) ==
    /\ Step(h, "write", Idle)
    /\ file' \in IF file = Empty THEN {handler[h].data} ELSE {handler[h].data, Garbled}
    /\ saved' = TRUE
    /\ UNCHANGED memory

\* The disk is full: nothing is written, or not all of it.
WriteFails(h) ==
    /\ Step(h, "write", Idle)
    /\ file' \in {file, Garbled}
    /\ saved' = FALSE
    /\ UNCHANGED memory

-----------------------------------------------------------------------------
(* Reloading, starting *)

\* Filter.Reload up to the mutex: the mode, then the lists.
ReloadRead(r) ==
    /\ up
    /\ reloader[r] = Idle
    /\ \E S \in FromLists(cfg) :
          reloader' = [reloader EXCEPT ![r] =
              [pc |-> "loaded", mode |-> cfg.mode, loaded |-> S]]
    /\ UNCHANGED <<process, file, memory, handler, ops, raced, saved>>

\* Mutant of Reloaded: the inline domains are left out.
ReloadedListsOnly(r) == [domains |-> reloader[r].loaded, mode |-> reloader[r].mode]

\* Mutant of Reloaded: the mode in force is kept.
ReloadedOldMode(r) == [domains |-> reloader[r].loaded \cup inline, mode |-> filter.mode]

Reloaded(r) == [domains |-> reloader[r].loaded \cup inline, mode |-> reloader[r].mode]

\* The critical section of Filter.Reload.
ReloadCommit(r) ==
    /\ reloader[r].pc = "loaded"
    /\ filter' = Reloaded(r)
    /\ reloader' = [reloader EXCEPT ![r] = Idle]
    /\ UNCHANGED <<process, file, cfg, inline, records, handler, ops, raced, saved>>

\* LoadConfig: what a file loads as.
Loaded(f) == IF f \in Config THEN f ELSE Defaults

\* cmdServe after a crash, or a restart by the administrator, at any moment:
\* LoadConfig, NewFilter, NewRecordStore.
Restart ==
    /\ starts < MaxStarts
    /\ starts' = starts + 1
    /\ up' = (file # Garbled)
    /\ path' = (file # Absent)
    /\ cfg' = Loaded(file)
    /\ inline' = StartInline(cfg')
    /\ \E S \in FromLists(cfg') :
          filter' = [domains |-> S \cup inline', mode |-> cfg'.mode]
    /\ records' = cfg'.records
    /\ handler' = [h \in Handlers |-> Idle]
    /\ reloader' = [r \in Reloaders |-> Idle]
    /\ raced' = FALSE
    /\ saved' = TRUE
    /\ UNCHANGED <<file, ops>>

\* The first start.
AdminInit ==
    /\ file \in FirstFiles
    /\ up = TRUE
    /\ path = (file # Absent)
    /\ cfg = Loaded(file)
    /\ inline = StartInline(cfg)
    /\ filter \in {[domains |-> S \cup inline, mode |-> cfg.mode] : S \in FromLists(cfg)}
    /\ records = cfg.records
    /\ handler = [h \in Handlers |-> Idle]
    /\ reloader = [r \in Reloaders |-> Idle]
    /\ ops = 0
    /\ starts = 1
    /\ raced = FALSE
    /\ saved = TRUE

Operation(h) ==
    \/ \E s \in Spellings : AddBlock(h, s) \/ RemoveBlock(h, s)
    \/ \E m \in Modes : SetFilterMode(h, m)
    \/ \E r \in Records : AddRecord(h, r) \/ RemoveRecord(h, r.key)
    \/ UpdateSettings(h)

Proceed(h) ==
    \/ EditInline(h) \/ ApplyMode(h) \/ EditRecords(h) \/ RebuildRecords(h)
    \/ SaveNoPath(h) \/ Marshal(h) \/ Truncate(h) \/ Write(h) \/ WriteFails(h)

AdminNext ==
    \/ \E h \in Handlers : Operation(h) \/ Proceed(h)
    \/ \E r \in Reloaders : ReloadRead(r) \/ ReloadCommit(r)
    \/ Restart

AdminSpec == AdminInit /\ [][AdminNext]_adminVars

\* A handler that has begun goes on; the ticker, if there is one, fires again
\* and again; and a reload that has begun ends.
AdminFairness ==
    /\ \A h \in Handlers : WF_adminVars(Proceed(h))
    /\ WF_adminVars(cfg.ticks /\ \E r \in Reloaders : ReloadRead(r))
    /\ \A r \in Reloaders : WF_adminVars(ReloadCommit(r))

AdminFairSpec == AdminSpec /\ AdminFairness

-----------------------------------------------------------------------------
(* Properties *)

HandlerStates ==
    {Idle}
    \cup [pc : {"inline"}, add : SUBSET Spellings, remove : SUBSET Spellings]
    \cup [pc : {"records"}, add : SUBSET Records, remove : SUBSET Records]
    \cup [pc : {"mode"}, mode : Modes]
    \cup [pc : {"rebuild", "save"}]
    \cup [pc : {"truncate", "write"}, data : Config]

\* Type correctness.
AdminTypeOK ==
    /\ up \in BOOLEAN /\ path \in BOOLEAN /\ raced \in BOOLEAN /\ saved \in BOOLEAN
    /\ cfg \in Config
    /\ file \in Config \cup {Absent, Empty, Garbled}
    /\ filter \in [domains : SUBSET Domains, mode : Modes]
    /\ inline \in SUBSET Norms(Spellings)
    /\ records \in SUBSET Records
    /\ handler \in [Handlers -> HandlerStates]
    /\ reloader \in [Reloaders ->
           {Idle} \cup [pc : {"loaded"}, mode : Modes, loaded : SUBSET Domains]]
    /\ ops \in 0..MaxOps
    /\ starts \in 1..MaxStarts

\* A domain of the administrator decides about every name at or below it,
\* whatever reloads and other changes run at the same time: Reload builds a
\* new map, and must not drop what was added while it loaded the lists
\* (filter.go:71-80, 115-138).
RulesInForce ==
    filter.mode # "off" =>
        \A name \in QueryNames :
            (\E i \in 1..Len(name) : SubSeq(name, i, Len(name)) \in inline)
            => (Blocked(filter, name) <=> filter.mode = "blacklist")

\* A domain that the administrator has removed, and that is on no list, comes
\* back only when the administrator adds it: not by a reload that began before
\* the removal and ends after it (filter.go:82-91, 127-136).
RemovedStaysRemoved ==
    [][\A d \in Domains \ ListDomains :
          d \notin filter.domains /\ d \in filter'.domains
          => starts' # starts \/ (ops' # ops /\ d \in inline')]_adminVars

\* Nothing is going on, no two operations have overlapped since the start, and
\* the last one could be saved.
Quiet ==
    /\ up
    /\ \A h \in Handlers : handler[h] = Idle
    /\ ~raced
    /\ saved

\* After a restart at a quiet moment, the process runs with the administrator's
\* mode, with every domain that was in force and with the same records: each
\* operation has left memory and file alike (server.go:358-409,
\* config.go:262-271).
RestartKeepsRules ==
    [][starts' # starts /\ Quiet /\ cfg.mode # "off"
       => /\ up'
          /\ filter'.mode = cfg.mode
          /\ inline \subseteq inline'
          /\ records' = records]_adminVars

\* Once the administrator has stopped, the filter of a process with a ticker
\* comes to work in the mode that the configuration names and the dashboard
\* shows, although a reload or another handler may have put an older mode back
\* (server.go:162-164, 376-380, filter.go:115-136).  With the interval 0 of
\* config.yml:159 nothing puts it right.
ModeConverges == <>[](up /\ cfg.ticks => filter.mode = cfg.mode)

-----------------------------------------------------------------------------
(* The inductive invariant *)

\* An inline domain is in the map as well.
InlineInMap == inline \subseteq filter.domains

\* A reload under way holds domains of lists only.
LoadedFromLists ==
    \A r \in Reloaders : reloader[r].pc = "loaded" => reloader[r].loaded \subseteq ListDomains

\* While no operations have overlapped, one runs at a time ...
OneAtATime ==
    ~raced => \A g, h \in Handlers : g # h => handler[g] = Idle \/ handler[h] = Idle

\* ... what is being saved is the configuration ...
DataCurrent ==
    ~raced => \A h \in Handlers :
        handler[h].pc \in {"truncate", "write"} => handler[h].data = cfg

\* ... into a file that it alone writes ...
FileCurrent ==
    up /\ ~raced =>
        /\ \A h \in Handlers : handler[h].pc = "write" => file = Empty
        /\ saved /\ (\A h \in Handlers : handler[h] = Idle)
           => Loaded(file) = cfg /\ file # Garbled

\* ... and what is in force is in the configuration, or about to be.
InlineCovered ==
    ~raced =>
        /\ \A d \in inline :
              \/ d \in Norms(cfg.inline)
              \/ \E h \in Handlers : handler[h].pc = "inline" /\ d \in Norms(handler[h].add)
        /\ \A h \in Handlers : handler[h].pc = "inline" =>
              Norms(handler[h].remove) \cap inline = {}

RecordsCovered ==
    ~raced => records = cfg.records \/ \E h \in Handlers : handler[h].pc = "rebuild"

AdminIInv ==
    /\ AdminTypeOK
    /\ InlineInMap
    /\ LoadedFromLists
    /\ OneAtATime
    /\ DataCurrent
    /\ FileCurrent
    /\ InlineCovered
    /\ RecordsCovered
=============================================================================
