--------------------------- MODULE ModuleMetadata ---------------------------
(***************************************************************************)
(* What scripts/generate_module_registry.py makes of the physics modules   *)
(* of a selection: which metadata it refuses, the numbers it gives to      *)
(* producers and events, and the three files it writes.  A module is       *)
(*   [name, dir, stem, pattern, utility, modes, emits, consumes, props,    *)
(*    sources, exist];                                                     *)
(* stem is what it is called on disk, its directory's name or that of its  *)
(* only file, and dir is where that is; emits is a sequence of event names,*)
(* consumes one of <<producer, event>> pairs, exist says that all its      *)
(* source files do.                                                        *)
(* Modules are a set: the order of discovery is that of registration and   *)
(* of the lines of module_sources.txt, and nothing depends on either.      *)
(***************************************************************************)
EXTENDS Naturals, Sequences, SequencesExt, FiniteSetsExt

CONSTANT ModuleNames      \* the names of modules and of their directories, sorted

VALID_PROCESSING_MODES ==
    {"process_full_halo", "process_per_event", "process_by_galaxy"}
AllModes == <<"process_full_halo", "process_per_event", "process_by_galaxy">>

NoRepeats(s) == \A i, j \in DOMAIN s : s[i] = s[j] => i = j
Numbered(s, x) == CHOOSE i \in DOMAIN s : s[i] = x

ASSUME NamesAssumption == ModuleNames \in Seq(STRING) /\ NoRepeats(ModuleNames)

\* The place of a name among names in alphabetical order, from 1.
Place(names, n) ==
    Cardinality({k \in 1 .. Numbered(ModuleNames, n) : ModuleNames[k] \in names})

\* Module metadata as it is read.
Module == [name : Range(ModuleNames), dir : STRING, stem : Range(ModuleNames),
           pattern : {"directory", "standalone"}, utility : BOOLEAN, modes : Seq(STRING),
           emits : Seq(STRING), consumes : Seq(STRING \X STRING), props : SUBSET STRING,
           sources : Seq(STRING), exist : BOOLEAN]

\* A source file without metadata is a module with all modes and no events.
Standalone(name, dir) ==
    [name |-> name, dir |-> dir, stem |-> name, pattern |-> "standalone",
     utility |-> FALSE, modes |-> AllModes, emits |-> << >>, consumes |-> << >>,
     props |-> {}, sources |-> <<name>>, exist |-> TRUE]

SamePath(m, n) == m.dir = n.dir /\ m.stem = n.stem /\ m.pattern = n.pattern

\* A utility compiles nothing of its own name.
SourcesOf(module) ==
    IF module.utility THEN module.sources
    ELSE IF module.pattern = "standalone" THEN module.sources
    ELSE <<module.name>> \o module.sources

Runtime(modules) == {m \in modules : ~m.utility}
Named(modules, n) == CHOOSE m \in modules : m.name = n

Producers(modules) == {m.name : m \in {x \in modules : x.emits # << >>}}

-----------------------------------------------------------------------------
(* Validation, in the order main() does it.                                *)

UniqueNames(modules) == \A m, n \in modules : m.name = n.name => m = n
ValidModes(modules) ==
    \A m \in modules : ~m.utility =>
        /\ m.modes # << >>
        /\ Range(m.modes) \subseteq VALID_PROCESSING_MODES
        /\ NoRepeats(m.modes)
FilesExist(modules) == \A m \in modules : SourcesOf(m) # << >> => m.exist
\* With no property metadata to compare with, the test is left out.
KnownProperties(modules, properties) ==
    properties # {} => \A m \in modules : m.props \subseteq properties

ValidEvents(modules) ==
    /\ \A m \in modules : m.emits # << >> =>
           "process_full_halo" \in Range(m.modes) /\ NoRepeats(m.emits)
    /\ \A m \in modules : m.consumes # << >> =>
           /\ "process_per_event" \in Range(m.modes)
           /\ NoRepeats(m.consumes)
           /\ \A pair \in Range(m.consumes) :
                 /\ pair[1] \in Producers(modules)
                 /\ pair[2] \in Range(Named(modules, pair[1]).emits)

AcceptedModules(modules, properties) ==
    /\ UniqueNames(modules) /\ ValidModes(modules) /\ FilesExist(modules)
    /\ KnownProperties(modules, properties)
    /\ ValidEvents(modules)

-----------------------------------------------------------------------------
(* The generated files.                                                    *)

ModuleFiles == <<"event_contracts.h", "module_init.c", "module_sources.txt">>

\* Producers are numbered from 1 in the order of their names.
ProducerIds(modules) ==
    [n \in Producers(modules) |-> Place(Producers(modules), n)]

\* Ids in the order of the names, utilities not counted.
RegisteredIds(modules) ==
    LET names == Producers(Runtime(modules))
    IN  [n \in Producers(modules) |-> IF n \in names THEN Place(names, n) ELSE 0]

\* event_contracts.h: macros for the producers, enums for their events.
Emitted(modules) == UNION {{<<m.name, e>> : e \in Range(m.emits)} : m \in modules}
EventIds(modules) ==
    [pair \in Emitted(modules) |-> Numbered(Named(modules, pair[1]).emits, pair[2])]
EventContracts(modules) == [ids |-> ProducerIds(modules), events |-> EventIds(modules)]

\* module_init.c with ids that do not count the utilities.
StructByPlace(modules, m) ==
    [name |-> m.name, modes |-> m.modes,
     module_id |-> IF m.name \in Producers(modules)
                   THEN RegisteredIds(modules)[m.name] ELSE 0,
     subscriptions |-> m.consumes,
     emitted |-> [i \in DOMAIN m.emits |-> <<m.name, m.emits[i]>>]]

\* module_init.c: one struct per runtime module.  The module id is a number;
\* subscriptions and emitted events are the names of macros and constants of
\* event_contracts.h.
ModuleStruct(modules, m) ==
    [name |-> m.name, modes |-> m.modes,
     module_id |-> IF m.name \in Producers(modules)
                   THEN ProducerIds(modules)[m.name] ELSE 0,
     subscriptions |-> m.consumes,
     emitted |-> [i \in DOMAIN m.emits |-> <<m.name, m.emits[i]>>]]
ModuleInit(modules) == {ModuleStruct(modules, m) : m \in Runtime(modules)}

\* module_sources.txt: what the unit tests compile, by directory.
ModuleSources(modules) ==
    UNION {{<<m.dir, s>> : s \in Range(SourcesOf(m))} : m \in Runtime(modules)}

-----------------------------------------------------------------------------
(* The hashes.  Texts of metadata are hashed one behind the other, so a    *)
(* hash tells which texts there are, how often, and which before which.    *)

\* Only a standalone module is hashed with its path.
ModuleText(m) ==
    IF m.pattern = "directory" THEN [m EXCEPT !.dir = "-", !.stem = "-", !.exist = TRUE]
    ELSE m
Texts(modules) ==
    [text \in {ModuleText(m) : m \in modules} |->
        Cardinality({m \in modules : ModuleText(m) = text})]
Hashed(modules, order) ==
    [texts |-> Texts(modules),
     order |-> {<<ModuleText(p[1]), ModuleText(p[2])>> : p \in order}]

Sooner(a, b) == Numbered(ModuleNames, a) < Numbered(ModuleNames, b)
ByName(modules) == {p \in modules \X modules : Sooner(p[1].name, p[2].name)}
\* Where stems are equal, as they are not where NamedAsOnDisk holds, the code
\* keeps the order of discovery, and this leaves it open.
ByStem(modules) == {p \in modules \X modules : Sooner(p[1].stem, p[2].stem)}

\* The generator sorts by the name in the metadata, the check by that on disk.
compute_metadata_hash(modules) == Hashed(modules, ByName(modules))

\* A mistake: the check takes the modules as they are discovered, directories first.
HashAsDiscovered(modules) ==
    Hashed(modules, {p \in modules \X modules :
        \/ p[1].pattern = "directory" /\ p[2].pattern = "standalone"
        \/ p[1].pattern = p[2].pattern /\ Sooner(p[1].stem, p[2].stem)})
compute_module_metadata_hash(modules) == Hashed(modules, ByStem(modules))

\* What scripts/validate_modules.py asks for, and neither of the two does.
NamedAsOnDisk(modules) == \A m \in modules : m.stem = m.name

-----------------------------------------------------------------------------
(* What the compiled registry does with them.  contracts and init are the  *)
(* modules the two files were made from.                                   *)

\* module_init.c names only macros and constants that event_contracts.h has.
RegistryCompiles(contracts, init) ==
    \A struct \in ModuleInit(init) :
        Range(struct.subscriptions \o struct.emitted)
            \subseteq DOMAIN EventContracts(contracts).events

\* The events of registered producers that a subscription hears.
HeardFrom(contracts, init, pair) ==
    LET table == EventContracts(contracts)
    IN  {event \in DOMAIN table.events : \E struct \in ModuleInit(init) :
            /\ struct.module_id = table.ids[pair[1]]
            /\ event[1] = struct.name /\ event \in Range(struct.emitted)
            /\ table.events[event] = table.events[pair]}

\* Consumers hear exactly the events their metadata names; those of a utility,
\* which may declare events and is never registered, are not heard at all.
HearsAsDeclared(contracts, init, modules) ==
    /\ {<<s.name, s.subscriptions>> : s \in ModuleInit(init)}
           = {<<m.name, m.consumes>> : m \in Runtime(modules)}
    /\ \A m \in Runtime(modules) : \A pair \in Range(m.consumes) :
          HeardFrom(contracts, init, pair) =
              IF Named(modules, pair[1]).utility THEN {} ELSE {pair}
=============================================================================
