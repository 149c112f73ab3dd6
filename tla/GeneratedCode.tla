---------------------------- MODULE GeneratedCode ---------------------------
(***************************************************************************)
(* How the generated C files follow the metadata.  make selects a model, a *)
(* simulation and a test or production build; scripts/generate_properties  *)
(* and scripts/generate_module_registry each compare a hash of the         *)
(* metadata of the selection with the one they saved last, and write their *)
(* files one after another if it differs; scripts/check_generated compares *)
(* the hashes in the files.  All selections share the generated files.     *)
(*                                                                         *)
(* Metadata files may be edited while a command runs, a generator may be   *)
(* killed, may raise between two files, or may be unable to write one.     *)
(* The content of a file is the metadata it was made from and the hash     *)
(* written into it.                                                        *)
(***************************************************************************)
EXTENDS PropertySchema, ModuleMetadata, TLC

CONSTANTS Selections,        \* [model, sim, test] records make is called with
          Core,              \* the halo properties of the core
          CatalogOf,         \* CatalogOf[s]: catalog of simulation s
          GalaxyOf,          \* GalaxyOf[m]: galaxy properties of model m
          ParamsOf,          \* ParamsOf[m]: units of its parameters
          ModulesOf,         \* ModulesOf[m]: its modules
          TestProperties, TestModules,   \* added in a test build
          EditedModel, EditedSim,        \* the packages that may be edited
          PropertyEdits,     \* the properties an edit may add, by number
          ModuleEdits,       \* the modules an edit may add
          MaxCommands, MaxChanges, MaxFaults,  \* bounds on what is spent
          None

\* What a generator may have read: its model, its build, the edit it saw (0 if none).
PropertyInput == [model : DOMAIN ModulesOf, sim : DOMAIN CatalogOf, test : BOOLEAN,
                  edit : {0} \cup DOMAIN PropertyEdits]
ModuleInput   == [model : DOMAIN ModulesOf, test : BOOLEAN,
                  edit : {0} \cup DOMAIN ModuleEdits]
Readings      == PropertyInput \cup ModuleInput

ASSUME MetadataAssumption ==
    /\ Core \in Seq(Property) /\ TestProperties \in Seq(Property)
    /\ \A s \in DOMAIN CatalogOf : /\ CatalogOf[s] \in Seq(Property)
                                  /\ RolesArePlain(Range(CatalogOf[s]))
    /\ \A m \in DOMAIN GalaxyOf : GalaxyOf[m] \in Seq(Property)
    /\ \A n \in DOMAIN PropertyEdits :
          /\ PropertyEdits[n].property \in Property
          /\ PropertyEdits[n].category = "halo" => RolesArePlain({PropertyEdits[n].property})
    /\ DOMAIN ModulesOf \subseteq DOMAIN GalaxyOf

ASSUME GeneratedCodeAssumption ==
    /\ \A s \in Selections : /\ s.model \in DOMAIN GalaxyOf \cap DOMAIN ModulesOf
                             /\ s.model \in DOMAIN ParamsOf
                             /\ s.sim \in DOMAIN CatalogOf /\ s.test \in BOOLEAN
    /\ \A m \in DOMAIN ModulesOf : ModulesOf[m] \subseteq Module /\ IsFiniteSet(ModulesOf[m])
    /\ TestModules \subseteq Module /\ IsFiniteSet(TestModules)
    /\ ModuleEdits \in Seq(Module)
    /\ 0 \notin DOMAIN PropertyEdits
    /\ MaxCommands \in Nat /\ MaxChanges \in Nat /\ MaxFaults \in Nat
    /\ None \notin Readings
    /\ None \notin [from : Readings, hashed : Readings, state : {"whole", "empty", "cut"}]

Generators == {"properties", "modules"}
FilesOf(g) == IF g = "properties" THEN PropertyFiles ELSE ModuleFiles
Files      == Range(PropertyFiles) \cup Range(ModuleFiles)

VARIABLES yaml,     \* yaml[g]: the edit in the metadata of generator g, 0 if none
          cmd,      \* the command that runs, and its selection
          at,       \* where it is
          next,     \* the file of the generator it writes next
          from,     \* the metadata the generator has loaded
          want,     \* want[g]: the metadata hashed last by generator g
          file,     \* the generated files
          saved,    \* saved[g]: the metadata whose hash generator g has saved
          torn,     \* torn[g]: g began to write and has not written all since
          spent     \* commands, changes (edits, kills, errors), those of them
                    \* that hit a running command (faults)

makeVars == <<yaml, cmd, at, next, from, want, file, saved, torn, spent>>

Idle == [kind |-> "none", sel |-> None]
Ended == {"built", "broken", "refused", "raised", "passed", "failed"}

-----------------------------------------------------------------------------
(* The metadata of a selection.                                            *)

PropertyInputs(sel) ==
    LET n == yaml["properties"]
        seen == n # 0 /\ IF PropertyEdits[n].category = "halo" THEN sel.sim = EditedSim
                         ELSE sel.model = EditedModel
    IN  [model |-> sel.model, sim |-> sel.sim, test |-> sel.test,
         edit |-> IF seen THEN n ELSE 0]
ModuleInputs(sel) ==
    [model |-> sel.model, test |-> sel.test,
     edit |-> IF sel.model = EditedModel THEN yaml["modules"] ELSE 0]

Added(edit, category) ==
    IF edit # 0 /\ PropertyEdits[edit].category = category
    THEN <<PropertyEdits[edit].property>> ELSE << >>
Metadata(in) ==
    [core    |-> Core,
     catalog |-> CatalogOf[in.sim] \o Added(in.edit, "halo"),
     galaxy  |-> GalaxyOf[in.model] \o Added(in.edit, "galaxy")
                 \o (IF in.test THEN TestProperties ELSE << >>),
     params  |-> ParamsOf[in.model]]
ModulesAt(in) ==
    ModulesOf[in.model]
        \cup (IF in.edit = 0 THEN {} ELSE {ModuleEdits[in.edit]})
        \cup (IF in.test THEN TestModules ELSE {})
ValidProperties(sel) ==
    LET m == Metadata(PropertyInputs(sel))
        all == m.core \o m.catalog \o m.galaxy
    IN  {all[i].name : i \in DOMAIN all}

\* A hash that does not see that the test properties are added.
BlindToTests(in) == [in EXCEPT !.test = FALSE]
\* A check that does not look at the catalog of the simulation.
BlindToSimulation(in) == [in EXCEPT !.test = FALSE, !.sim = EditedSim]

\* The property hash is over the paths and texts of all files that are read; the
\* check computes it without the file of the test properties.
compute_yaml_hash(in) == in
compute_property_yaml_hash(in) == [in EXCEPT !.test = FALSE]
Hash(g, in) == IF g = "properties" THEN compute_yaml_hash(in)
               ELSE compute_metadata_hash(ModulesAt(in))
\* A hash is kept as the metadata it was computed from.
Matches(g, old, in) == old # None /\ Hash(g, old) = Hash(g, in)

-----------------------------------------------------------------------------

Nothing == [g \in Generators |-> None]
MakeInit ==
    /\ yaml = [g \in Generators |-> 0]
    /\ cmd = Idle /\ at = "idle" /\ next = 0 /\ from = None
    /\ want = Nothing
    /\ file = [f \in Files |-> None]
    /\ saved = Nothing
    /\ torn = [g \in Generators |-> FALSE]
    /\ spent = [commands |-> 0, changes |-> 0, faults |-> 0]

Stop == cmd' = Idle /\ at' = "idle" /\ next' = 0 /\ from' = None /\ want' = Nothing

\* make, which generates and compiles, and make check-generated.
Start(kind, sel) ==
    /\ at = "idle" /\ spent.commands < MaxCommands
    /\ cmd' = [kind |-> kind, sel |-> sel]
    /\ at' = IF kind = "check" THEN "check" ELSE "properties"
    /\ spent' = [spent EXCEPT !.commands = @ + 1]
    /\ UNCHANGED <<yaml, next, from, want, file, saved, torn>>

\* make clean takes the saved hashes and leaves the generated files.
Clean ==
    /\ at = "idle" /\ spent.commands < MaxCommands
    /\ saved # Nothing
    /\ saved' = Nothing
    /\ spent' = [spent EXCEPT !.commands = @ + 1]
    /\ UNCHANGED <<yaml, cmd, at, next, from, want, file, torn>>

\* An edit adds a property or a module to a package, or takes it back; while a
\* generator runs it matters only between two readings of the metadata.
Edit(g, edits) ==
    /\ at \in {"idle", "load", "modules", "hash"} /\ spent.changes < MaxChanges
    /\ IF at = "idle" THEN spent.commands < MaxCommands ELSE spent.faults < MaxFaults
    /\ \E e \in (IF yaml[g] = 0 THEN DOMAIN edits ELSE {0}) : yaml' = [yaml EXCEPT ![g] = e]
    /\ spent' = [spent EXCEPT !.changes = @ + 1,
                             !.faults = IF at = "idle" THEN @ ELSE @ + 1]
    /\ UNCHANGED <<cmd, at, next, from, want, file, saved, torn>>

\* The property generator hashes its inputs first, and is done if it knows them.
HashProperties ==
    LET in == PropertyInputs(cmd.sel)
    IN  /\ at = "properties"
        /\ want' = [want EXCEPT !["properties"] = in]
        /\ at' = IF Matches("properties", saved["properties"], in) THEN "modules" ELSE "load"
        /\ UNCHANGED <<yaml, cmd, next, from, file, saved, torn, spent>>

\* It loads and validates them after that.
LoadProperties ==
    LET in == PropertyInputs(cmd.sel)
    IN  /\ at = "load"
        /\ IF Accepted(Metadata(in))
           THEN at' = "write" /\ from' = in /\ next' = 1
           ELSE at' = "refused" /\ UNCHANGED <<from, next>>
        /\ UNCHANGED <<yaml, cmd, want, file, saved, torn, spent>>

Content(g, state) == [from |-> from, hashed |-> want[g], state |-> state]

\* A file is put together, opened and written; some metadata raises before that.
WriteProperties ==
    LET f == PropertyFiles[next]
    IN  /\ at = "write"
        /\ IF RaisesIn(Metadata(from), f)
           THEN /\ at' = "raised" /\ next' = 0 /\ from' = None
                /\ UNCHANGED <<file, torn>>
           ELSE /\ file' = [file EXCEPT ![f] =
                                Content("properties", "whole")]
                /\ torn' = [torn EXCEPT !["properties"] = TRUE]
                /\ at' = IF next = Len(PropertyFiles) THEN "save" ELSE "write"
                /\ next' = IF next = Len(PropertyFiles) THEN 0 ELSE next + 1
                /\ UNCHANGED from
        /\ UNCHANGED <<yaml, cmd, want, saved, spent>>

SaveProperties ==
    /\ at = "save"
    /\ saved' = [saved EXCEPT !["properties"] = want["properties"]]
    /\ torn' = [torn EXCEPT !["properties"] = FALSE]
    /\ at' = "modules" /\ from' = None
    /\ UNCHANGED <<yaml, cmd, next, want, file, spent>>

\* The module generator loads and validates first.
LoadModules ==
    LET in == ModuleInputs(cmd.sel)
    IN  /\ at = "modules"
        /\ IF AcceptedModules(ModulesAt(in), ValidProperties(cmd.sel))
           THEN at' = "hash" /\ from' = in
           ELSE at' = "refused" /\ UNCHANGED from
        /\ UNCHANGED <<yaml, cmd, next, want, file, saved, torn, spent>>

\* After that it hashes the texts that the modules it loaded have by then, if they
\* still have one; a module that has come since is not among them.
StillThere(in) ==
    IF /\ from.edit # 0 /\ in.edit # 0
       /\ SamePath(ModuleEdits[from.edit], ModuleEdits[in.edit])
    THEN in ELSE [in EXCEPT !.edit = 0]
HashModules ==
    LET in == StillThere(ModuleInputs(cmd.sel))
    IN  /\ at = "hash"
        /\ want' = [want EXCEPT !["modules"] = in]
        /\ IF Matches("modules", saved["modules"], in)
           THEN at' = "compile" /\ from' = None /\ UNCHANGED next
           ELSE at' = "write modules" /\ next' = 1 /\ UNCHANGED from
        /\ UNCHANGED <<yaml, cmd, file, saved, torn, spent>>

\* To the next module file, or behind the last one to the hash; well says that all
\* files so far could be written.
Onward(well) ==
    /\ at' = IF next < Len(ModuleFiles) THEN (IF well THEN "write modules" ELSE "go on")
             ELSE IF well THEN "save modules" ELSE "save anyway"
    /\ next' = IF next = Len(ModuleFiles) THEN 0 ELSE next + 1

WriteModules ==
    /\ at \in {"write modules", "go on"}
    /\ file' = [file EXCEPT ![ModuleFiles[next]] = Content("modules", "whole")]
    /\ torn' = [torn EXCEPT !["modules"] = TRUE]
    /\ Onward(at = "write modules")
    /\ UNCHANGED <<yaml, cmd, from, want, saved, spent>>

\* A file that cannot be written stays as it was, or empty, or cut off; the generator
\* says so and goes on.
MissModules ==
    /\ at \in {"write modules", "go on"} /\ spent.commands < MaxCommands
    /\ spent.changes < MaxChanges /\ spent.faults < MaxFaults
    /\ spent' = [spent EXCEPT !.changes = @ + 1, !.faults = @ + 1]
    /\ \/ UNCHANGED file
       \/ \E state \in {"empty", "cut"} :
             file' = [file EXCEPT ![ModuleFiles[next]] = Content("modules", state)]
    /\ torn' = [torn EXCEPT !["modules"] = TRUE]
    /\ Onward(FALSE)
    /\ UNCHANGED <<yaml, cmd, from, want, saved>>

\* The hash is saved also if a file could not be written; make stops then.
SaveModules ==
    /\ at \in {"save modules", "save anyway"}
    /\ saved' = [saved EXCEPT !["modules"] = want["modules"]]
    /\ torn' = [torn EXCEPT !["modules"] = at = "save anyway"]
    /\ at' = IF at = "save modules" THEN "compile" ELSE "raised"
    /\ from' = None
    /\ UNCHANGED <<yaml, cmd, next, want, file, spent>>

\* The metadata the files a compiler reads were made from.
PropertySources == [f \in Range(PropertyFiles) |-> Metadata(file[f].from)]
ModuleSource(f) == ModulesAt(file[f].from)
CompiledModules == ModuleInit(ModuleSource("module_init.c"))

\* make compiles the sources of the selection with the generated files as they
\* are, and links the modules that module_init.c registers.
Compiles ==
    /\ \A f \in Files : file[f] # None /\ file[f].state = "whole"
    /\ PropertiesCompile(PropertySources)
    /\ RegistryCompiles(ModuleSource("event_contracts.h"), ModuleSource("module_init.c"))
    /\ {s.name : s \in CompiledModules}
           \subseteq {m.name : m \in ModulesAt(ModuleInputs(cmd.sel))}
Compile ==
    /\ at = "compile"
    /\ at' = IF Compiles THEN "built" ELSE "broken"
    /\ UNCHANGED <<yaml, cmd, next, from, want, file, saved, torn, spent>>

\* make check-generated.  A file without a readable hash is only warned about,
\* one without the marker of its first line or JSON cut off fails.
CheckedFiles == Range(PropertyFiles) \cup {"event_contracts.h"}
HashMatches(f) ==
    IF f \in Range(PropertyFiles)
    THEN compute_yaml_hash(file[f].hashed)
             = compute_property_yaml_hash(PropertyInputs(cmd.sel))
    ELSE compute_metadata_hash(ModulesAt(file[f].hashed))
             = compute_module_metadata_hash(ModulesAt(ModuleInputs(cmd.sel)))
ChecksPass ==
    /\ ModulesAt(ModuleInputs(cmd.sel)) # {}
    /\ \A f \in CheckedFiles : file[f] # None /\ file[f].state # "empty"
    /\ file["property_ranges.json"].state = "whole"
    /\ \A f \in CheckedFiles : HashMatches(f)
Check ==
    /\ at = "check"
    /\ at' = IF ChecksPass THEN "passed" ELSE "failed"
    /\ UNCHANGED <<yaml, cmd, next, from, want, file, saved, torn, spent>>

\* A killed generator leaves the file it writes as it was, emptied, or cut off
\* behind its header; so does the property generator when it cannot write a file.
Writing == CASE at = "write" -> {PropertyFiles[next]}
             [] at \in {"write modules", "go on"} -> {ModuleFiles[next]}
             [] OTHER -> {}
Kill ==
    /\ at \notin Ended \cup {"idle", "check"} /\ spent.commands < MaxCommands
    /\ spent.changes < MaxChanges /\ spent.faults < MaxFaults
    /\ spent' = [spent EXCEPT !.changes = @ + 1, !.faults = @ + 1]
    /\ Stop
    /\ \/ UNCHANGED <<file, torn>>
       \/ \E f \in Writing : \E state \in {"empty", "cut"} :
            LET g == IF at = "write" THEN "properties" ELSE "modules"
            IN  /\ ~(at = "write" /\ RaisesIn(Metadata(from), f))
                /\ file' = [file EXCEPT ![f] = Content(g, state)]
                /\ torn' = [torn EXCEPT ![g] = TRUE]
    /\ UNCHANGED <<yaml, saved>>

Return ==
    /\ at \in Ended
    /\ Stop
    /\ UNCHANGED <<yaml, file, saved, torn, spent>>

MakeNext ==
    \/ \E sel \in Selections : \E kind \in {"build", "check"} : Start(kind, sel)
    \/ Clean \/ Edit("properties", PropertyEdits) \/ Edit("modules", ModuleEdits)
    \/ HashProperties \/ LoadProperties \/ WriteProperties \/ SaveProperties
    \/ LoadModules \/ HashModules \/ WriteModules \/ MissModules \/ SaveModules
    \/ Compile \/ Check \/ Kill \/ Return
MakeSpec == MakeInit /\ [][MakeNext]_makeVars

-----------------------------------------------------------------------------

\* An edit fell between the two readings of the generator: the hash in the file
\* is not that of the metadata it was made from.
Raced(g, f) == Hash(g, file[f].hashed) # Hash(g, file[f].from)

\* A file has the content the generator would give it for these inputs.  The
\* source list of an identical copy of the modules has other directories in it.
MadeFrom(f, in) ==
    IF f \in Range(PropertyFiles) THEN Metadata(file[f].from) = Metadata(in)
    ELSE CASE f = "event_contracts.h" ->
                  EventContracts(ModuleSource(f)) = EventContracts(ModulesAt(in))
           [] f = "module_init.c" -> ModuleInit(ModuleSource(f)) = ModuleInit(ModulesAt(in))
           [] f = "module_sources.txt" ->
                  {s[2] : s \in ModuleSources(ModuleSource(f))}
                      = {s[2] : s \in ModuleSources(ModulesAt(in))}

\* Whatever was selected, edited and built before, make builds with generated
\* files of the selection and its metadata, unless the last generation that began
\* was not finished (killed, raised between two files, or could not write one) or an
\* edit raced it.
BuildIsSelected ==
    at = "built" => \A g \in Generators :
        torn[g] \/ \A f \in Range(FilesOf(g)) : Raced(g, f) \/ MadeFrom(f, want[g])

\* In a build from finished generations the record on disk, the HDF5 table, the
\* schema and the manifest agree, every field of the record is assigned once, and
\* its values are in the unit the metadata declares.
RecordAgrees ==
    at = "built" /\ ~torn["properties"] =>
        /\ DescribesRecord(PropertySources)
        /\ AssignsRecord(PropertySources)
        /\ KeepsUnits(PropertySources)

\* In such a build the numbers in module_init.c and event_contracts.h connect every
\* registered consumer with exactly the events its metadata subscribes to.
HeardAsDeclared ==
    at = "built" /\ ~torn["modules"] =>
        HearsAsDeclared(ModuleSource("event_contracts.h"),
                        ModuleSource("module_init.c"), ModuleSource("module_init.c"))

\* If make check-generated passes, the files it looks at are those of the
\* production build of the selection and its module files those of the selection,
\* also after a torn generation; and for finished generations of the selection
\* and its metadata, in a production build with modules all of which are called in
\* their metadata what they are called on disk, it passes.
CheckIsHonest ==
    /\ at = "passed" =>
          /\ \A f \in Range(PropertyFiles) :
                \/ Raced("properties", f)
                \/ MadeFrom(f, [PropertyInputs(cmd.sel) EXCEPT !.test = FALSE])
          /\ \/ Raced("modules", "event_contracts.h")
             \/ MadeFrom("event_contracts.h", ModuleInputs(cmd.sel))
    /\ at = "failed" =>
          \/ cmd.sel.test \/ ModulesAt(ModuleInputs(cmd.sel)) = {}
          \/ ~NamedAsOnDisk(ModulesAt(ModuleInputs(cmd.sel)))
          \/ \E g \in Generators : torn[g]
          \/ ~Matches("properties", saved["properties"], PropertyInputs(cmd.sel))
          \/ ~Matches("modules", saved["modules"], ModuleInputs(cmd.sel))

\* Not true, and in no run: a generator that raises behind its first file leaves
\* new files under the old hash.  After a build of one model, a failed one of
\* another whose metadata is bad, the next build of the first finds its own hash
\* and compiles with the schema of the other.  "Run the smart property generator
\* once per make invocation so MODEL switches cannot reuse a stale generated
\* schema." (Makefile:415)
NeverStale ==
    at = "built" /\ spent.faults = 0 =>
        \A f \in Range(PropertyFiles) : MadeFrom(f, want["properties"])
=============================================================================
