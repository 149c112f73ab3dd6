----------------------- MODULE ConvertPipelineProofs ------------------------
(***************************************************************************)
(* Theorems about the converter's work directory, for every number of      *)
(* sources, snapshots, workers, kills and edits.                           *)
(***************************************************************************)
EXTENDS ConvertPipeline, NumberFacts

ScatterLoop == {"concat", "concat_parts", "save_concat", "cleanup"}
SortLoop    == {"sort", "save_sort", "unsorted"}
FixSteps    == {"bind", "tables", "fix", "save_fix"}
LinkLoop    == {"link", "save_link"}
EmitLoop    == {"emit", "record_output"}
WriteSteps  == EmitLoop \cup {"sidecar", "save_write"}
SaveSteps   == {"save_concat", "save_sort", "save_fix", "save_link"}
\* Steps with a snapshot in hand.
Looping     == ScatterLoop \cup SortLoop \cup FixSteps \cup {"identity"} \cup LinkLoop
               \cup EmitLoop
StepNames   == Looping \cup WriteSteps \cup {"idle", "pool", "done"}
Commands    == {"none", "scatter", "sort", "fixups", "links", "write"}

-----------------------------------------------------------------------------
(* What a manifest may say.  The manifest on disk and the one in memory are *)
(* both of this kind at all times.                                          *)

Genuine == SUBSET (Inputs \X Versions \X Snaps)

VersionOf(m, i) == IF i \in Sources THEN m.done[i] ELSE m.bound[i]

\* One version of each input, the one that the manifest has.
OneVersion(m, c) == c \in Genuine /\ \A r \in c : r[2] = VersionOf(m, r[1])

Placed(c) == \A r \in c : r[1] \in Sources => r[3] \in RowsAt[r[1]]

AllRows(m, s) == {<<f, m.done[f], s>> : f \in PartsOf(s)}

ScatteredFrom(m, f, s) ==
    {<<f, m.done[f], s>>, <<"forests_list", m.bound["forests_list"], 0>>}

\* An intermediate x with the content c.
ContentOK(m, x, c) ==
    /\ OneVersion(m, c)
    /\ x \in PerWorker \cup PerSource => c = ScatteredFrom(m, x[3], x[2])
    /\ x \in PerWorker => x[2] \in RowsAt[x[3]]
    /\ x \notin PerSource \cup {Of("forest_max", 0)} => Placed(c)
    /\ x[1] \in {"snap", "sorted", "fixed"} =>
          {r \in c : r[1] \in Sources} = AllRows(m, x[2])

\* An emitted file x with the content c.
OutputOK(m, x, c) ==
    /\ OneVersion(m, c)
    /\ Placed(c)
    /\ EveryGapShows /\ x[1] = "h5" /\ x[2] \in Populated => AllRows(m, x[2]) \subseteq c

OwnedOK(m) ==
    \A x \in Files : m.owned[x] \notin {NotOwned, Removed} => ContentOK(m, x, m.owned[x])

OutputsOK(m) ==
    \A x \in Files : m.output[x] # NotOwned => OutputOK(m, x, m.output[x])

\* The snapshots of the manifest are the first of the populated ones.
EnteredOK(m) ==
    \A s \in Entered(m) : s \in Populated /\ \A t \in Populated : t < s => t \in Entered(m)

\* What the links stage checks before it links a snapshot.
JoinedOK(m) ==
    \A s \in Joined : m.status[s] = "linked" => s + 1 \in Entered(m)

ForestsOK(m) ==
    Entered(m) # {} /\ (\A s \in Entered(m) : m.status[s] = "linked") =>
        UNION {ForestsAt[s] : s \in Entered(m)} = Forests

DoneOK(m) == Entered(m) # {} => \A f \in Sources : m.done[f] # 0

Sound(m) == /\ OwnedOK(m) /\ OutputsOK(m) /\ EnteredOK(m)
            /\ JoinedOK(m) /\ ForestsOK(m) /\ DoneOK(m)

\* Before the first snapshot, nothing but the scattered files.
NothingYet(m) ==
    Entered(m) = {} =>
        /\ \A x \in Files \ (PerWorker \cup PerSource) : m.owned[x] = NotOwned
        /\ \A x \in Files : m.output[x] = NotOwned

\* A resumed run with the manifest m needs x for the snapshot s; w are the
\* versions of the inputs.
Relies(m, w, s, x) ==
    \/ m.status[s] = "none" /\ \E f \in PartsOf(s) : m.done[f] = w[f] /\ x = Worker(s, f)
    \/ m.status[s] = "concatenated" /\ x = Of("snap", s)
    \/ m.status[s] \in {"sorted", "fixed"} /\ x = Of("sorted", s)
    \/ m.status[s] \in {"sorted", "fixed", "linked"} /\ x = Of("idx", s)
    \/ m.status[s] \in {"fixed", "linked"} /\ x = Of("fixed", s)
    \/ m.status[s] = "linked" /\ x = Of("links", s)
    \/ m.status[s] = "linked" /\ s + 1 \in Entered(m) /\ x = Of("pending", s + 1)

\* On the disk d everything is there that the manifest m leads to.
Intact(m, w, d) ==
    \A s \in Snaps, x \in Files : Relies(m, w, s, x) => d[x] # Gone /\ d[x] = m.owned[x]

-----------------------------------------------------------------------------
(* Where a command is.                                                      *)

PcOK ==
    /\ pc \in [cmd : Commands, step : StepNames, todo : SUBSET Snaps]
    /\ pc.step = "idle" => pc = Idle /\ mem = man
    /\ pc.step \in Looping => pc.todo # {}
    /\ pc.step \in ScatterLoop => pc.todo \subseteq Populated

\* The status of the snapshots, of the one in hand above all.
Stage ==
    /\ pc.step \notin SaveSteps => mem.status = man.status
    /\ pc.step = "concat_parts" => ~KnownToScatter(At)
    /\ pc.step = "save_concat" => mem.status[At] = "concatenated"
    /\ pc.step = "cleanup" => KnownToScatter(At)
    /\ pc.step \in ScatterLoop => \A s \in Populated \ pc.todo : KnownToScatter(s)
    /\ pc.step = "save_sort" => mem.status[At] = "sorted"
    /\ pc.step = "unsorted" => mem.status[At] \in {"sorted", "fixed"}
    /\ pc.step = "save_fix" => mem.status[At] = "fixed"
    /\ pc.step = "save_link" => mem.status[At] = "linked"

Linking ==
    /\ pc.step \in {"identity"} \cup LinkLoop =>
          /\ Entered(mem) # {} /\ pc.todo \subseteq Entered(mem)
          /\ \A s \in Entered(mem) : mem.status[s] \in {"fixed", "linked"}
    /\ pc.step \in LinkLoop =>
          /\ UNION {ForestsAt[s] : s \in Entered(mem)} = Forests
          /\ Verified(Of("forest_index", 0))
          /\ \A s \in Entered(mem) : Verified(Of("fixed", s))

Writing ==
    /\ pc.step \in WriteSteps =>
          /\ Entered(mem) # {} /\ \A s \in Entered(mem) : mem.status[s] = "linked"
          /\ \A i \in {"a_list", "simulation_info"} : mem.bound[i] = world[i]
    /\ pc.step = "record_output" => OutputOK(mem, Of("h5", At), disk[Of("h5", At)])

\* The versions that a command may name.
Bound ==
    /\ pc.step \in {"pool"} \cup ScatterLoop => \A i \in Metadata : mem.bound[i] # 0
    /\ pc.step \in ScatterLoop => \A f \in Sources : mem.done[f] # 0
    /\ pc.step \in FixSteps => \A i \in {"a_list", "simulation_info"} : mem.bound[i] # 0

\* A source that is scattered anew is one that has changed.
Pool ==
    /\ mem.done = man.done
    /\ \A f \in Sources : man.done[f] <= world[f]
    /\ pc.step = "pool" => \A f \in Sources :
          /\ task[f].st \in {"queued", "reading", "parsed"} =>
                Entered(man) = {} /\ man.done[f] < world[f]
          /\ task[f].st \in {"reading", "parsed"} => task[f].version \in 1 .. world[f]
          /\ task[f].st = "parsed" =>
                \A s \in RowsAt[f] : disk[Worker(s, f)] = RowsOf(f, s, task[f].version)
          /\ task[f].st = "recorded" => man.done[f] # 0

Saved ==
    /\ Sound(man) /\ NothingYet(man)
    /\ Sound(mem) /\ (pc.step \notin {"concat", "concat_parts"} => NothingYet(mem))

Trusted == ~tampered => Intact(man, world, disk) /\ Intact(mem, world, disk)

Reported ==
    /\ last.cmd = "report" => pc = Idle
    /\ last = [cmd |-> "report", how |-> "ok"] /\ ~tampered =>
          \A s \in Snaps : EmittedRows(s) = RowsRecorded(s)

Types == TypeOK /\ \A i \in Inputs : world[i] <= edits + 1

IInv == /\ Types /\ PcOK /\ Stage /\ Linking /\ Writing /\ Bound /\ Pool
        /\ Saved /\ Trusted /\ Reported

-----------------------------------------------------------------------------
(* Files, contents and manifests.                                           *)

\* Snapshots and versions are numbers; no source is metadata.
LEMMA Numbers ==
    /\ Snaps \in SUBSET Nat /\ 0 \in Snaps
    /\ Versions \in SUBSET Nat /\ 0 \notin Versions /\ 1 \in Versions
    /\ Sources \cap Metadata = {}
    /\ Populated \in SUBSET Snaps /\ Populated # {}
    /\ \A f \in Sources : RowsAt[f] \in SUBSET Snaps
<1> USE PipelineAssumption
<1>1. Snaps \in SUBSET Nat /\ 0 \in Snaps
  BY DEF Snaps
<1>2. Versions \in SUBSET Nat /\ 0 \notin Versions /\ 1 \in Versions
  BY DEF Versions
<1>3. \A f \in Sources : RowsAt[f] \in SUBSET Snaps
  OBVIOUS
<1>4. Populated \in SUBSET Snaps
  BY <1>3 DEF Populated
<1> QED
  BY <1>1, <1>2, <1>3, <1>4

\* The kinds of files that there is one of for a snapshot.
Kinds == {"snap", "sorted", "idx", "fixed", "pending", "links", "h5"}

\* A file of a snapshot is a file, and none of a worker or a source.
LEMMA OfIsFile ==
    ASSUME NEW kind \in Kinds, NEW s \in Snaps
    PROVE  /\ Of(kind, s) \in Files \ (PerWorker \cup PerSource)
           /\ Of(kind, s)[1] = kind /\ Of(kind, s)[2] = s
           /\ Of(kind, s) # Of("forest_max", 0)
BY DEF Kinds, Of, Files, PerSnapshot, PerWorker, PerSource

\* The tables are files of their own.
LEMMA TableIsFile ==
    ASSUME NEW kind \in {"forest_max", "forest_index", "forests_h5"}
    PROVE  /\ Of(kind, 0) \in Files \ (PerWorker \cup PerSource)
           /\ Of(kind, 0)[1] = kind /\ Of(kind, 0)[1] \notin Kinds
BY DEF Kinds, Of, Files, Tables, PerWorker, PerSource

\* So are the files of a worker.
LEMMA WorkerIsFile ==
    ASSUME NEW s \in Snaps, NEW f \in Sources
    PROVE  /\ Worker(s, f) \in Files /\ Worker(s, f) \in PerWorker
           /\ Worker(s, f) \notin PerSource
           /\ Worker(s, f)[1] = "worker" /\ Worker(s, f)[2] = s /\ Worker(s, f)[3] = f
BY DEF Worker, Files, PerWorker, PerSource

\* And the two of a source.
LEMMA SidecarIsFile ==
    ASSUME NEW kind \in {"roots", "forest_max_src"}, NEW f \in Sources
    PROVE  /\ Sidecar(kind, f) \in Files /\ Sidecar(kind, f) \in PerSource
           /\ Sidecar(kind, f) \notin PerWorker
           /\ Sidecar(kind, f)[1] = kind /\ Sidecar(kind, f)[2] = 0 /\ Sidecar(kind, f)[3] = f
BY Numbers DEF Sidecar, Files, PerWorker, PerSource

\* Files of different kinds or snapshots differ.
LEMMA OfDiffer ==
    ASSUME NEW k1, NEW k2, NEW s1, NEW s2, Of(k1, s1) = Of(k2, s2)
    PROVE  k1 = k2 /\ s1 = s2
BY DEF Of

\* What a file is computed from is neither a marker nor somebody else's.
LEMMA GenuineIsContent ==
    ASSUME NEW c \in Genuine
    PROVE  /\ c \in Contents
           /\ c # Gone /\ c # NotOwned /\ c # Removed /\ c # Torn /\ c # Foreign
<1>1. c \in Contents
  BY DEF Genuine, Contents
<1>2. c # Gone /\ c # NotOwned /\ c # Removed
  BY <1>1, PipelineAssumption
<1>3. <<"torn", 0, 0>> \notin c /\ <<"foreign", 0, 0>> \notin c
  BY Numbers DEF Genuine
<1> QED
  BY <1>1, <1>2, <1>3 DEF Torn, Foreign

\* Torn and foreign files are there.
LEMMA BadIsContent == Torn \in Contents /\ Foreign \in Contents
<1>1. Torn \in {Torn, Foreign} /\ Foreign \in {Torn, Foreign}
  OBVIOUS
<1> QED
  BY <1>1 DEF Contents

\* A file that is there and as the manifest has it is a good one.
LEMMA VerifiedIsGood ==
    ASSUME NEW m \in Manifests, OwnedOK(m), NEW x \in Files,
           NEW d \in Contents \cup {Gone}, d # Gone, d = m.owned[x]
    PROVE  ContentOK(m, x, d)
<1>1. d \in Contents
  OBVIOUS
<1>2. d \notin {NotOwned, Removed}
  BY <1>1, PipelineAssumption
<1> QED
  BY <1>2 DEF OwnedOK

\* The snapshot in hand is the least of those left.
LEMMA LeastIsMin ==
    ASSUME NEW S \in SUBSET Snaps, S # {}
    PROVE  Min(S) \in S /\ \A n \in S : Min(S) <= n
<1>1. S \in SUBSET Nat
  BY Numbers
<1>2. \E x \in S : \A y \in S : x <= y
  BY <1>1, LeastElement
<1> QED
  BY <1>2 DEF Min

\* The types of the fields of a manifest.
LEMMA MemType ==
    ASSUME NEW m \in Manifests
    PROVE  /\ m.done \in [Sources -> {0} \cup Versions]
           /\ m.owned \in [Files -> Contents \cup {NotOwned, Removed}]
           /\ m.status \in [Snaps -> Status]
           /\ m.bound \in [Metadata -> {0} \cup Versions]
           /\ m.identity \in SUBSET Snaps
           /\ m.output \in [Files -> Contents \cup {NotOwned}]
           /\ m.exists \in BOOLEAN /\ m.emitted \in BOOLEAN
BY DEF Manifests

\* The entered snapshots are those with a status.
LEMMA StatusIs ==
    /\ Status = {"none", "concatenated", "sorted", "fixed", "linked"}
    /\ \A m : Entered(m) \in SUBSET Snaps
    /\ \A m, m2 : m2.status = m.status => Entered(m2) = Entered(m)
<1>1. DOMAIN Statuses = {1, 2, 3, 4, 5}
  BY DEF Statuses
<1>2. Status = {Statuses[1], Statuses[2], Statuses[3], Statuses[4], Statuses[5]}
  BY <1>1 DEF Status
<1>3. Status = {"none", "concatenated", "sorted", "fixed", "linked"}
  BY <1>2 DEF Statuses
<1> QED
  BY <1>3 DEF Entered

-----------------------------------------------------------------------------
(* Changes of a manifest.                                                   *)

\* m2 is m with these files registered.
Registers(m, new, m2) ==
    /\ m2 \in Manifests
    /\ m2.done = m.done /\ m2.bound = m.bound /\ m2.output = m.output
    /\ \A x \in DOMAIN new : m2.owned[x] = new[x]
    /\ \A x \in Files \ DOMAIN new : m2.owned[x] = m.owned[x]

\* m2 has the statuses of m, and st for the snapshot s.
Stages(m, s, st, m2) ==
    /\ m2.status[s] = st
    /\ \A t \in Snaps \ {s} : m2.status[t] = m.status[t]

\* Register() changes the md5s it is given and nothing else.
LEMMA RegisterIs ==
    ASSUME NEW m \in Manifests, NEW new, DOMAIN new \in SUBSET Files,
           \A x \in DOMAIN new : new[x] \in Contents \cup {Removed}
    PROVE  Registers(m, new, Register(m, new)) /\ Register(m, new).status = m.status
<1> DEFINE o == [x \in Files |-> IF x \in DOMAIN new THEN new[x] ELSE m.owned[x]]
<1>1. o \in [Files -> Contents \cup {NotOwned, Removed}]
  BY MemType
<1>2. Register(m, new) = [m EXCEPT !.owned = o]
  BY DEF Register
<1>3. \A x \in DOMAIN new : o[x] = new[x]
  OBVIOUS
<1>4. \A x \in Files \ DOMAIN new : o[x] = m.owned[x]
  OBVIOUS
<1> HIDE DEF o
<1>5. /\ [m EXCEPT !.owned = o] \in Manifests
      /\ [m EXCEPT !.owned = o].done = m.done
      /\ [m EXCEPT !.owned = o].bound = m.bound
      /\ [m EXCEPT !.owned = o].output = m.output
      /\ [m EXCEPT !.owned = o].status = m.status
      /\ [m EXCEPT !.owned = o].owned = o
  BY <1>1 DEF Manifests
<1> QED
  BY <1>2, <1>3, <1>4, <1>5 DEF Registers

\* The same with a new status of one snapshot.
LEMMA RegisterAndStage ==
    ASSUME NEW m \in Manifests, NEW new, DOMAIN new \in SUBSET Files,
           \A x \in DOMAIN new : new[x] \in Contents \cup {Removed},
           NEW s \in Snaps, NEW st \in Status,
           NEW m2, m2 = [Register(m, new) EXCEPT !.status[s] = st]
    PROVE  Registers(m, new, m2) /\ Stages(m, s, st, m2)
<1>1. PICK r : r = Register(m, new)
  OBVIOUS
<1>2. Registers(m, new, r) /\ r.status = m.status
  BY <1>1, RegisterIs
<1>3. r \in Manifests /\ r.status \in [Snaps -> Status]
  BY <1>2, MemType DEF Registers
<1>4. m2 = [r EXCEPT !.status[s] = st]
  BY <1>1
<1>5. /\ m2.done = r.done /\ m2.bound = r.bound /\ m2.output = r.output
      /\ m2.owned = r.owned /\ m2.status = [r.status EXCEPT ![s] = st]
  BY <1>3, <1>4 DEF Manifests
<1>6. m2.status \in [Snaps -> Status]
  <2>1. \A u \in [Snaps -> Status] : [u EXCEPT ![s] = st] \in [Snaps -> Status]
    OBVIOUS
  <2>2. [r.status EXCEPT ![s] = st] \in [Snaps -> Status]
    BY <1>3, <2>1
  <2> QED
    BY <1>5, <2>2
<1>7. m2 = [r EXCEPT !.status = m2.status]
  BY <1>3, <1>4, <1>5 DEF Manifests
<1>8. m2 \in Manifests
  BY <1>3, <1>6, <1>7 DEF Manifests
<1>9. Registers(m, new, m2)
  BY <1>2, <1>5, <1>8 DEF Registers
<1>10. Stages(m, s, st, m2)
  BY <1>2, <1>3, <1>5 DEF Stages
<1> QED
  BY <1>9, <1>10

\* The disk after a file was written.
LEMMA WrittenIs ==
    ASSUME NEW new, DOMAIN new \in SUBSET Files,
           disk \in [Files -> Contents \cup {Gone}],
           \A x \in DOMAIN new : new[x] \in Contents \cup {Gone}
    PROVE  /\ Written(new) \in [Files -> Contents \cup {Gone}]
           /\ \A x \in DOMAIN new : Written(new)[x] = new[x]
           /\ \A x \in Files \ DOMAIN new : Written(new)[x] = disk[x]
BY DEF Written

\* A function on one file.
LEMMA JustIs ==
    ASSUME NEW x, NEW c
    PROVE  DOMAIN Just(x, c) = {x} /\ Just(x, c)[x] = c
BY DEF Just

\* Writing one file leaves all others.
LEMMA JustWritten ==
    ASSUME NEW x \in Files, NEW c \in Contents \cup {Gone},
           disk \in [Files -> Contents \cup {Gone}]
    PROVE  /\ Written(Just(x, c)) \in [Files -> Contents \cup {Gone}]
           /\ Written(Just(x, c))[x] = c
           /\ \A y \in Files \ {x} : Written(Just(x, c))[y] = disk[y]
<1>1. PICK new : new = Just(x, c)
  OBVIOUS
<1>2. DOMAIN new = {x} /\ new[x] = c
  BY <1>1, JustIs
<1> QED
  BY <1>1, <1>2, WrittenIs

\* The same versions make the same contents good.
LEMMA SameVersions ==
    ASSUME NEW m, NEW m2, m2.done = m.done, m2.bound = m.bound
    PROVE  /\ \A c : OneVersion(m2, c) = OneVersion(m, c)
           /\ \A x, c : ContentOK(m2, x, c) = ContentOK(m, x, c)
           /\ \A x, c : OutputOK(m2, x, c) = OutputOK(m, x, c)
           /\ \A s : AllRows(m2, s) = AllRows(m, s)
<1>1. \A i : VersionOf(m2, i) = VersionOf(m, i)
  BY DEF VersionOf
<1>2. \A c : OneVersion(m2, c) = OneVersion(m, c)
  BY <1>1, Zenon DEF OneVersion
<1>3. \A s : AllRows(m2, s) = AllRows(m, s)
  BY DEF AllRows
<1>4. \A f, s : ScatteredFrom(m2, f, s) = ScatteredFrom(m, f, s)
  BY DEF ScatteredFrom
<1>5. \A x, c : ContentOK(m2, x, c) = ContentOK(m, x, c)
  BY <1>2, <1>3, <1>4, Zenon DEF ContentOK
<1>6. \A x, c : OutputOK(m2, x, c) = OutputOK(m, x, c)
  BY <1>2, <1>3, Zenon DEF OutputOK
<1> QED
  BY <1>2, <1>3, <1>5, <1>6

\* Registering good files keeps a manifest's files good.
LEMMA RegisteringIsGood ==
    ASSUME NEW m \in Manifests, NEW new, NEW m2, Registers(m, new, m2), OwnedOK(m),
           \A x \in DOMAIN new : new[x] = Removed \/ ContentOK(m, x, new[x])
    PROVE  OwnedOK(m2)
<1> SUFFICES ASSUME NEW x \in Files, m2.owned[x] \notin {NotOwned, Removed}
             PROVE  ContentOK(m2, x, m2.owned[x])
  BY DEF OwnedOK
<1>1. ContentOK(m, x, m2.owned[x])
  BY DEF OwnedOK, Registers
<1> QED
  BY <1>1, SameVersions DEF Registers

\* The emitted files of a manifest stay what they are when it changes elsewhere.
LEMMA SameOutputs ==
    ASSUME NEW m, NEW m2, m2.done = m.done, m2.bound = m.bound, m2.output = m.output,
           OutputsOK(m)
    PROVE  OutputsOK(m2)
<1> SUFFICES ASSUME NEW x \in Files, m2.output[x] # NotOwned
             PROVE  OutputOK(m2, x, m2.output[x])
  BY DEF OutputsOK
<1>1. OutputOK(m, x, m2.output[x])
  BY DEF OutputsOK
<1> QED
  BY <1>1, SameVersions

\* What a manifest says about its snapshots.
Staged(m) == EnteredOK(m) /\ JoinedOK(m) /\ ForestsOK(m) /\ DoneOK(m)

\* The same for what a manifest says about stages.
LEMMA SameStaged ==
    ASSUME NEW m, NEW m2, m2.done = m.done, m2.status = m.status, Staged(m)
    PROVE  Staged(m2)
<1>1. Entered(m2) = Entered(m)
  BY StatusIs
<1> QED
  BY <1>1, Zenon DEF Staged, EnteredOK, JoinedOK, ForestsOK, DoneOK

\* A sound manifest: its intermediates, its outputs, its stages.
LEMMA SoundIs ==
    ASSUME NEW m
    PROVE  Sound(m) <=> OwnedOK(m) /\ OutputsOK(m) /\ Staged(m)
BY DEF Sound, Staged

-----------------------------------------------------------------------------
(* What a manifest leads to.                                                *)

\* The files of Relied() are those that Relies() is about.
LEMMA ReliedAreFiles ==
    ASSUME NEW m \in Manifests, NEW s \in Snaps
    PROVE  \A x : x \in Relied(m, s) => x \in Files /\ Relies(m, world, s, x)
<1> SUFFICES ASSUME NEW x \in Relied(m, s) PROVE x \in Files /\ Relies(m, world, s, x)
  OBVIOUS
<1>1. m.status[s] \in {"none", "concatenated", "sorted", "fixed", "linked"}
  BY MemType, StatusIs
<1>2. CASE m.status[s] = "none"
  <2>1. PICK f \in PartsOf(s) : m.done[f] = world[f] /\ x = Worker(s, f)
    BY <1>2 DEF Relied
  <2> QED
    BY <1>2, <2>1, WorkerIsFile DEF Relies, PartsOf
<1>3. CASE m.status[s] = "concatenated"
  BY <1>3, OfIsFile DEF Relied, Relies, Kinds
<1>4. CASE m.status[s] = "sorted"
  BY <1>4, OfIsFile DEF Relied, Relies, Kinds
<1>5. CASE m.status[s] = "fixed"
  BY <1>5, OfIsFile DEF Relied, Relies, Kinds
<1>6. CASE m.status[s] = "linked"
  <2>1. \/ x \in {Of("idx", s), Of("fixed", s), Of("links", s)}
        \/ s + 1 \in Entered(m) /\ x = Of("pending", s + 1)
    BY <1>6 DEF Relied
  <2>2. s + 1 \in Entered(m) => s + 1 \in Snaps
    BY StatusIs
  <2> QED
    BY <1>6, <2>1, <2>2, OfIsFile DEF Relies, Kinds
<1> QED
  BY <1>1, <1>2, <1>3, <1>4, <1>5, <1>6

\* The property that is checked follows from the part of the invariant.
LEMMA TrustedMeansTrue ==
    ASSUME TypeOK, Trusted
    PROVE  ManifestIsTrue
<1>1. ASSUME ~tampered, NEW s \in Snaps, NEW x \in Relied(man, s)
      PROVE  disk[x] # Gone /\ disk[x] = man.owned[x]
  <2>1. x \in Files /\ Relies(man, world, s, x)
    BY <1>1, ReliedAreFiles DEF TypeOK
  <2> QED
    BY <1>1, <2>1 DEF Trusted, Intact
<1> QED
  BY <1>1 DEF ManifestIsTrue

\* Nothing relied on has changed.
LEMMA IntactKept ==
    ASSUME NEW m, NEW m2, NEW w, NEW d, NEW d2, Intact(m, w, d),
           m2.status = m.status, m2.done = m.done,
           \A s \in Snaps, x \in Files :
               Relies(m, w, s, x) => d2[x] = d[x] /\ m2.owned[x] = m.owned[x]
    PROVE  Intact(m2, w, d2)
<1>1. Entered(m2) = Entered(m)
  BY StatusIs
<1>2. \A s, x : Relies(m2, w, s, x) <=> Relies(m, w, s, x)
  <2> SUFFICES ASSUME NEW s, NEW x PROVE Relies(m2, w, s, x) <=> Relies(m, w, s, x)
    OBVIOUS
  <2> QED
    BY <1>1 DEF Relies
<1> SUFFICES ASSUME NEW s \in Snaps, NEW x \in Files, Relies(m2, w, s, x)
             PROVE  d2[x] # Gone /\ d2[x] = m2.owned[x]
  BY DEF Intact
<1>3. Relies(m, w, s, x)
  BY <1>2
<1>4. d[x] # Gone /\ d[x] = m.owned[x]
  BY <1>3 DEF Intact
<1> QED
  BY <1>3, <1>4

\* Nothing that the manifest says is different.
LEMMA SameIntact ==
    ASSUME NEW m, NEW m2, NEW w, NEW d, Intact(m, w, d),
           m2.status = m.status, m2.done = m.done, m2.owned = m.owned
    PROVE  Intact(m2, w, d)
BY IntactKept

\* The files of the manifest are registered as they are on the disk.
LEMMA IntactRegistered ==
    ASSUME NEW m, NEW m2, NEW w, NEW d, NEW d2, NEW new, Intact(m, w, d),
           Registers(m, new, m2),
           \A x \in DOMAIN new : d2[x] = new[x] /\ new[x] # Gone,
           \A x \in Files \ DOMAIN new : d2[x] = d[x],
           \A s \in Snaps, x \in Files \ DOMAIN new :
               Relies(m2, w, s, x) => Relies(m, w, s, x)
    PROVE  Intact(m2, w, d2)
<1> SUFFICES ASSUME NEW s \in Snaps, NEW x \in Files, Relies(m2, w, s, x)
             PROVE  d2[x] # Gone /\ d2[x] = m2.owned[x]
  BY DEF Intact
<1>1. CASE x \in DOMAIN new
  BY <1>1 DEF Registers
<1>2. CASE x \notin DOMAIN new
  <2>1. Relies(m, w, s, x)
    BY <1>2
  <2>2. d[x] # Gone /\ d[x] = m.owned[x]
    BY <2>1 DEF Intact
  <2> QED
    BY <1>2, <2>2 DEF Registers
<1> QED
  BY <1>1, <1>2

-----------------------------------------------------------------------------
(* How the command goes on.                                                 *)

\* The snapshot in hand.
LEMMA InHand ==
    ASSUME PcOK, pc.step \in Looping
    PROVE  /\ At \in pc.todo /\ At \in Snaps /\ At \in Nat
           /\ \A n \in pc.todo : At <= n
<1>1. pc.todo \in SUBSET Snaps /\ pc.todo # {}
  BY DEF PcOK
<1>2. At \in pc.todo /\ \A n \in pc.todo : At <= n
  BY <1>1, LeastIsMin DEF At
<1> QED
  BY <1>1, <1>2, Numbers

\* A step that stays with its snapshot.
LEMMA GotoIs ==
    ASSUME PcOK, NEW step \in StepNames \ {"idle"}, Goto(step),
           step \in Looping => pc.todo # {},
           step \in ScatterLoop => pc.todo \subseteq Populated
    PROVE  /\ PcOK'
           /\ pc'.step = step /\ pc'.todo = pc.todo /\ pc'.cmd = pc.cmd /\ At' = At
<1>1. pc'.step = step /\ pc'.todo = pc.todo /\ pc'.cmd = pc.cmd
  BY DEF Goto, PcOK
<1>2. pc' \in [cmd : Commands, step : StepNames, todo : SUBSET Snaps]
  BY DEF Goto, PcOK
<1>3. PcOK'
  BY <1>1, <1>2 DEF PcOK
<1> QED
  BY <1>1, <1>3 DEF At

\* A step that goes on to the next snapshot, or leaves the loop.
LEMMA NextSnapshotIs ==
    ASSUME PcOK, NEW loop \in StepNames \ {"idle"}, NEW after \in StepNames \ {"idle"},
           after \notin Looping, NextSnapshot(loop, after), pc.step \in Looping,
           loop \in ScatterLoop => pc.todo \subseteq Populated
    PROVE  /\ PcOK'
           /\ pc'.step \in {loop, after} /\ pc'.todo = pc.todo \ {At}
           /\ pc'.step = after => pc'.todo = {} \/ loop = after
           /\ pc'.cmd = pc.cmd
<1>1. /\ pc'.step \in {loop, after} /\ pc'.todo = pc.todo \ {At} /\ pc'.cmd = pc.cmd
      /\ pc'.todo = {} => pc'.step = after
      /\ pc'.todo # {} => pc'.step = loop
  BY DEF NextSnapshot, PcOK
<1>2. pc' \in [cmd : Commands, step : StepNames, todo : SUBSET Snaps]
  BY DEF NextSnapshot, PcOK
<1>3. PcOK'
  <2>1. pc'.step # "idle"
    BY <1>1
  <2>2. pc'.step \in Looping => pc'.todo # {}
    BY <1>1
  <2>3. pc'.step \in ScatterLoop => pc'.todo \subseteq Populated
    BY <1>1 DEF Looping
  <2> QED
    BY <1>2, <2>1, <2>2, <2>3 DEF PcOK
<1> QED
  BY <1>1, <1>3

\* The end of a command.
LEMMA FinishIs ==
    ASSUME PcOK, NEW how, Finish(how), mem' = man'
    PROVE  PcOK' /\ pc' = Idle /\ pc'.step = "idle" /\ last'.cmd = pc.cmd
           /\ pc'.todo = {} /\ last'.how = how /\ last'.cmd # "report"
<1>1. /\ pc' = Idle /\ last'.cmd = pc.cmd /\ last'.how = how
  BY DEF Finish
<1>2. Idle \in [cmd : Commands, step : StepNames, todo : SUBSET Snaps]
      /\ Idle.step = "idle" /\ "idle" \notin Looping /\ "idle" \notin ScatterLoop
      /\ Idle.todo = {}
  BY DEF Idle, Commands, StepNames, Looping, ScatterLoop, SortLoop, FixSteps, LinkLoop,
         EmitLoop, WriteSteps
<1>3. "report" \notin Commands
  BY DEF Commands
<1> QED
  BY <1>1, <1>2, <1>3 DEF PcOK

\* A command that runs is no report, and nobody has one in hand.
LEMMA NotReported ==
    ASSUME Reported, pc.step # "idle"
    PROVE  last.cmd # "report"
BY DEF Reported, Idle

\* Only a report says something of the dataset.
LEMMA ReportedLater ==
    ASSUME last'.cmd # "report"
    PROVE  Reported'
BY DEF Reported

\* Outside of the pool nothing is known of its tasks.
LEMMA PoolLater ==
    ASSUME Pool, pc'.step # "pool", mem'.done = man'.done, man'.done = man.done,
           world' = world
    PROVE  Pool'
BY DEF Pool

\* What is left of type correctness when inputs and counters stay.
LEMMA TypesLater ==
    ASSUME Types, PcOK', world' = world, disk' \in [Files -> Contents \cup {Gone}],
           man' \in Manifests, mem' \in Manifests, task' = task, last' = last,
           faults' = faults
    PROVE  Types'
BY DEF Types, TypeOK, PcOK, faults

-----------------------------------------------------------------------------
(* The invariant holds at the start, and what most steps leave of it.       *)

\* A manifest without any entry is sound.
LEMMA EmptyIsSound ==
    ASSUME NEW m \in Manifests, \A x \in Files : m.owned[x] = NotOwned,
           \A x \in Files : m.output[x] = NotOwned, \A s \in Snaps : m.status[s] = "none"
    PROVE  Sound(m) /\ NothingYet(m) /\ Entered(m) = {}
<1>1. Entered(m) = {}
  BY DEF Entered
<1>2. OwnedOK(m) /\ OutputsOK(m)
  BY DEF OwnedOK, OutputsOK
<1>3. JoinedOK(m)
  <2> SUFFICES ASSUME NEW s \in Joined, m.status[s] = "linked" PROVE FALSE
    BY DEF JoinedOK
  <2> QED
    BY Numbers, PipelineAssumption
<1> QED
  BY <1>1, <1>2, <1>3 DEF Sound, EnteredOK, ForestsOK, DoneOK, NothingYet

\* The invariant holds in a new work directory.
LEMMA InitHolds ==
    ASSUME Init
    PROVE  IInv
<1>1. NoManifest \in Manifests
  BY Numbers, StatusIs DEF NoManifest, Manifests
<1>2. Types
  <2>1. world \in [Inputs -> Versions] /\ \A i \in Inputs : world[i] <= edits + 1
    BY Numbers DEF Init
  <2>2. disk \in [Files -> Contents \cup {Gone}]
    BY DEF Init
  <2>3. pc.todo \subseteq Snaps
    BY DEF Init, Idle
  <2>4. task \in [Sources -> [st : {"no", "queued", "reading", "parsed", "recorded"},
                              version : {0} \cup Versions]]
    BY DEF Init, Unscattered
  <2>5. last.how \in {"ok", "error", "killed", "running"}
    BY DEF Init, None
  <2>6. crashes \in 0 .. MaxCrashes /\ edits \in 0 .. MaxEdits
    BY PipelineAssumption DEF Init
  <2> QED
    BY <1>1, <2>1, <2>2, <2>3, <2>4, <2>5, <2>6 DEF Types, TypeOK, Init
<1>3. /\ pc = Idle /\ pc.step = "idle" /\ mem = man
      /\ pc.step \notin Looping \cup WriteSteps \cup {"pool", "identity"}
  BY DEF Init, Idle, Looping, ScatterLoop, SortLoop, FixSteps, LinkLoop, EmitLoop, WriteSteps
<1>4. PcOK
  BY <1>3 DEF PcOK, Idle, Commands, StepNames, Looping
<1>5. Stage /\ Linking /\ Writing /\ Bound
  BY <1>3 DEF Stage, Linking, Writing, Bound, Looping, SortLoop, FixSteps, EmitLoop,
              WriteSteps, ScatterLoop, LinkLoop
<1>6. Pool
  BY <1>3, Numbers DEF Init, Pool, NoManifest, Inputs
<1>7. Sound(man) /\ NothingYet(man) /\ Entered(man) = {}
  <2>1. /\ \A x \in Files : NoManifest.owned[x] = NotOwned
        /\ \A x \in Files : NoManifest.output[x] = NotOwned
        /\ \A s \in Snaps : NoManifest.status[s] = "none"
    BY DEF NoManifest
  <2> QED
    BY <1>1, <2>1, EmptyIsSound DEF Init
<1>8. Saved
  BY <1>3, <1>7 DEF Saved
<1>9. Intact(man, world, disk)
  <2> SUFFICES ASSUME NEW s \in Snaps, NEW x \in Files, Relies(man, world, s, x)
               PROVE  FALSE
    BY DEF Intact
  <2>1. man.status[s] = "none"
    BY DEF Init, NoManifest
  <2>2. PICK f \in PartsOf(s) : man.done[f] = world[f]
    BY <2>1 DEF Relies
  <2> QED
    BY <2>2 DEF Init, NoManifest, PartsOf, Inputs
<1>10. Trusted
  BY <1>3, <1>9 DEF Trusted
<1>11. Reported
  BY DEF Reported, Init, None
<1> QED
  BY <1>2, <1>4, <1>5, <1>6, <1>8, <1>10, <1>11 DEF IInv

\* Two manifests that say the same.
LEMMA SameManifest ==
    ASSUME NEW m, NEW m2, m2.done = m.done, m2.bound = m.bound, m2.owned = m.owned,
           m2.output = m.output, m2.status = m.status
    PROVE  /\ Sound(m) => Sound(m2)
           /\ NothingYet(m) => NothingYet(m2)
           /\ Entered(m2) = Entered(m)
<1>1. Entered(m2) = Entered(m)
  BY StatusIs
<1>2. OwnedOK(m) => OwnedOK(m2)
  BY SameVersions DEF OwnedOK
<1>3. ASSUME Sound(m) PROVE Sound(m2)
  <2>1. OutputsOK(m2) /\ Staged(m2)
    BY <1>3, SoundIs, SameOutputs, SameStaged
  <2> QED
    BY <1>2, <1>3, <2>1, SoundIs
<1>4. NothingYet(m) => NothingYet(m2)
  BY <1>1 DEF NothingYet
<1> QED
  BY <1>1, <1>3, <1>4

\* A step of a command that goes on.
LEMMA WorkKeeps ==
    ASSUME IInv, UNCHANGED <<world, task, last, faults>>, pc.step # "idle",
           pc'.step # "pool", PcOK', disk' \in [Files -> Contents \cup {Gone}],
           man' \in Manifests, mem' \in Manifests, mem'.done = man.done,
           man'.done = man.done, Stage', Linking', Writing', Bound',
           Sound(man') /\ NothingYet(man') /\ Sound(mem'),
           pc'.step \notin {"concat", "concat_parts"} => NothingYet(mem'),
           ~tampered => Intact(man', world, disk') /\ Intact(mem', world, disk')
    PROVE  IInv'
<1>1. Types'
  BY TypesLater DEF IInv
<1>2. Pool'
  BY PoolLater DEF IInv
<1>3. Reported'
  BY NotReported, ReportedLater DEF IInv
<1>4. Saved'
  BY DEF Saved
<1>5. Trusted'
  BY DEF Trusted, faults
<1> QED
  BY <1>1, <1>2, <1>3, <1>4, <1>5 DEF IInv

\* A step that only decides what comes next.
LEMMA SkipKeeps ==
    ASSUME IInv, UNCHANGED <<world, disk, man, mem, task, last, faults>>,
           pc.step \notin {"idle", "concat_parts"},
           pc.step = "concat" => NothingYet(mem),
           pc'.step # "pool", PcOK', Stage', Linking', Writing', Bound'
    PROVE  IInv'
<1>1. Sound(man) /\ NothingYet(man) /\ Sound(mem) /\ NothingYet(mem)
  BY DEF IInv, Saved
<1>2. /\ disk \in [Files -> Contents \cup {Gone}]
      /\ man \in Manifests /\ mem \in Manifests
  BY DEF IInv, Types, TypeOK
<1>3. mem.done = man.done
  BY DEF IInv, Pool
<1>4. ~tampered => Intact(man, world, disk) /\ Intact(mem, world, disk)
  BY DEF IInv, Trusted
<1> QED
  BY <1>1, <1>2, <1>3, <1>4, WorkKeeps

\* What Manifest.save() leaves.
LEMMA SaveIs ==
    ASSUME Save, mem \in Manifests
    PROVE  /\ man' \in Manifests /\ mem' = man'
           /\ man'.done = mem.done /\ man'.bound = mem.bound /\ man'.owned = mem.owned
           /\ man'.output = mem.output /\ man'.status = mem.status
           /\ man'.identity = mem.identity
BY DEF Save, Manifests

\* A step that saves the manifest, changed in nothing that matters here.
LEMMA SaveKeeps ==
    ASSUME IInv, UNCHANGED <<world, disk, task, last, faults>>,
           man' \in Manifests, mem' = man', man'.done = mem.done, man'.bound = mem.bound,
           man'.owned = mem.owned, man'.output = mem.output, man'.status = mem.status,
           pc.step \notin {"idle", "concat", "concat_parts"},
           pc'.step # "pool", PcOK', Stage', Linking', Writing', Bound'
    PROVE  IInv'
<1>1. Sound(mem) /\ NothingYet(mem)
  BY DEF IInv, Saved
<1>2. Sound(man') /\ NothingYet(man')
  BY <1>1, SameManifest
<1>3. disk \in [Files -> Contents \cup {Gone}]
  BY DEF IInv, Types, TypeOK
<1>4. mem.done = man.done
  BY DEF IInv, Pool
<1>5. ~tampered => Intact(man', world, disk)
  BY SameIntact DEF IInv, Trusted
<1> QED
  BY <1>2, <1>3, <1>4, <1>5, WorkKeeps

\* A command that ends, in whatever way, leaves the manifest on the disk.
LEMMA StopKeeps ==
    ASSUME IInv, NEW how \in {"ok", "error", "killed"}, Finish(how), mem' = man',
           pc.step # "idle",
           UNCHANGED <<world, man, edits, tampered>>, crashes' \in 0 .. MaxCrashes,
           disk' \in [Files -> Contents \cup {Gone}],
           ~tampered => Intact(man, world, disk')
    PROVE  IInv'
<1>1. /\ PcOK' /\ pc' = Idle /\ pc'.step = "idle" /\ last'.cmd # "report"
      /\ last'.how = how /\ pc'.todo = {}
  BY FinishIs DEF IInv
<1>2. "idle" \notin Looping \cup WriteSteps \cup {"pool", "identity"}
  BY DEF Looping, ScatterLoop, SortLoop, FixSteps, LinkLoop, EmitLoop, WriteSteps
<1>3. Types'
  <2>1. task' \in [Sources -> [st : {"no", "queued", "reading", "parsed", "recorded"},
                               version : {0} \cup Versions]]
    BY DEF Finish, Unscattered
  <2> QED
    BY <1>1, <2>1 DEF IInv, Types, TypeOK
<1>4. Stage' /\ Linking' /\ Writing' /\ Bound'
  BY <1>1, <1>2 DEF Stage, Linking, Writing, Bound, Looping, SortLoop, FixSteps, EmitLoop,
                    WriteSteps, ScatterLoop, LinkLoop, SaveSteps
<1>5. Pool'
  BY <1>1, PoolLater DEF IInv
<1>6. Saved'
  BY DEF IInv, Saved
<1>7. Trusted'
  BY DEF Trusted
<1>8. Reported'
  BY <1>1, ReportedLater
<1> QED
  BY <1>1, <1>3, <1>4, <1>5, <1>6, <1>7, <1>8 DEF IInv

\* A refusal leaves work directory and manifest.
LEMMA RefuseKeeps ==
    ASSUME IInv, Refuse, UNCHANGED disk, pc.step # "idle"
    PROVE  IInv'
<1>1. disk \in [Files -> Contents \cup {Gone}] /\ crashes \in 0 .. MaxCrashes
  BY DEF IInv, Types, TypeOK
<1>2. ~tampered => Intact(man, world, disk)
  BY DEF IInv, Trusted
<1>3. Finish("error") /\ mem' = man' /\ UNCHANGED <<world, man, crashes, edits, tampered>>
  BY DEF Refuse, faults
<1> QED
  BY <1>1, <1>2, <1>3, StopKeeps

\* So does the end of a command.
LEMMA DoneKeeps ==
    ASSUME IInv, Done
    PROVE  IInv'
<1>1. disk \in [Files -> Contents \cup {Gone}] /\ crashes \in 0 .. MaxCrashes
  BY DEF IInv, Types, TypeOK
<1>2. ~tampered => Intact(man, world, disk)
  BY DEF IInv, Trusted
<1>3. /\ Finish("ok") /\ mem' = man' /\ pc.step # "idle"
      /\ UNCHANGED <<world, man, disk, crashes, edits, tampered>>
  BY DEF Done, faults
<1> QED
  BY <1>1, <1>2, <1>3, StopKeeps

\* All refusals of all commands.
LEMMA RefusalsKeep ==
    ASSUME IInv,
           SourceChanged \/ ScatterRefuses \/ SortRefuses \/ FixRefuses \/ LinksRefuse
           \/ WriteRefuses
    PROVE  IInv'
<1>1. Refuse /\ UNCHANGED disk /\ pc.step # "idle"
  BY DEF SourceChanged, ScatterRefuses, SortRefuses, FixRefuses, LinksRefuse, WriteRefuses
<1> QED
  BY <1>1, RefuseKeeps

-----------------------------------------------------------------------------
(* Steps that skip what is done, and steps that save it.                    *)

\* A snapshot with a status is one of the manifest.
LEMMA HasStatus ==
    ASSUME NEW m, NEW s \in Snaps, m.status[s] # "none"
    PROVE  s \in Entered(m) /\ NothingYet(m)
BY DEF Entered, NothingYet

\* scatter skips a snapshot that has been concatenated.
LEMMA SkipConcatKeeps ==
    ASSUME IInv, SkipConcat
    PROVE  IInv'
<1>1. /\ pc.step = "concat" /\ KnownToScatter(At) /\ Goto("cleanup")
      /\ UNCHANGED <<world, disk, man, mem, task, last, faults>>
  BY DEF SkipConcat, Steps
<1>2. PcOK
  BY DEF IInv
<1>3. /\ PcOK' /\ pc'.step = "cleanup" /\ pc'.todo = pc.todo /\ At' = At
  BY <1>1, <1>2, GotoIs DEF PcOK, StepNames, Looping, ScatterLoop
<1>4. At \in Snaps
  BY <1>1, <1>2, InHand DEF Looping, ScatterLoop
<1>5. NothingYet(mem)
  BY <1>1, <1>4, HasStatus DEF KnownToScatter
<1>6. Stage'
  BY <1>1, <1>3 DEF IInv, Stage, SaveSteps, KnownToScatter, ScatterLoop
<1>7. Linking' /\ Writing' /\ Bound'
  BY <1>1, <1>3 DEF IInv, Linking, Writing, Bound, LinkLoop, WriteSteps, EmitLoop, FixSteps,
                    ScatterLoop
<1> QED
  BY <1>1, <1>3, <1>5, <1>6, <1>7, SkipKeeps

\* sort skips a snapshot that is sorted or fixed.
LEMMA SkipSortKeeps ==
    ASSUME IInv, SkipSort
    PROVE  IInv'
<1>1. /\ pc.step = "sort" /\ mem.status[At] \in {"sorted", "fixed"} /\ Goto("unsorted")
      /\ UNCHANGED <<world, disk, man, mem, task, last, faults>>
  BY DEF SkipSort, Steps
<1>2. PcOK
  BY DEF IInv
<1>3. /\ PcOK' /\ pc'.step = "unsorted" /\ pc'.todo = pc.todo /\ At' = At
  BY <1>1, <1>2, GotoIs DEF PcOK, StepNames, Looping, SortLoop, ScatterLoop
<1>4. Stage'
  BY <1>1, <1>3 DEF IInv, Stage, SaveSteps, ScatterLoop
<1>5. Linking' /\ Writing' /\ Bound'
  BY <1>1, <1>3 DEF IInv, Linking, Writing, Bound, LinkLoop, WriteSteps, EmitLoop, FixSteps,
                    ScatterLoop
<1> QED
  BY <1>1, <1>3, <1>4, <1>5, SkipKeeps

\* fixups loads the forest table.
LEMMA LoadForestMaxKeeps ==
    ASSUME IInv, LoadForestMax
    PROVE  IInv'
<1>1. /\ pc.step = "tables" /\ Goto("fix")
      /\ UNCHANGED <<world, disk, man, mem, task, last, faults>>
  BY DEF LoadForestMax, Steps
<1>2. PcOK
  BY DEF IInv
<1>3. /\ PcOK' /\ pc'.step = "fix" /\ pc'.todo = pc.todo
  BY <1>1, <1>2, GotoIs DEF PcOK, StepNames, Looping, FixSteps, ScatterLoop
<1>4. Stage'
  BY <1>1, <1>3 DEF IInv, Stage, SaveSteps, ScatterLoop
<1>5. Linking' /\ Writing' /\ Bound'
  BY <1>1, <1>3 DEF IInv, Linking, Writing, Bound, LinkLoop, WriteSteps, EmitLoop, FixSteps,
                    ScatterLoop
<1> QED
  BY <1>1, <1>3, <1>4, <1>5, SkipKeeps

\* fixups skips a snapshot that is fixed.
LEMMA SkipFixKeeps ==
    ASSUME IInv, SkipFix
    PROVE  IInv'
<1>1. /\ pc.step = "fix" /\ NextSnapshot("fix", "done")
      /\ UNCHANGED <<world, disk, man, mem, task, last, faults>>
  BY DEF SkipFix, Steps
<1>2. PcOK
  BY DEF IInv
<1>3. /\ PcOK' /\ pc'.step \in {"fix", "done"}
  BY <1>1, <1>2, NextSnapshotIs
     DEF StepNames, Looping, FixSteps, ScatterLoop, SortLoop, LinkLoop, EmitLoop
<1>4. Stage'
  BY <1>1, <1>3 DEF IInv, Stage, SaveSteps, ScatterLoop
<1>5. Linking' /\ Writing' /\ Bound'
  BY <1>1, <1>3 DEF IInv, Linking, Writing, Bound, LinkLoop, WriteSteps, EmitLoop, FixSteps,
                    ScatterLoop
<1> QED
  BY <1>1, <1>3, <1>4, <1>5, SkipKeeps

\* links skips a snapshot that is linked.
LEMMA SkipLinksKeeps ==
    ASSUME IInv, SkipLinks
    PROVE  IInv'
<1>1. /\ pc.step = "link" /\ NextSnapshot("link", "done")
      /\ UNCHANGED <<world, disk, man, mem, task, last, faults>>
  BY DEF SkipLinks, Steps
<1>2. PcOK
  BY DEF IInv
<1>3. /\ PcOK' /\ pc'.step \in {"link", "done"} /\ pc'.todo \subseteq pc.todo
  BY <1>1, <1>2, NextSnapshotIs
     DEF StepNames, Looping, FixSteps, ScatterLoop, SortLoop, LinkLoop, EmitLoop
<1>4. Stage'
  BY <1>1, <1>3 DEF IInv, Stage, SaveSteps, ScatterLoop
<1>5. Linking'
  BY <1>1, <1>3 DEF IInv, Linking, LinkLoop, Verified, Entered
<1>6. Writing' /\ Bound'
  BY <1>1, <1>3 DEF IInv, Writing, Bound, WriteSteps, EmitLoop, FixSteps, ScatterLoop
<1> QED
  BY <1>1, <1>3, <1>4, <1>5, <1>6, SkipKeeps

\* write trusts an emitted snapshot.
LEMMA SkipOutputKeeps ==
    ASSUME IInv, SkipOutput
    PROVE  IInv'
<1>1. /\ pc.step = "emit" /\ NextSnapshot("emit", "sidecar")
      /\ UNCHANGED <<world, disk, man, mem, task, last, faults>>
  BY DEF SkipOutput, Steps
<1>2. PcOK
  BY DEF IInv
<1>3. /\ PcOK' /\ pc'.step \in {"emit", "sidecar"}
  BY <1>1, <1>2, NextSnapshotIs
     DEF StepNames, Looping, FixSteps, ScatterLoop, SortLoop, LinkLoop, EmitLoop, WriteSteps
<1>4. Stage'
  BY <1>1, <1>3 DEF IInv, Stage, SaveSteps, ScatterLoop
<1>5. Writing'
  BY <1>1, <1>3 DEF IInv, Writing, WriteSteps, EmitLoop, Entered
<1>6. Linking' /\ Bound'
  BY <1>1, <1>3 DEF IInv, Linking, Bound, LinkLoop, FixSteps, ScatterLoop
<1> QED
  BY <1>1, <1>3, <1>4, <1>5, <1>6, SkipKeeps

\* write trusts the emitted sidecar.
LEMMA SkipSidecarKeeps ==
    ASSUME IInv, SkipSidecar
    PROVE  IInv'
<1>1. /\ pc.step = "sidecar" /\ Goto("save_write")
      /\ UNCHANGED <<world, disk, man, mem, task, last, faults>>
  BY DEF SkipSidecar, Steps
<1>2. PcOK
  BY DEF IInv
<1>3. /\ PcOK' /\ pc'.step = "save_write"
  BY <1>1, <1>2, GotoIs
     DEF StepNames, Looping, FixSteps, ScatterLoop, SortLoop, LinkLoop, EmitLoop, WriteSteps
<1>4. Stage'
  BY <1>1, <1>3 DEF IInv, Stage, SaveSteps, ScatterLoop
<1>5. Writing'
  BY <1>1, <1>3 DEF IInv, Writing, WriteSteps, EmitLoop, Entered
<1>6. Linking' /\ Bound'
  BY <1>1, <1>3 DEF IInv, Linking, Bound, LinkLoop, FixSteps, ScatterLoop
<1> QED
  BY <1>1, <1>3, <1>4, <1>5, <1>6, SkipKeeps

\* A save changes nothing but what is on the disk.
LEMMA SavesAre ==
    ASSUME IInv, Save
    PROVE  /\ man' \in Manifests /\ mem' = man'
           /\ man'.done = mem.done /\ man'.bound = mem.bound /\ man'.owned = mem.owned
           /\ man'.output = mem.output /\ man'.status = mem.status
BY SaveIs DEF IInv, Types, TypeOK

\* The save after a snapshot was concatenated.
LEMMA SaveConcatKeeps ==
    ASSUME IInv, SaveConcat
    PROVE  IInv'
<1>1. /\ pc.step = "save_concat" /\ Goto("cleanup") /\ Save
      /\ UNCHANGED <<world, disk, task, last, faults>>
  BY DEF SaveConcat, Steps
<1>2. PcOK
  BY DEF IInv
<1>3. /\ PcOK' /\ pc'.step = "cleanup" /\ pc'.todo = pc.todo /\ At' = At
  BY <1>1, <1>2, GotoIs
     DEF PcOK, StepNames, Looping, FixSteps, ScatterLoop, SortLoop, LinkLoop, EmitLoop, WriteSteps
<1>4. /\ man' \in Manifests /\ mem' = man'
      /\ man'.done = mem.done /\ man'.bound = mem.bound /\ man'.owned = mem.owned
      /\ man'.output = mem.output /\ man'.status = mem.status
  BY <1>1, SavesAre
<1>5. Stage'
  BY <1>1, <1>3, <1>4 DEF IInv, Stage, SaveSteps, ScatterLoop, KnownToScatter
<1>6. Linking'
  BY <1>1, <1>3, <1>4, StatusIs DEF IInv, Linking, LinkLoop, Verified
<1>7. Writing' /\ Bound'
  BY <1>1, <1>3, <1>4 DEF IInv, Writing, Bound, WriteSteps, EmitLoop, FixSteps, ScatterLoop
<1> QED
  BY <1>1, <1>3, <1>4, <1>5, <1>6, <1>7, SaveKeeps

\* The save after its worker files were removed.
LEMMA SaveCleanupKeeps ==
    ASSUME IInv, SaveCleanup
    PROVE  IInv'
<1>1. /\ pc.step = "cleanup" /\ NextSnapshot("concat", "done") /\ Save
      /\ UNCHANGED <<world, disk, task, last, faults>>
  BY DEF SaveCleanup, Steps
<1>2. PcOK
  BY DEF IInv
<1>3. /\ PcOK' /\ pc'.step \in {"concat", "done"} /\ pc'.todo = pc.todo \ {At}
  BY <1>1, <1>2, NextSnapshotIs
     DEF PcOK, StepNames, Looping, FixSteps, ScatterLoop, SortLoop, LinkLoop, EmitLoop, WriteSteps
<1>4. /\ man' \in Manifests /\ mem' = man'
      /\ man'.done = mem.done /\ man'.bound = mem.bound /\ man'.owned = mem.owned
      /\ man'.output = mem.output /\ man'.status = mem.status
  BY <1>1, SavesAre
<1>5. Stage'
  BY <1>1, <1>3, <1>4 DEF IInv, Stage, SaveSteps, ScatterLoop, KnownToScatter
<1>6. Linking'
  BY <1>1, <1>3, <1>4, StatusIs DEF IInv, Linking, LinkLoop, Verified
<1>7. Writing' /\ Bound'
  BY <1>1, <1>3, <1>4 DEF IInv, Writing, Bound, WriteSteps, EmitLoop, FixSteps, ScatterLoop
<1> QED
  BY <1>1, <1>3, <1>4, <1>5, <1>6, <1>7, SaveKeeps

\* The save after a snapshot was sorted.
LEMMA SaveSortKeeps ==
    ASSUME IInv, SaveSort
    PROVE  IInv'
<1>1. /\ pc.step = "save_sort" /\ Goto("unsorted") /\ Save
      /\ UNCHANGED <<world, disk, task, last, faults>>
  BY DEF SaveSort, Steps
<1>2. PcOK
  BY DEF IInv
<1>3. /\ PcOK' /\ pc'.step = "unsorted" /\ pc'.todo = pc.todo /\ At' = At
  BY <1>1, <1>2, GotoIs
     DEF PcOK, StepNames, Looping, FixSteps, ScatterLoop, SortLoop, LinkLoop, EmitLoop, WriteSteps
<1>4. /\ man' \in Manifests /\ mem' = man'
      /\ man'.done = mem.done /\ man'.bound = mem.bound /\ man'.owned = mem.owned
      /\ man'.output = mem.output /\ man'.status = mem.status
  BY <1>1, SavesAre
<1>5. Stage'
  BY <1>1, <1>3, <1>4 DEF IInv, Stage, SaveSteps, ScatterLoop, KnownToScatter
<1>6. Linking'
  BY <1>1, <1>3, <1>4, StatusIs DEF IInv, Linking, LinkLoop, Verified
<1>7. Writing' /\ Bound'
  BY <1>1, <1>3, <1>4 DEF IInv, Writing, Bound, WriteSteps, EmitLoop, FixSteps, ScatterLoop
<1> QED
  BY <1>1, <1>3, <1>4, <1>5, <1>6, <1>7, SaveKeeps

\* The save after the unsorted file was removed.
LEMMA SaveUnsortedKeeps ==
    ASSUME IInv, SaveUnsorted
    PROVE  IInv'
<1>1. /\ pc.step = "unsorted" /\ NextSnapshot("sort", "done") /\ Save
      /\ UNCHANGED <<world, disk, task, last, faults>>
  BY DEF SaveUnsorted, Steps
<1>2. PcOK
  BY DEF IInv
<1>3. /\ PcOK' /\ pc'.step \in {"sort", "done"} /\ pc'.todo = pc.todo \ {At}
  BY <1>1, <1>2, NextSnapshotIs
     DEF PcOK, StepNames, Looping, FixSteps, ScatterLoop, SortLoop, LinkLoop, EmitLoop, WriteSteps
<1>4. /\ man' \in Manifests /\ mem' = man'
      /\ man'.done = mem.done /\ man'.bound = mem.bound /\ man'.owned = mem.owned
      /\ man'.output = mem.output /\ man'.status = mem.status
  BY <1>1, SavesAre
<1>5. Stage'
  BY <1>1, <1>3, <1>4 DEF IInv, Stage, SaveSteps, ScatterLoop, KnownToScatter
<1>6. Linking'
  BY <1>1, <1>3, <1>4, StatusIs DEF IInv, Linking, LinkLoop, Verified
<1>7. Writing' /\ Bound'
  BY <1>1, <1>3, <1>4 DEF IInv, Writing, Bound, WriteSteps, EmitLoop, FixSteps, ScatterLoop
<1> QED
  BY <1>1, <1>3, <1>4, <1>5, <1>6, <1>7, SaveKeeps

\* The save of the particle mass.
LEMMA BindSimulationInfoKeeps ==
    ASSUME IInv, BindSimulationInfo
    PROVE  IInv'
<1>1. /\ pc.step = "bind" /\ Goto("tables") /\ Save
      /\ UNCHANGED <<world, disk, task, last, faults>>
  BY DEF BindSimulationInfo, Steps
<1>2. PcOK
  BY DEF IInv
<1>3. /\ PcOK' /\ pc'.step = "tables" /\ pc'.todo = pc.todo /\ At' = At
  BY <1>1, <1>2, GotoIs
     DEF PcOK, StepNames, Looping, FixSteps, ScatterLoop, SortLoop, LinkLoop, EmitLoop, WriteSteps
<1>4. /\ man' \in Manifests /\ mem' = man'
      /\ man'.done = mem.done /\ man'.bound = mem.bound /\ man'.owned = mem.owned
      /\ man'.output = mem.output /\ man'.status = mem.status
  BY <1>1, SavesAre
<1>5. Stage'
  BY <1>1, <1>3, <1>4 DEF IInv, Stage, SaveSteps, ScatterLoop, KnownToScatter
<1>6. Linking'
  BY <1>1, <1>3, <1>4, StatusIs DEF IInv, Linking, LinkLoop, Verified
<1>7. Writing' /\ Bound'
  BY <1>1, <1>3, <1>4 DEF IInv, Writing, Bound, WriteSteps, EmitLoop, FixSteps, ScatterLoop
<1> QED
  BY <1>1, <1>3, <1>4, <1>5, <1>6, <1>7, SaveKeeps

\* The save after a snapshot was fixed.
LEMMA SaveFixKeeps ==
    ASSUME IInv, SaveFix
    PROVE  IInv'
<1>1. /\ pc.step = "save_fix" /\ NextSnapshot("fix", "done") /\ Save
      /\ UNCHANGED <<world, disk, task, last, faults>>
  BY DEF SaveFix, Steps
<1>2. PcOK
  BY DEF IInv
<1>3. /\ PcOK' /\ pc'.step \in {"fix", "done"} /\ pc'.todo = pc.todo \ {At}
  BY <1>1, <1>2, NextSnapshotIs
     DEF PcOK, StepNames, Looping, FixSteps, ScatterLoop, SortLoop, LinkLoop, EmitLoop, WriteSteps
<1>4. /\ man' \in Manifests /\ mem' = man'
      /\ man'.done = mem.done /\ man'.bound = mem.bound /\ man'.owned = mem.owned
      /\ man'.output = mem.output /\ man'.status = mem.status
  BY <1>1, SavesAre
<1>5. Stage'
  BY <1>1, <1>3, <1>4 DEF IInv, Stage, SaveSteps, ScatterLoop, KnownToScatter
<1>6. Linking'
  BY <1>1, <1>3, <1>4, StatusIs DEF IInv, Linking, LinkLoop, Verified
<1>7. Writing' /\ Bound'
  BY <1>1, <1>3, <1>4 DEF IInv, Writing, Bound, WriteSteps, EmitLoop, FixSteps, ScatterLoop
<1> QED
  BY <1>1, <1>3, <1>4, <1>5, <1>6, <1>7, SaveKeeps

\* The save after a snapshot was linked.
LEMMA SaveLinksKeeps ==
    ASSUME IInv, SaveLinks
    PROVE  IInv'
<1>1. /\ pc.step = "save_link" /\ NextSnapshot("link", "done") /\ Save
      /\ UNCHANGED <<world, disk, task, last, faults>>
  BY DEF SaveLinks, Steps
<1>2. PcOK
  BY DEF IInv
<1>3. /\ PcOK' /\ pc'.step \in {"link", "done"} /\ pc'.todo = pc.todo \ {At}
  BY <1>1, <1>2, NextSnapshotIs
     DEF PcOK, StepNames, Looping, FixSteps, ScatterLoop, SortLoop, LinkLoop, EmitLoop, WriteSteps
<1>4. /\ man' \in Manifests /\ mem' = man'
      /\ man'.done = mem.done /\ man'.bound = mem.bound /\ man'.owned = mem.owned
      /\ man'.output = mem.output /\ man'.status = mem.status
  BY <1>1, SavesAre
<1>5. Stage'
  BY <1>1, <1>3, <1>4 DEF IInv, Stage, SaveSteps, ScatterLoop, KnownToScatter
<1>6. Linking'
  BY <1>1, <1>3, <1>4, StatusIs DEF IInv, Linking, LinkLoop, Verified
<1>7. Writing' /\ Bound'
  BY <1>1, <1>3, <1>4 DEF IInv, Writing, Bound, WriteSteps, EmitLoop, FixSteps, ScatterLoop
<1> QED
  BY <1>1, <1>3, <1>4, <1>5, <1>6, <1>7, SaveKeeps

\* The save of the outputs directory.
LEMMA SaveWriteKeeps ==
    ASSUME IInv, SaveWrite
    PROVE  IInv'
<1>1. /\ pc.step = "save_write" /\ Goto("done") /\ man' = mem'
      /\ mem' = [mem EXCEPT !.emitted = TRUE]
      /\ UNCHANGED <<world, disk, task, last, faults>>
  BY DEF SaveWrite, Steps
<1>2. PcOK /\ mem \in Manifests
  BY DEF IInv, Types, TypeOK
<1>3. /\ PcOK' /\ pc'.step = "done"
  BY <1>1, <1>2, GotoIs
     DEF StepNames, Looping, FixSteps, ScatterLoop, SortLoop, LinkLoop, EmitLoop, WriteSteps
<1>4. /\ man' \in Manifests /\ mem' = man'
      /\ man'.done = mem.done /\ man'.bound = mem.bound /\ man'.owned = mem.owned
      /\ man'.output = mem.output /\ man'.status = mem.status
  BY <1>1, <1>2 DEF Manifests
<1>5. Stage'
  BY <1>1, <1>3, <1>4 DEF IInv, Stage, SaveSteps, ScatterLoop
<1>6. Linking' /\ Writing' /\ Bound'
  BY <1>3 DEF Linking, Writing, Bound, LinkLoop, WriteSteps, EmitLoop, FixSteps, ScatterLoop
<1> QED
  BY <1>1, <1>3, <1>4, <1>5, <1>6, SaveKeeps

-----------------------------------------------------------------------------
(* Steps that write the file of a snapshot.                                 *)

\* Who relies on a file, by its kind.
LEMMA ReliedKinds ==
    ASSUME NEW m, NEW w, NEW s, NEW x, Relies(m, w, s, x)
    PROVE  /\ x[1] \in {"worker", "snap", "sorted", "idx", "fixed", "links", "pending"}
           /\ x[1] = "worker" => /\ m.status[s] = "none" /\ x[2] = s
                                 /\ x[3] \in PartsOf(s) /\ m.done[x[3]] = w[x[3]]
           /\ x[1] = "snap"   => m.status[s] = "concatenated" /\ x[2] = s
           /\ x[1] = "sorted" => m.status[s] \in {"sorted", "fixed"} /\ x[2] = s
           /\ x[1] = "idx"    => m.status[s] \in {"sorted", "fixed", "linked"} /\ x[2] = s
           /\ x[1] = "fixed"  => m.status[s] \in {"fixed", "linked"} /\ x[2] = s
           /\ x[1] = "links"  => m.status[s] = "linked" /\ x[2] = s
           /\ x[1] = "pending" => m.status[s] = "linked" /\ x[2] = s + 1
BY DEF Relies, Of, Worker

\* What is written is not relied on.
LEMMA IntactBeside ==
    ASSUME NEW m, NEW w, NEW d, NEW d2, Intact(m, w, d),
           \A s \in Snaps, x \in Files : Relies(m, w, s, x) => d2[x] = d[x]
    PROVE  Intact(m, w, d2)
BY IntactKept

\* A snapshot that the manifest has goes on to another stage.
LEMMA StageGoesOn ==
    ASSUME NEW m, NEW m2, NEW s \in Snaps, NEW st, Stages(m, s, st, m2),
           m.status[s] # "none", st \notin {"none", "linked"}, m2.done = m.done, Staged(m)
    PROVE  Staged(m2) /\ Entered(m2) = Entered(m)
<1>1. Entered(m2) = Entered(m) /\ s \in Entered(m)
  BY DEF Entered, Stages
<1>2. EnteredOK(m2) /\ DoneOK(m2)
  BY <1>1 DEF Staged, EnteredOK, DoneOK
<1>3. JoinedOK(m2)
  <2> SUFFICES ASSUME NEW t \in Joined, m2.status[t] = "linked"
               PROVE  t + 1 \in Entered(m2)
    BY DEF JoinedOK
  <2>1. t \in Snaps /\ m.status[t] = "linked"
    BY PipelineAssumption, Numbers DEF Stages
  <2> QED
    BY <1>1, <2>1 DEF Staged, JoinedOK
<1>4. ForestsOK(m2)
  BY <1>1 DEF ForestsOK, Stages
<1> QED
  BY <1>1, <1>2, <1>3, <1>4 DEF Staged

\* Opening the target: no resumed run needs what it overwrites.
LEMMA OpenTargetKeeps ==
    ASSUME IInv, OpenTarget
    PROVE  IInv'
<1>1. /\ pc.step = "concat" /\ ~KnownToScatter(At) /\ Goto("concat_parts")
      /\ disk' = Written(Just(Of("snap", At), Torn))
      /\ UNCHANGED <<world, man, mem, task, last, faults>>
  BY DEF OpenTarget, Steps
<1>2. /\ PcOK /\ man \in Manifests /\ mem \in Manifests
      /\ disk \in [Files -> Contents \cup {Gone}]
  BY DEF IInv, Types, TypeOK
<1>3. /\ PcOK' /\ pc'.step = "concat_parts" /\ pc'.todo = pc.todo /\ At' = At
  BY <1>1, <1>2, GotoIs DEF PcOK, StepNames, Looping, ScatterLoop
<1>4. At \in Snaps
  BY <1>1, <1>2, InHand DEF Looping, ScatterLoop
<1>5. Of("snap", At) \in Files /\ Of("snap", At)[1] = "snap" /\ Of("snap", At)[2] = At
  BY <1>4, OfIsFile DEF Kinds
<1>6. /\ disk' \in [Files -> Contents \cup {Gone}]
      /\ \A x \in Files \ {Of("snap", At)} : disk'[x] = disk[x]
  BY <1>1, <1>2, <1>5, JustWritten, BadIsContent
<1>7. mem.status = man.status
  BY <1>1 DEF IInv, Stage, SaveSteps
<1>8. ~tampered => Intact(man, world, disk') /\ Intact(mem, world, disk')
  <2>1. \A s \in Snaps, x \in Files : Relies(man, world, s, x) => disk'[x] = disk[x]
    BY <1>1, <1>5, <1>6, <1>7, ReliedKinds DEF KnownToScatter
  <2>2. \A s \in Snaps, x \in Files : Relies(mem, world, s, x) => disk'[x] = disk[x]
    BY <1>1, <1>5, <1>6, ReliedKinds DEF KnownToScatter
  <2>3. ~tampered => Intact(man, world, disk) /\ Intact(mem, world, disk)
    BY DEF IInv, Trusted
  <2>4. Intact(man, world, disk) => Intact(man, world, disk')
    BY <2>1, IntactBeside
  <2>5. Intact(mem, world, disk) => Intact(mem, world, disk')
    BY <2>2, IntactBeside
  <2> QED
    BY <2>3, <2>4, <2>5
<1>9. Stage'
  BY <1>1, <1>3 DEF IInv, Stage, SaveSteps, ScatterLoop, KnownToScatter
<1>10. Linking' /\ Writing' /\ Bound'
  BY <1>1, <1>3 DEF IInv, Linking, Writing, Bound, LinkLoop, WriteSteps, EmitLoop, FixSteps,
                    ScatterLoop
<1>11. /\ mem.done = man.done /\ Sound(man) /\ NothingYet(man) /\ Sound(mem)
  BY DEF IInv, Pool, Saved
<1> QED
  BY <1>1, <1>2, <1>3, <1>6, <1>8, <1>9, <1>10, <1>11, WorkKeeps

\* The rows of all sources, each once.
LEMMA ConcatenatedIsGood ==
    ASSUME NEW m \in Manifests, NEW s \in Snaps, NEW d,
           \A f \in PartsOf(s) : ContentOK(m, Worker(s, f), d[Worker(s, f)])
    PROVE  ContentOK(m, Of("snap", s), UNION {d[x] : x \in WorkersOf(s)})
<1> DEFINE c == UNION {d[x] : x \in WorkersOf(s)}
<1>1. \A r : r \in c <=> \E f \in PartsOf(s) : r \in d[Worker(s, f)]
  BY DEF WorkersOf
<1>2. ASSUME NEW f \in PartsOf(s)
      PROVE  /\ OneVersion(m, d[Worker(s, f)])
             /\ d[Worker(s, f)] = ScatteredFrom(m, f, s)
             /\ f \in Sources /\ s \in RowsAt[f]
  <2>1. f \in Sources /\ s \in RowsAt[f]
    BY DEF PartsOf
  <2> QED
    BY <2>1, WorkerIsFile DEF ContentOK
<1> HIDE DEF c
<1>3. OneVersion(m, c)
  <2>1. c \in Genuine
    BY <1>1, <1>2 DEF OneVersion, Genuine
  <2>2. \A r \in c : r[2] = VersionOf(m, r[1])
    BY <1>1, <1>2 DEF OneVersion
  <2> QED
    BY <2>1, <2>2 DEF OneVersion
<1>4. "forests_list" \notin Sources
  BY Numbers DEF Metadata
<1>5. ASSUME NEW r \in c, r[1] \in Sources
      PROVE  r \in AllRows(m, s) /\ r[3] \in RowsAt[r[1]]
  <2>1. PICK f \in PartsOf(s) : r \in ScatteredFrom(m, f, s)
    BY <1>1, <1>2
  <2>2. r = <<f, m.done[f], s>>
    BY <1>4, <1>5, <2>1 DEF ScatteredFrom
  <2> QED
    BY <1>2, <2>2 DEF AllRows
<1>6. ASSUME NEW r \in AllRows(m, s) PROVE r \in c /\ r[1] \in Sources
  <2>1. PICK f \in PartsOf(s) : r = <<f, m.done[f], s>>
    BY DEF AllRows
  <2>2. r \in d[Worker(s, f)] /\ f \in Sources
    BY <1>2, <2>1 DEF ScatteredFrom
  <2> QED
    BY <1>1, <2>1, <2>2
<1>7. {r \in c : r[1] \in Sources} = AllRows(m, s)
  BY <1>5, <1>6
<1>8. Placed(c)
  BY <1>5 DEF Placed
<1> QED
  BY <1>3, <1>7, <1>8, OfIsFile DEF ContentOK, Kinds, c

\* What every step may use.
LEMMA Basics ==
    ASSUME IInv
    PROVE  /\ PcOK /\ man \in Manifests /\ mem \in Manifests
           /\ disk \in [Files -> Contents \cup {Gone}]
           /\ mem.done = man.done /\ Sound(man) /\ NothingYet(man) /\ Sound(mem)
           /\ OwnedOK(mem) /\ OutputsOK(mem) /\ Staged(mem)
           /\ ~tampered => Intact(man, world, disk) /\ Intact(mem, world, disk)
BY SoundIs DEF IInv, Types, TypeOK, Pool, Saved, Trusted

\* A file that a step has verified is a good one.
LEMMA VerifiedHere ==
    ASSUME IInv, NEW x \in Files, Verified(x)
    PROVE  ContentOK(mem, x, disk[x]) /\ disk[x] \in Contents /\ disk[x] # Gone
<1>1. disk[x] # Gone /\ disk[x] = mem.owned[x]
  BY DEF Verified
<1>2. disk[x] \in Contents \cup {Gone}
  BY Basics
<1> QED
  BY <1>1, <1>2, Basics, VerifiedIsGood

\* The populated snapshots before the one in hand are known to the scatter.
LEMMA EnterNext ==
    ASSUME IInv, pc.step = "concat_parts", NEW m2,
           Stages(mem, At, "concatenated", m2), m2.done = mem.done
    PROVE  /\ Staged(m2)
           /\ \A s \in Entered(mem) : s + 1 = At => mem.status[s] # "linked"
           /\ \A s : s \in Entered(m2) <=> s \in Entered(mem) \/ s = At
<1>1. /\ At \in Snaps /\ At \in Nat /\ At \in pc.todo /\ \A n \in pc.todo : At <= n
      /\ pc.todo \subseteq Populated
  BY InHand, Basics DEF Looping, ScatterLoop, PcOK
<1>2. /\ \A t \in Populated \ pc.todo : KnownToScatter(t)
      /\ ~KnownToScatter(At) /\ \A f \in Sources : mem.done[f] # 0
  BY DEF IInv, Stage, Bound, ScatterLoop
<1>3. \A s : s \in Entered(m2) <=> s \in Entered(mem) \/ s = At
  BY <1>1 DEF Entered, Stages
<1>4. \A t \in Populated : t < At => t \notin pc.todo /\ t \in Nat
  BY <1>1, Numbers
<1>5. \A t \in Populated : t < At => KnownToScatter(t) /\ t \in Entered(mem)
  BY <1>2, <1>4, Numbers DEF KnownToScatter, Entered
<1>6. EnteredOK(mem) /\ JoinedOK(mem)
  BY Basics DEF Staged
<1>7. EnteredOK(m2)
  BY <1>1, <1>3, <1>5, <1>6 DEF EnteredOK
<1>8. ASSUME NEW s \in Entered(mem), s + 1 = At PROVE mem.status[s] # "linked"
  <2>1. s \in Populated /\ s \in Nat
    BY <1>6, Numbers, StatusIs DEF EnteredOK
  <2>2. s < At
    BY <1>1, <1>8, <2>1
  <2> QED
    BY <1>5, <2>1, <2>2 DEF KnownToScatter
<1>9. JoinedOK(m2)
  <2> SUFFICES ASSUME NEW s \in Joined, m2.status[s] = "linked"
               PROVE  s + 1 \in Entered(m2)
    BY DEF JoinedOK
  <2>1. s \in Snaps /\ mem.status[s] = "linked"
    BY PipelineAssumption, Numbers DEF Stages
  <2> QED
    BY <1>3, <1>6, <2>1 DEF JoinedOK
<1>10. ForestsOK(m2)
  BY <1>3 DEF ForestsOK, Stages
<1>11. DoneOK(m2)
  BY <1>2 DEF DoneOK
<1> QED
  BY <1>3, <1>7, <1>8, <1>9, <1>10, <1>11 DEF Staged

\* Concatenating a snapshot, the only way to enter one.
LEMMA ConcatenateKeeps ==
    ASSUME IInv, Concatenate
    PROVE  IInv'
<1> DEFINE x == Of("snap", At)
           c == UNION {disk[y] : y \in WorkersOf(At)}
<1>1. /\ pc.step = "concat_parts" /\ Goto("save_concat")
      /\ \A y \in WorkersOf(At) : Verified(y)
      /\ disk' = Written(Just(x, c))
      /\ mem' = [Register(mem, Just(x, c)) EXCEPT !.status[At] = "concatenated"]
      /\ UNCHANGED <<world, man, task, last, faults>>
  BY DEF Concatenate, Steps
<1>2. /\ PcOK' /\ pc'.step = "save_concat" /\ pc'.todo = pc.todo /\ At' = At
  BY <1>1, Basics, GotoIs DEF PcOK, StepNames, Looping, ScatterLoop
<1>3. At \in Snaps
  BY <1>1, Basics, InHand DEF Looping, ScatterLoop
<1>4. x \in Files /\ x[1] = "snap" /\ x[2] = At
  BY <1>3, OfIsFile DEF Kinds
<1>5. ContentOK(mem, x, c)
  <2>1. ASSUME NEW f \in PartsOf(At)
        PROVE  ContentOK(mem, Worker(At, f), disk[Worker(At, f)])
    <3>1. Worker(At, f) \in Files
      BY <1>3, WorkerIsFile DEF PartsOf
    <3>2. Verified(Worker(At, f))
      BY <1>1 DEF WorkersOf
    <3> QED
      BY <3>1, <3>2, VerifiedHere
  <2> QED
    BY <1>3, <2>1, Basics, ConcatenatedIsGood
<1>6. c \in Contents /\ c # Gone
  BY <1>5, GenuineIsContent DEF ContentOK, OneVersion
<1> HIDE DEF x, c
<1>7. /\ disk' \in [Files -> Contents \cup {Gone}] /\ disk'[x] = c
      /\ \A y \in Files \ {x} : disk'[y] = disk[y]
  BY <1>1, <1>4, <1>6, Basics, JustWritten
<1>8. PICK new : new = Just(x, c)
  OBVIOUS
<1>9. DOMAIN new = {x} /\ new[x] = c
  BY <1>8, JustIs
<1>10. Registers(mem, new, mem') /\ Stages(mem, At, "concatenated", mem')
  <2>1. mem' = [Register(mem, new) EXCEPT !.status[At] = "concatenated"]
    BY <1>1, <1>8
  <2>2. "concatenated" \in Status
    BY StatusIs
  <2>3. DOMAIN new \in SUBSET Files /\ \A y \in DOMAIN new : new[y] \in Contents \cup {Removed}
    BY <1>4, <1>6, <1>9
  <2> QED
    BY <1>3, <2>1, <2>2, <2>3, Basics, RegisterAndStage
<1>11. /\ mem' \in Manifests /\ mem'.done = mem.done /\ mem'.bound = mem.bound
       /\ mem'.output = mem.output
  BY <1>10 DEF Registers
<1>12. /\ Staged(mem')
       /\ \A s \in Entered(mem) : s + 1 = At => mem.status[s] # "linked"
       /\ \A s : s \in Entered(mem') <=> s \in Entered(mem) \/ s = At
  BY <1>1, <1>10, <1>11, EnterNext
<1>13. Sound(mem') /\ NothingYet(mem')
  <2>1. OwnedOK(mem')
    BY <1>5, <1>9, <1>10, Basics, RegisteringIsGood
  <2>2. OutputsOK(mem')
    BY <1>11, Basics, SameOutputs
  <2>3. NothingYet(mem')
    BY <1>12 DEF NothingYet
  <2> QED
    BY <1>12, <2>1, <2>2, <2>3, SoundIs
<1>14. mem.status = man.status /\ ~KnownToScatter(At)
  BY <1>1 DEF IInv, Stage, SaveSteps
<1>15. Intact(man, world, disk) => Intact(man, world, disk')
  <2>1. \A s \in Snaps, y \in Files : Relies(man, world, s, y) => disk'[y] = disk[y]
    BY <1>4, <1>7, <1>14, ReliedKinds DEF KnownToScatter
  <2> QED
    BY <2>1, IntactBeside
<1>16. Intact(mem, world, disk) => Intact(mem', world, disk')
  <2>1. ASSUME NEW s \in Snaps, NEW y \in Files \ DOMAIN new, Relies(mem', world, s, y)
        PROVE  Relies(mem, world, s, y)
    <3>1. s # At
      <4> SUFFICES ASSUME s = At PROVE FALSE
        OBVIOUS
      <4>1. mem'.status[s] = "concatenated"
        BY <1>10 DEF Stages
      <4> QED
        BY <1>9, <2>1, <4>1 DEF Relies, x
    <3>2. mem'.status[s] = mem.status[s]
      BY <1>10, <3>1 DEF Stages
    <3>3. mem.status[s] = "linked" => (s + 1 \in Entered(mem') => s + 1 \in Entered(mem))
      BY <1>12 DEF Entered
    <3> QED
      BY <1>11, <2>1, <3>2, <3>3 DEF Relies
  <2>2. \A y \in DOMAIN new : disk'[y] = new[y] /\ new[y] # Gone
    BY <1>6, <1>7, <1>9
  <2>3. \A y \in Files \ DOMAIN new : disk'[y] = disk[y]
    BY <1>7, <1>9
  <2> QED
    BY <1>10, <2>1, <2>2, <2>3, IntactRegistered
<1>17. Stage'
  <2>1. \A s \in Populated \ pc'.todo : KnownToScatter(s)'
    <3> SUFFICES ASSUME NEW s \in Populated \ pc.todo PROVE KnownToScatter(s)'
      BY <1>2
    <3>1. s # At /\ s \in Snaps
      BY <1>1, Basics, InHand, Numbers DEF Looping, ScatterLoop
    <3>2. KnownToScatter(s)
      BY <1>1 DEF IInv, Stage, ScatterLoop
    <3> QED
      BY <1>10, <3>1, <3>2 DEF Stages, KnownToScatter
  <2>2. mem'.status[At'] = "concatenated"
    BY <1>2, <1>10 DEF Stages
  <2> QED
    BY <1>2, <2>1, <2>2 DEF Stage, SaveSteps, ScatterLoop
<1>18. Linking' /\ Writing' /\ Bound'
  BY <1>1, <1>2, <1>11 DEF IInv, Linking, Writing, Bound, LinkLoop, WriteSteps, EmitLoop,
                           FixSteps, ScatterLoop
<1> QED
  BY <1>1, <1>2, <1>7, <1>11, <1>13, <1>15, <1>16, <1>17, <1>18, Basics, WorkKeeps

-----------------------------------------------------------------------------
(* Steps that remove a file which a later stage has made dispensable.       *)

\* The part that the two steps have in common.
LEMMA RemovalKeeps ==
    ASSUME IInv, NEW x \in Files, disk' = Written(Just(x, Gone)),
           mem' = Register(mem, Just(x, Removed)),
           UNCHANGED <<world, man, pc, task, last, faults>>,
           pc.step \in {"cleanup", "unsorted"},
           \A s \in Snaps : ~Relies(man, world, s, x),
           \A s \in Snaps : ~Relies(mem, world, s, x),
           mem.status[At] # "none"
    PROVE  IInv'
<1>1. /\ disk' \in [Files -> Contents \cup {Gone}]
      /\ \A y \in Files \ {x} : disk'[y] = disk[y]
  BY Basics, JustWritten
<1>2. PICK new : new = Just(x, Removed)
  OBVIOUS
<1>3. DOMAIN new = {x} /\ new[x] = Removed
  BY <1>2, JustIs
<1>4. Registers(mem, new, mem') /\ mem'.status = mem.status
  <2>1. DOMAIN new \in SUBSET Files /\ \A y \in DOMAIN new : new[y] \in Contents \cup {Removed}
    BY <1>3
  <2> QED
    BY <1>2, <2>1, Basics, RegisterIs
<1>5. /\ mem' \in Manifests /\ mem'.done = mem.done /\ mem'.bound = mem.bound
      /\ mem'.output = mem.output
  BY <1>4 DEF Registers
<1>6. At \in Snaps
  BY Basics, InHand DEF Looping, ScatterLoop, SortLoop
<1>7. Sound(mem') /\ NothingYet(mem')
  <2>1. OwnedOK(mem')
    BY <1>3, <1>4, Basics, RegisteringIsGood
  <2>2. OutputsOK(mem') /\ Staged(mem')
    BY <1>4, <1>5, Basics, SameOutputs, SameStaged
  <2>3. NothingYet(mem')
    BY <1>4, <1>6, HasStatus
  <2> QED
    BY <2>1, <2>2, <2>3, SoundIs
<1>8. Intact(man, world, disk) => Intact(man, world, disk')
  <2>1. \A s \in Snaps, y \in Files : Relies(man, world, s, y) => disk'[y] = disk[y]
    BY <1>1
  <2> QED
    BY <2>1, IntactBeside
<1>9. Intact(mem, world, disk) => Intact(mem', world, disk')
  <2>1. \A s \in Snaps, y \in Files :
            Relies(mem, world, s, y) => disk'[y] = disk[y] /\ mem'.owned[y] = mem.owned[y]
    BY <1>1, <1>3, <1>4 DEF Registers
  <2> QED
    BY <1>4, <1>5, <2>1, IntactKept
<1>10. PcOK' /\ pc'.step = pc.step /\ pc'.todo = pc.todo /\ At' = At
  BY Basics DEF PcOK, At
<1>11. Stage'
  BY <1>4, <1>10 DEF IInv, Stage, SaveSteps, ScatterLoop, KnownToScatter
<1>12. Linking' /\ Writing' /\ Bound'
  BY <1>5, <1>10 DEF IInv, Linking, Writing, Bound, LinkLoop, WriteSteps, EmitLoop, FixSteps,
                     ScatterLoop
<1> QED
  BY <1>1, <1>5, <1>7, <1>8, <1>9, <1>10, <1>11, <1>12, Basics, WorkKeeps

\* A worker file goes when its snapshot is saved.
LEMMA RemoveWorkerKeeps ==
    ASSUME IInv, RemoveWorker
    PROVE  IInv'
<1>1. PICK x \in WorkersOf(At) :
          disk' = Written(Just(x, Gone)) /\ mem' = Register(mem, Just(x, Removed))
  BY DEF RemoveWorker, Leftover
<1>2. pc.step = "cleanup" /\ UNCHANGED <<world, man, pc, task, last, faults>>
  BY DEF RemoveWorker, Steps
<1>3. At \in Snaps
  BY <1>2, Basics, InHand DEF Looping, ScatterLoop
<1>4. x \in Files /\ x[1] = "worker" /\ x[2] = At
  BY <1>1, <1>3, WorkerIsFile DEF WorkersOf, PartsOf
<1>5. KnownToScatter(At) /\ mem.status = man.status
  BY <1>2 DEF IInv, Stage, SaveSteps
<1>6. /\ \A s \in Snaps : ~Relies(man, world, s, x)
      /\ \A s \in Snaps : ~Relies(mem, world, s, x)
  BY <1>4, <1>5, ReliedKinds DEF KnownToScatter
<1>7. mem.status[At] # "none"
  BY <1>5 DEF KnownToScatter
<1> QED
  BY <1>1, <1>2, <1>4, <1>6, <1>7, RemovalKeeps

\* The unsorted file goes when the sorted one is saved.
LEMMA RemoveUnsortedKeeps ==
    ASSUME IInv, RemoveUnsorted
    PROVE  IInv'
<1>1. PICK x : x = Of("snap", At)
  OBVIOUS
<1>2. /\ pc.step = "unsorted" /\ UNCHANGED <<world, man, pc, task, last, faults>>
      /\ disk' = Written(Just(x, Gone)) /\ mem' = Register(mem, Just(x, Removed))
  BY <1>1 DEF RemoveUnsorted, Steps
<1>3. At \in Snaps
  BY <1>2, Basics, InHand DEF Looping, SortLoop
<1>4. x \in Files /\ x[1] = "snap" /\ x[2] = At
  BY <1>1, <1>3, OfIsFile DEF Kinds
<1>5. mem.status[At] \in {"sorted", "fixed"} /\ mem.status = man.status
  BY <1>2 DEF IInv, Stage, SaveSteps
<1>6. /\ \A s \in Snaps : ~Relies(man, world, s, x)
      /\ \A s \in Snaps : ~Relies(mem, world, s, x)
  BY <1>4, <1>5, ReliedKinds
<1> QED
  BY <1>2, <1>4, <1>5, <1>6, RemovalKeeps

-----------------------------------------------------------------------------
(* sort and fixups                                                          *)

\* Sorting and indexing keep the rows.
LEMMA SortedIsGood ==
    ASSUME NEW m, NEW s \in Snaps, NEW c, ContentOK(m, Of("snap", s), c),
           NEW kind \in {"sorted", "idx"}
    PROVE  ContentOK(m, Of(kind, s), c)
<1>1. OneVersion(m, c) /\ Placed(c) /\ {r \in c : r[1] \in Sources} = AllRows(m, s)
  BY OfIsFile DEF ContentOK, Kinds
<1> QED
  BY <1>1, OfIsFile DEF ContentOK, Kinds

\* What a stage of a snapshot writes and registers.
LEMMA StageIs ==
    ASSUME IInv, NEW new, NEW st \in Status, DOMAIN new \in SUBSET Files, At \in Snaps,
           disk' = Written(new), mem' = [Register(mem, new) EXCEPT !.status[At] = st],
           \A y \in DOMAIN new : ContentOK(mem, y, new[y])
    PROVE  /\ \A y \in DOMAIN new : new[y] # Gone
           /\ disk' \in [Files -> Contents \cup {Gone}]
           /\ \A y \in DOMAIN new : disk'[y] = new[y]
           /\ \A y \in Files \ DOMAIN new : disk'[y] = disk[y]
           /\ Registers(mem, new, mem') /\ Stages(mem, At, st, mem')
           /\ mem' \in Manifests /\ mem'.done = mem.done /\ mem'.bound = mem.bound
           /\ mem'.output = mem.output
<1>1. \A y \in DOMAIN new : new[y] \in Contents /\ new[y] # Gone
  BY GenuineIsContent DEF ContentOK, OneVersion
<1>2. /\ disk' \in [Files -> Contents \cup {Gone}]
      /\ \A y \in DOMAIN new : disk'[y] = new[y]
      /\ \A y \in Files \ DOMAIN new : disk'[y] = disk[y]
  <2>1. \A y \in DOMAIN new : new[y] \in Contents \cup {Gone}
    BY <1>1
  <2> QED
    BY <2>1, Basics, WrittenIs
<1>3. Registers(mem, new, mem') /\ Stages(mem, At, st, mem')
  <2>1. \A y \in DOMAIN new : new[y] \in Contents \cup {Removed}
    BY <1>1
  <2> QED
    BY <2>1, Basics, RegisterAndStage
<1> QED
  BY <1>1, <1>2, <1>3 DEF Registers

\* A stage of a snapshot whose new files nothing relied on before.
LEMMA StageKeeps ==
    ASSUME IInv, NEW new, NEW st \in Status, DOMAIN new \in SUBSET Files, At \in Snaps,
           disk' = Written(new), mem' = [Register(mem, new) EXCEPT !.status[At] = st],
           \A y \in DOMAIN new : ContentOK(mem, y, new[y]),
           st # "none", Staged(mem'), UNCHANGED <<world, man, task, last, faults>>,
           \A s \in Snaps, y \in Files : Relies(man, world, s, y) => y \notin DOMAIN new,
           \A s \in Snaps, y \in Files \ DOMAIN new :
               Relies(mem', world, s, y) => Relies(mem, world, s, y),
           pc.step # "idle", pc'.step # "pool", PcOK', Stage', Linking', Writing', Bound'
    PROVE  IInv'
<1>1. /\ \A y \in DOMAIN new : new[y] # Gone
      /\ disk' \in [Files -> Contents \cup {Gone}]
      /\ \A y \in DOMAIN new : disk'[y] = new[y]
      /\ \A y \in Files \ DOMAIN new : disk'[y] = disk[y]
      /\ Registers(mem, new, mem') /\ Stages(mem, At, st, mem')
      /\ mem' \in Manifests /\ mem'.done = mem.done /\ mem'.bound = mem.bound
      /\ mem'.output = mem.output
  BY StageIs
<1>2. Sound(mem') /\ NothingYet(mem')
  <2>1. OwnedOK(mem')
    BY <1>1, Basics, RegisteringIsGood
  <2>2. OutputsOK(mem')
    BY <1>1, Basics, SameOutputs
  <2>3. NothingYet(mem')
    BY <1>1, HasStatus DEF Stages
  <2> QED
    BY <2>1, <2>2, <2>3, SoundIs
<1>3. Intact(man, world, disk) => Intact(man, world, disk')
  <2>1. \A s \in Snaps, y \in Files : Relies(man, world, s, y) => disk'[y] = disk[y]
    BY <1>1
  <2> QED
    BY <2>1, IntactBeside
<1>4. Intact(mem, world, disk) => Intact(mem', world, disk')
  BY <1>1, IntactRegistered
<1> QED
  BY <1>1, <1>2, <1>3, <1>4, Basics, WorkKeeps

\* Sorting a snapshot.
LEMMA SortSnapshotKeeps ==
    ASSUME IInv, SortSnapshot
    PROVE  IInv'
<1>1. /\ pc.step = "sort" /\ mem.status[At] = "concatenated" /\ Verified(Of("snap", At))
      /\ Goto("save_sort") /\ UNCHANGED <<world, man, task, last, faults>>
  BY DEF SortSnapshot, Steps
<1>2. PICK new : /\ new = [x \in {Of("sorted", At), Of("idx", At)} |-> disk[Of("snap", At)]]
                 /\ disk' = Written(new)
                 /\ mem' = [Register(mem, new) EXCEPT !.status[At] = "sorted"]
  BY DEF SortSnapshot
<1>3. /\ PcOK' /\ pc'.step = "save_sort" /\ pc'.todo = pc.todo /\ At' = At
  BY <1>1, Basics, GotoIs DEF PcOK, StepNames, Looping, SortLoop, ScatterLoop
<1>4. At \in Snaps /\ At \in Nat
  BY <1>1, Basics, InHand DEF Looping, SortLoop
<1>5. /\ DOMAIN new = {Of("sorted", At), Of("idx", At)} /\ DOMAIN new \in SUBSET Files
      /\ \A y \in DOMAIN new : new[y] = disk[Of("snap", At)]
      /\ \A y \in DOMAIN new : y[1] \in {"sorted", "idx"} /\ y[2] = At
  BY <1>2, <1>4, OfIsFile DEF Kinds
<1>6. \A y \in DOMAIN new : ContentOK(mem, y, new[y])
  <2>1. ContentOK(mem, Of("snap", At), disk[Of("snap", At)])
    BY <1>1, <1>4, OfIsFile, VerifiedHere DEF Kinds
  <2> QED
    BY <1>4, <1>5, <2>1, SortedIsGood
<1>7. "sorted" \in Status
  BY StatusIs
<1>8. /\ Stages(mem, At, "sorted", mem') /\ mem'.done = mem.done /\ mem'.bound = mem.bound
  BY <1>2, <1>4, <1>5, <1>6, <1>7, StageIs
<1>9. Staged(mem') /\ Entered(mem') = Entered(mem)
  BY <1>1, <1>4, <1>8, Basics, StageGoesOn
<1>10. mem.status = man.status
  BY <1>1 DEF IInv, Stage, SaveSteps
<1>11. \A s \in Snaps, y \in Files : Relies(man, world, s, y) => y \notin DOMAIN new
  BY <1>1, <1>5, <1>10, ReliedKinds
<1>12. ASSUME NEW s \in Snaps, NEW y \in Files \ DOMAIN new, Relies(mem', world, s, y)
       PROVE  Relies(mem, world, s, y)
  <2>1. s # At
    BY <1>5, <1>8, <1>12 DEF Relies, Stages
  <2>2. mem'.status[s] = mem.status[s]
    BY <1>8, <2>1 DEF Stages
  <2> QED
    BY <1>8, <1>9, <1>12, <2>2 DEF Relies
<1>13. Stage'
  BY <1>3, <1>8 DEF Stage, SaveSteps, ScatterLoop, Stages
<1>14. Linking' /\ Writing' /\ Bound'
  BY <1>3 DEF Linking, Writing, Bound, LinkLoop, WriteSteps, EmitLoop, FixSteps, ScatterLoop
<1> QED
  BY <1>1, <1>2, <1>3, <1>4, <1>5, <1>6, <1>7, <1>9, <1>11, <1>12, <1>13, <1>14, StageKeeps

\* Fixing adds the metadata to the rows.
LEMMA FixedIsGood ==
    ASSUME NEW m \in Manifests, NEW s \in Snaps, NEW c, ContentOK(m, Of("sorted", s), c),
           \A i \in {"a_list", "simulation_info"} : m.bound[i] # 0
    PROVE  ContentOK(m, Of("fixed", s),
                     c \cup {<<i, m.bound[i], 0>> : i \in {"a_list", "simulation_info"}})
<1> DEFINE e == {<<i, m.bound[i], 0>> : i \in {"a_list", "simulation_info"}}
<1>1. OneVersion(m, c) /\ Placed(c) /\ {r \in c : r[1] \in Sources} = AllRows(m, s)
  BY OfIsFile DEF ContentOK, Kinds
<1>2. ASSUME NEW r \in e
      PROVE  /\ r \in Inputs \X Versions \X Snaps
             /\ r[2] = VersionOf(m, r[1]) /\ r[1] \notin Sources
  <2>1. PICK i \in {"a_list", "simulation_info"} : r = <<i, m.bound[i], 0>>
    OBVIOUS
  <2>2. i \in Metadata /\ i \notin Sources /\ i \in Inputs
    BY Numbers DEF Metadata, Inputs
  <2>3. m.bound[i] \in Versions
    BY <2>2, MemType
  <2> QED
    BY <2>1, <2>2, <2>3, Numbers DEF VersionOf
<1> HIDE DEF e
<1>3. OneVersion(m, c \cup e)
  <2>1. c \cup e \in Genuine
    BY <1>1, <1>2 DEF OneVersion, Genuine
  <2>2. \A r \in c \cup e : r[2] = VersionOf(m, r[1])
    BY <1>1, <1>2 DEF OneVersion
  <2> QED
    BY <2>1, <2>2 DEF OneVersion
<1>4. Placed(c \cup e)
  BY <1>1, <1>2 DEF Placed
<1>5. {r \in c \cup e : r[1] \in Sources} = AllRows(m, s)
  BY <1>1, <1>2
<1>6. ContentOK(m, Of("fixed", s), c \cup e)
  BY <1>3, <1>4, <1>5, OfIsFile DEF ContentOK, Kinds
<1> QED
  BY <1>6 DEF e

\* Fixing a snapshot.
LEMMA FixSnapshotKeeps ==
    ASSUME IInv, FixSnapshot
    PROVE  IInv'
<1> DEFINE c == disk[Of("sorted", At)]
                \cup {<<i, mem.bound[i], 0>> : i \in {"a_list", "simulation_info"}}
<1>1. /\ pc.step = "fix" /\ mem.status[At] = "sorted" /\ Verified(Of("sorted", At))
      /\ Goto("save_fix") /\ UNCHANGED <<world, man, task, last, faults>>
  BY DEF FixSnapshot, Steps
<1>2. PICK new : /\ new = Just(Of("fixed", At), c)
                 /\ disk' = Written(new)
                 /\ mem' = [Register(mem, new) EXCEPT !.status[At] = "fixed"]
  BY DEF FixSnapshot
<1>3. /\ PcOK' /\ pc'.step = "save_fix" /\ pc'.todo = pc.todo /\ At' = At
  BY <1>1, Basics, GotoIs DEF PcOK, StepNames, Looping, FixSteps, ScatterLoop
<1>4. At \in Snaps /\ At \in Nat
  BY <1>1, Basics, InHand DEF Looping, FixSteps
<1>5. ContentOK(mem, Of("fixed", At), c)
  <2>1. ContentOK(mem, Of("sorted", At), disk[Of("sorted", At)])
    BY <1>1, <1>4, OfIsFile, VerifiedHere DEF Kinds
  <2>2. \A i \in {"a_list", "simulation_info"} : mem.bound[i] # 0
    BY <1>1 DEF IInv, Bound, FixSteps
  <2> QED
    BY <1>4, <2>1, <2>2, Basics, FixedIsGood
<1> HIDE DEF c
<1>6. /\ DOMAIN new = {Of("fixed", At)} /\ DOMAIN new \in SUBSET Files
      /\ \A y \in DOMAIN new : ContentOK(mem, y, new[y])
      /\ \A y \in DOMAIN new : y[1] = "fixed" /\ y[2] = At
  <2>1. DOMAIN new = {Of("fixed", At)} /\ new[Of("fixed", At)] = c
    BY <1>2, JustIs
  <2>2. /\ Of("fixed", At) \in Files /\ Of("fixed", At)[1] = "fixed"
        /\ Of("fixed", At)[2] = At
    BY <1>4, OfIsFile DEF Kinds
  <2> QED
    BY <1>5, <2>1, <2>2
<1>7. "fixed" \in Status
  BY StatusIs
<1>8. /\ Stages(mem, At, "fixed", mem') /\ mem'.done = mem.done /\ mem'.bound = mem.bound
  BY <1>2, <1>4, <1>6, <1>7, StageIs
<1>9. Staged(mem') /\ Entered(mem') = Entered(mem)
  BY <1>1, <1>4, <1>8, Basics, StageGoesOn
<1>10. mem.status = man.status
  BY <1>1 DEF IInv, Stage, SaveSteps
<1>11. \A s \in Snaps, y \in Files : Relies(man, world, s, y) => y \notin DOMAIN new
  BY <1>1, <1>6, <1>10, ReliedKinds
<1>12. ASSUME NEW s \in Snaps, NEW y \in Files \ DOMAIN new, Relies(mem', world, s, y)
       PROVE  Relies(mem, world, s, y)
  <2>1. CASE s = At
    BY <1>1, <1>6, <1>8, <1>12, <2>1 DEF Relies, Stages
  <2>2. CASE s # At
    <3>1. mem'.status[s] = mem.status[s]
      BY <1>8, <2>2 DEF Stages
    <3> QED
      BY <1>8, <1>9, <1>12, <3>1 DEF Relies
  <2> QED
    BY <2>1, <2>2
<1>13. Stage'
  BY <1>3, <1>8 DEF Stage, SaveSteps, ScatterLoop, Stages
<1>14. Linking' /\ Writing' /\ Bound'
  BY <1>1, <1>3, <1>8 DEF IInv, Linking, Writing, Bound, LinkLoop, WriteSteps, EmitLoop,
                          FixSteps, ScatterLoop
<1> QED
  BY <1>1, <1>2, <1>3, <1>4, <1>6, <1>7, <1>9, <1>11, <1>12, <1>13, <1>14, StageKeeps

-----------------------------------------------------------------------------
(* links                                                                    *)

\* The identity of the forests, which also says that no forest is missing.
LEMMA ComputeIdentityKeeps ==
    ASSUME IInv, ComputeIdentity
    PROVE  IInv'
<1>1. /\ pc.step = "identity" /\ Goto("link") /\ IdentityHolds /\ man' = mem'
      /\ mem' = [mem EXCEPT !.identity = Entered(mem), !.exists = TRUE]
      /\ UNCHANGED <<world, disk, task, last, faults>>
  BY DEF ComputeIdentity, Steps
<1>2. PcOK /\ pc.todo # {}
  BY <1>1, Basics DEF PcOK, Looping
<1>3. /\ PcOK' /\ pc'.step = "link" /\ pc'.todo = pc.todo
  BY <1>1, <1>2, GotoIs DEF StepNames, Looping, LinkLoop, ScatterLoop
<1>4. /\ man' \in Manifests /\ mem' = man'
      /\ man'.done = mem.done /\ man'.bound = mem.bound /\ man'.owned = mem.owned
      /\ man'.output = mem.output /\ man'.status = mem.status
  <2>1. Entered(mem) \in SUBSET Snaps
    BY StatusIs
  <2> QED
    BY <1>1, <2>1, Basics DEF Manifests
<1>5. Stage'
  BY <1>3, <1>4 DEF Stage, SaveSteps, ScatterLoop
<1>6. Linking'
  <2>1. Entered(mem') = Entered(mem)
    BY <1>4, StatusIs
  <2>2. /\ Entered(mem) # {} /\ pc.todo \subseteq Entered(mem)
        /\ \A s \in Entered(mem) : mem.status[s] \in {"fixed", "linked"}
    BY <1>1 DEF IInv, Linking
  <2>3. /\ UNION {ForestsAt[s] : s \in Entered(mem)} = Forests
        /\ Verified(Of("forest_index", 0)) /\ \A s \in Entered(mem) : Verified(Of("fixed", s))
    BY <1>1 DEF IdentityHolds
  <2> QED
    BY <1>1, <1>3, <1>4, <2>1, <2>2, <2>3 DEF Linking, Verified
<1>7. Writing' /\ Bound'
  BY <1>3 DEF Writing, Bound, WriteSteps, EmitLoop, FixSteps, ScatterLoop
<1> QED
  BY <1>1, <1>3, <1>4, <1>5, <1>6, <1>7, SaveKeeps

\* What is made of good files, and has no rows of its own, is good.
LEMMA UnionIsGood ==
    ASSUME NEW m, NEW S, NEW d, \A x \in S : OneVersion(m, d[x]) /\ Placed(d[x])
    PROVE  OneVersion(m, UNION {d[x] : x \in S}) /\ Placed(UNION {d[x] : x \in S})
<1> DEFINE c == UNION {d[x] : x \in S}
<1>1. \A r : r \in c <=> \E x \in S : r \in d[x]
  OBVIOUS
<1> HIDE DEF c
<1>2. c \in Genuine
  BY <1>1 DEF OneVersion, Genuine
<1>3. \A r \in c : r[2] = VersionOf(m, r[1])
  BY <1>1 DEF OneVersion
<1>4. Placed(c)
  BY <1>1 DEF Placed
<1> QED
  BY <1>2, <1>3, <1>4 DEF OneVersion, c

\* The files that links are computed from are verified before.
LEMMA LinkInputsAreGood ==
    ASSUME IInv, pc.step = "link", Linkable, At \in Entered(mem)
    PROVE  OneVersion(mem, LinkInputs) /\ Placed(LinkInputs)
<1> DEFINE S == {Of("fixed", s) : s \in Entered(mem)}
                \cup {Of("forest_index", 0)}
                \cup {Of("idx", s) : s \in {At + 1} \cap Entered(mem)}
                \cup {Of("pending", s) : s \in IF PrevEntered THEN {At} ELSE {}}
<1>1. /\ Verified(Of("forest_index", 0)) /\ \A s \in Entered(mem) : Verified(Of("fixed", s))
  BY DEF IInv, Linking, LinkLoop
<1>2. ASSUME NEW x \in S
      PROVE  /\ Verified(x) /\ x \in Files \ (PerWorker \cup PerSource)
             /\ x # Of("forest_max", 0)
  <2>1. CASE \E s \in Entered(mem) : x = Of("fixed", s)
    BY <1>1, <2>1, StatusIs, OfIsFile DEF Kinds
  <2>2. CASE x = Of("forest_index", 0)
    BY <1>1, <2>2, TableIsFile DEF Of
  <2>3. CASE At + 1 \in Entered(mem) /\ x = Of("idx", At + 1)
    BY <2>3, StatusIs, OfIsFile DEF Kinds, Linkable, NextEntered
  <2>4. CASE PrevEntered /\ x = Of("pending", At)
    BY <2>4, StatusIs, OfIsFile DEF Kinds, Linkable
  <2> QED
    BY <1>2, <2>1, <2>2, <2>3, <2>4
<1>3. LinkInputs = UNION {disk[x] : x \in S}
  BY DEF LinkInputs
<1> HIDE DEF S
<1>4. \A x \in S : OneVersion(mem, disk[x]) /\ Placed(disk[x])
  BY <1>2, VerifiedHere DEF ContentOK
<1> QED
  BY <1>3, <1>4, UnionIsGood

\* Linking a snapshot.
LEMMA LinkSnapshotKeeps ==
    ASSUME IInv, LinkSnapshot
    PROVE  IInv'
<1>1. /\ pc.step = "link" /\ mem.status[At] # "linked" /\ Linkable
      /\ Goto("save_link") /\ UNCHANGED <<world, man, task, last, faults>>
  BY DEF LinkSnapshot, Steps
<1>2. PICK new :
          /\ new = [x \in {Of("pending", s) : s \in {At + 1} \cap Entered(mem)}
                              \cup {Of("links", At)} |-> LinkInputs]
          /\ disk' = Written(new)
          /\ mem' = [Register(mem, new) EXCEPT !.status[At] = "linked"]
  BY DEF LinkSnapshot
<1>3. /\ PcOK' /\ pc'.step = "save_link" /\ pc'.todo = pc.todo /\ At' = At
  BY <1>1, Basics, GotoIs DEF PcOK, StepNames, Looping, LinkLoop, ScatterLoop
<1>4. At \in Snaps /\ At \in Nat /\ At \in pc.todo
  BY <1>1, Basics, InHand DEF Looping, LinkLoop
<1>5. /\ pc.todo \subseteq Entered(mem) /\ Entered(mem) # {}
      /\ \A s \in Entered(mem) : mem.status[s] \in {"fixed", "linked"}
      /\ UNION {ForestsAt[s] : s \in Entered(mem)} = Forests
      /\ Verified(Of("forest_index", 0)) /\ \A s \in Entered(mem) : Verified(Of("fixed", s))
  BY <1>1 DEF IInv, Linking, LinkLoop
<1>6. At \in Entered(mem) /\ mem.status[At] = "fixed"
  BY <1>1, <1>4, <1>5
<1>7. /\ \A y \in DOMAIN new : \/ y = Of("links", At)
                               \/ y = Of("pending", At + 1) /\ At + 1 \in Entered(mem)
      /\ Of("links", At) \in DOMAIN new
      /\ At + 1 \in Entered(mem) => Of("pending", At + 1) \in DOMAIN new
      /\ \A y \in DOMAIN new : new[y] = LinkInputs
  BY <1>2
<1>8. ASSUME NEW y \in DOMAIN new
      PROVE  /\ y \in Files /\ y \notin PerWorker \cup PerSource
             /\ y[1] \in {"links", "pending"}
             /\ y[1] = "links" => y[2] = At
             /\ y[1] = "pending" => y[2] = At + 1
  BY <1>4, <1>7, StatusIs, OfIsFile DEF Kinds
<1>9. DOMAIN new \in SUBSET Files
  BY <1>8
<1>10. \A y \in DOMAIN new : ContentOK(mem, y, new[y])
  <2>1. OneVersion(mem, LinkInputs) /\ Placed(LinkInputs)
    BY <1>1, <1>6, LinkInputsAreGood
  <2> QED
    BY <1>7, <1>8, <2>1 DEF ContentOK
<1>11. "linked" \in Status
  BY StatusIs
<1>12. /\ Stages(mem, At, "linked", mem') /\ Registers(mem, new, mem')
       /\ mem'.done = mem.done /\ mem'.bound = mem.bound
       /\ \A y \in Files \ DOMAIN new : disk'[y] = disk[y]
  BY <1>2, <1>4, <1>9, <1>10, <1>11, StageIs
<1>13. Entered(mem') = Entered(mem)
  BY <1>4, <1>6, <1>12 DEF Entered, Stages
<1>14. Staged(mem')
  <2>1. Staged(mem)
    BY Basics
  <2>2. EnteredOK(mem') /\ DoneOK(mem')
    BY <1>12, <1>13, <2>1 DEF Staged, EnteredOK, DoneOK
  <2>3. JoinedOK(mem')
    <3> SUFFICES ASSUME NEW s \in Joined, mem'.status[s] = "linked"
                 PROVE  s + 1 \in Entered(mem)
      BY <1>13 DEF JoinedOK
    <3>1. CASE s = At
      BY <1>1, <3>1 DEF Linkable, NextEntered
    <3>2. CASE s # At
      <4>1. s \in Snaps
        BY PipelineAssumption, Numbers
      <4>2. mem.status[s] = "linked"
        BY <1>12, <3>2, <4>1 DEF Stages
      <4> QED
        BY <2>1, <4>2 DEF Staged, JoinedOK
    <3> QED
      BY <3>1, <3>2
  <2>4. ForestsOK(mem')
    BY <1>5, <1>13 DEF ForestsOK
  <2> QED
    BY <2>2, <2>3, <2>4 DEF Staged
<1>15. mem.status = man.status
  BY <1>1 DEF IInv, Stage, SaveSteps
<1>16. \A s \in Snaps, y \in Files : Relies(man, world, s, y) => y \notin DOMAIN new
  <2> SUFFICES ASSUME NEW s \in Snaps, NEW y \in DOMAIN new, Relies(man, world, s, y)
               PROVE  FALSE
    OBVIOUS
  <2>1. man.status[s] = "linked"
    BY <1>8, ReliedKinds
  <2>2. s # At
    BY <1>6, <1>15, <2>1
  <2>3. y[2] = s \/ y[2] = s + 1
    BY <1>8, ReliedKinds
  <2>4. s \in Nat
    BY Numbers
  <2>5. y[1] = "links" => y[2] = s
    BY ReliedKinds
  <2>6. y[1] = "pending" => y[2] = s + 1
    BY ReliedKinds
  <2> QED
    BY <1>4, <1>8, <2>2, <2>4, <2>5, <2>6
<1>17. ASSUME NEW s \in Snaps, NEW y \in Files \ DOMAIN new, Relies(mem', world, s, y)
       PROVE  Relies(mem, world, s, y)
  <2>1. CASE s = At
    <3>1. mem'.status[s] = "linked"
      BY <1>12, <2>1 DEF Stages
    <3>2. y = Of("idx", s) \/ y = Of("fixed", s)
      BY <1>7, <1>13, <1>17, <2>1, <3>1 DEF Relies
    <3> QED
      BY <1>6, <2>1, <3>2 DEF Relies
  <2>2. CASE s # At
    <3>1. mem'.status[s] = mem.status[s]
      BY <1>12, <2>2 DEF Stages
    <3> QED
      BY <1>12, <1>13, <1>17, <3>1 DEF Relies
  <2> QED
    BY <2>1, <2>2
<1>18. Stage'
  BY <1>3, <1>12 DEF Stage, SaveSteps, ScatterLoop, Stages
<1>19. Linking'
  <2>1. \A s \in Entered(mem') : mem'.status[s] \in {"fixed", "linked"}
    BY <1>5, <1>12, <1>13, StatusIs DEF Stages
  <2>2. ASSUME NEW y \in Files, Verified(y), y[1] \in {"fixed", "forest_index"}
        PROVE  Verified(y)'
    <3>1. y \notin DOMAIN new
      BY <1>8, <2>2
    <3> QED
      BY <1>12, <2>2, <3>1 DEF Verified, Registers
  <2>3. Verified(Of("forest_index", 0))'
    BY <1>5, <2>2, TableIsFile
  <2>4. \A s \in Entered(mem) : Verified(Of("fixed", s))'
    BY <1>5, <2>2, OfIsFile, StatusIs DEF Kinds
  <2> QED
    BY <1>3, <1>5, <1>13, <2>1, <2>3, <2>4 DEF Linking
<1>20. Writing' /\ Bound'
  BY <1>3 DEF Writing, Bound, WriteSteps, EmitLoop, FixSteps, ScatterLoop
<1> QED
  BY <1>1, <1>2, <1>3, <1>4, <1>9, <1>10, <1>11, <1>14, <1>16, <1>17, <1>18, <1>19, <1>20,
     StageKeeps

-----------------------------------------------------------------------------
(* write                                                                    *)

\* When a gap shows, a manifest with all its snapshots linked has them all.
LEMMA LinkedIsWhole ==
    ASSUME EveryGapShows, NEW m, Staged(m), Entered(m) # {},
           \A s \in Entered(m) : m.status[s] = "linked"
    PROVE  Entered(m) = Populated
<1>1. Entered(m) \in SUBSET Populated
  BY DEF Staged, EnteredOK
<1>2. \A s \in Entered(m), t \in Populated : t < s => t \in Entered(m)
  BY DEF Staged, EnteredOK
<1>3. UNION {ForestsAt[s] : s \in Entered(m)} = Forests
  BY DEF Staged, ForestsOK
<1>4. ~(\E s \in Entered(m) \cap Joined : s + 1 \notin Entered(m))
  BY DEF Staged, JoinedOK
<1>5. PICK e \in SUBSET Populated : e = Entered(m)
  BY <1>1
<1>6. SUFFICES ASSUME e # Populated PROVE FALSE
  BY <1>5
<1>7. \/ UNION {ForestsAt[s] : s \in e} # Forests
      \/ \E s \in e \cap Joined : s + 1 \notin e
  BY <1>2, <1>5, <1>6 DEF EveryGapShows
<1> QED
  BY <1>3, <1>4, <1>5, <1>7

\* What an emitted snapshot holds.
LEMMA EmittedIsGood ==
    ASSUME IInv, pc.step = "emit",
           At \in Entered(mem) => Verified(Of("fixed", At)) /\ Verified(Of("links", At)),
           NEW c, c = {<<i, world[i], 0>> : i \in {"a_list", "simulation_info"}}
                      \cup UNION {disk[x] : x \in IF At \in Entered(mem)
                                                   THEN {Of("fixed", At), Of("links", At)}
                                                   ELSE {}}
    PROVE  OutputOK(mem, Of("h5", At), c)
<1> DEFINE e == {<<i, world[i], 0>> : i \in {"a_list", "simulation_info"}}
           S == IF At \in Entered(mem) THEN {Of("fixed", At), Of("links", At)} ELSE {}
<1>1. At \in Snaps
  BY Basics, InHand DEF Looping, EmitLoop
<1>2. /\ Entered(mem) # {} /\ \A s \in Entered(mem) : mem.status[s] = "linked"
      /\ \A i \in {"a_list", "simulation_info"} : mem.bound[i] = world[i]
  BY DEF IInv, Writing, WriteSteps, EmitLoop
<1>3. ASSUME NEW r \in e
      PROVE  /\ r \in Inputs \X Versions \X Snaps
             /\ r[2] = VersionOf(mem, r[1]) /\ r[1] \notin Sources
  <2>1. PICK i \in {"a_list", "simulation_info"} : r = <<i, world[i], 0>>
    OBVIOUS
  <2>2. i \in Metadata /\ i \notin Sources /\ i \in Inputs
    BY Numbers DEF Metadata, Inputs
  <2>3. world[i] \in Versions
    BY <2>2 DEF IInv, Types, TypeOK
  <2> QED
    BY <1>2, <2>1, <2>2, <2>3, Numbers DEF VersionOf
<1>4. ASSUME NEW x \in S
      PROVE  ContentOK(mem, x, disk[x]) /\ OneVersion(mem, disk[x]) /\ Placed(disk[x])
  <2>1. /\ x \in {Of("fixed", At), Of("links", At)} /\ Verified(x)
    BY <1>4
  <2>2. x \in Files \ (PerWorker \cup PerSource) /\ x # Of("forest_max", 0)
    BY <1>1, <2>1, OfIsFile DEF Kinds
  <2> QED
    BY <2>1, <2>2, VerifiedHere DEF ContentOK
<1>5. c = e \cup UNION {disk[x] : x \in S}
  OBVIOUS
<1>6. EveryGapShows /\ At \in Populated => AllRows(mem, At) \subseteq UNION {disk[x] : x \in S}
  <2> SUFFICES ASSUME EveryGapShows, At \in Populated
               PROVE  AllRows(mem, At) \subseteq UNION {disk[x] : x \in S}
    OBVIOUS
  <2>1. At \in Entered(mem)
    BY <1>2, Basics, LinkedIsWhole
  <2>2. Of("fixed", At) \in S
    BY <2>1
  <2>3. AllRows(mem, At) \subseteq disk[Of("fixed", At)]
    <3>1. ContentOK(mem, Of("fixed", At), disk[Of("fixed", At)])
      BY <1>4, <2>2
    <3> QED
      BY <1>1, <3>1, OfIsFile DEF ContentOK, Kinds
  <2> QED
    BY <2>2, <2>3
<1> DEFINE u == UNION {disk[x] : x \in S}
<1>7. OneVersion(mem, u) /\ Placed(u)
  <2>1. PICK T, d : T = S /\ d = disk
    OBVIOUS
  <2>2. \A x \in T : OneVersion(mem, d[x]) /\ Placed(d[x])
    BY <1>4, <2>1
  <2>3. OneVersion(mem, UNION {d[x] : x \in T}) /\ Placed(UNION {d[x] : x \in T})
    BY <2>2, UnionIsGood
  <2>4. u = UNION {d[x] : x \in T}
    BY <2>1
  <2> QED
    BY <2>3, <2>4
<1> HIDE DEF e, S, u
<1>8. c = e \cup u
  BY <1>5 DEF u
<1>9. OneVersion(mem, c)
  <2>1. c \in Genuine
    BY <1>3, <1>7, <1>8 DEF OneVersion, Genuine
  <2>2. \A r \in c : r[2] = VersionOf(mem, r[1])
    BY <1>3, <1>7, <1>8 DEF OneVersion
  <2> QED
    BY <2>1, <2>2 DEF OneVersion
<1>10. Placed(c)
  BY <1>3, <1>7, <1>8 DEF Placed
<1>11. EveryGapShows /\ At \in Populated => AllRows(mem, At) \subseteq c
  BY <1>6, <1>8 DEF u
<1> QED
  BY <1>1, <1>9, <1>10, <1>11, OfIsFile DEF OutputOK, Kinds

\* Emitting a snapshot.
LEMMA EmitSnapshotKeeps ==
    ASSUME IInv, EmitSnapshot
    PROVE  IInv'
<1>1. PICK c : /\ disk' = Written(Just(Of("h5", At), c))
               /\ c = {<<i, world[i], 0>> : i \in {"a_list", "simulation_info"}}
                      \cup UNION {disk[x] : x \in IF At \in Entered(mem)
                                                   THEN {Of("fixed", At), Of("links", At)}
                                                   ELSE {}}
  BY DEF EmitSnapshot
<1>2. /\ pc.step = "emit" /\ Goto("record_output")
      /\ At \in Entered(mem) => Verified(Of("fixed", At)) /\ Verified(Of("links", At))
      /\ UNCHANGED <<world, man, mem, task, last, faults>>
  BY DEF EmitSnapshot, Steps
<1>3. OutputOK(mem, Of("h5", At), c)
  BY <1>1, <1>2, EmittedIsGood
<1>4. At \in Snaps
  BY <1>2, Basics, InHand DEF Looping, EmitLoop
<1>5. PICK x \in Files : x = Of("h5", At) /\ x[1] = "h5" /\ x[2] = At
  BY <1>4, OfIsFile DEF Kinds
<1>6. c \in Contents
  BY <1>3, GenuineIsContent DEF OutputOK, OneVersion
<1>7. /\ disk' \in [Files -> Contents \cup {Gone}] /\ disk'[x] = c
      /\ \A y \in Files \ {x} : disk'[y] = disk[y]
  <2>1. disk' = Written(Just(x, c))
    BY <1>1, <1>5
  <2> QED
    BY <1>6, <2>1, Basics, JustWritten
<1>8. /\ PcOK' /\ pc'.step = "record_output" /\ pc'.todo = pc.todo /\ At' = At
  BY <1>2, Basics, GotoIs DEF PcOK, StepNames, Looping, EmitLoop, ScatterLoop
<1>9. Intact(man, world, disk) => Intact(man, world, disk')
  <2>1. \A s \in Snaps, y \in Files : Relies(man, world, s, y) => disk'[y] = disk[y]
    BY <1>5, <1>7, ReliedKinds
  <2> QED
    BY <2>1, IntactBeside
<1>10. Intact(mem, world, disk) => Intact(mem, world, disk')
  <2>1. \A s \in Snaps, y \in Files : Relies(mem, world, s, y) => disk'[y] = disk[y]
    BY <1>5, <1>7, ReliedKinds
  <2> QED
    BY <2>1, IntactBeside
<1>11. Stage'
  BY <1>2, <1>8 DEF IInv, Stage, SaveSteps, ScatterLoop
<1>12. Writing'
  <2>1. OutputOK(mem', Of("h5", At'), disk'[Of("h5", At')])
    BY <1>2, <1>3, <1>5, <1>7, <1>8
  <2> QED
    BY <1>2, <1>8, <2>1, StatusIs DEF IInv, Writing, WriteSteps, EmitLoop
<1>13. Linking' /\ Bound'
  BY <1>8 DEF Linking, Bound, LinkLoop, FixSteps, ScatterLoop
<1>14. NothingYet(mem)
  BY <1>2 DEF IInv, Saved
<1> QED
  BY <1>2, <1>7, <1>8, <1>9, <1>10, <1>11, <1>12, <1>13, <1>14, Basics, WorkKeeps

\* A manifest with a recorded output more.
LEMMA OutputRecorded ==
    ASSUME NEW m, NEW m2, Sound(m), m2.done = m.done, m2.bound = m.bound,
           m2.owned = m.owned, m2.status = m.status, Entered(m) # {},
           \A y \in Files : m2.output[y] = m.output[y] \/ OutputOK(m, y, m2.output[y])
    PROVE  Sound(m2) /\ NothingYet(m2) /\ Entered(m2) = Entered(m)
<1>1. Entered(m2) = Entered(m)
  BY StatusIs
<1>2. OwnedOK(m2)
  BY SameVersions DEF OwnedOK, Sound
<1>3. OutputsOK(m2)
  <2> SUFFICES ASSUME NEW y \in Files, m2.output[y] # NotOwned
               PROVE  OutputOK(m2, y, m2.output[y])
    BY DEF OutputsOK
  <2>1. OutputOK(m, y, m2.output[y])
    BY DEF Sound, OutputsOK
  <2> QED
    BY <2>1, SameVersions
<1>4. Staged(m2)
  BY SoundIs, SameStaged
<1> QED
  BY <1>1, <1>2, <1>3, <1>4, SoundIs DEF NothingYet

\* Recording an emitted snapshot.
LEMMA RecordOutputKeeps ==
    ASSUME IInv, RecordOutput
    PROVE  IInv'
<1>1. /\ pc.step = "record_output" /\ NextSnapshot("emit", "sidecar") /\ man' = mem'
      /\ mem' = [mem EXCEPT !.output[Of("h5", At)] = disk[Of("h5", At)], !.exists = TRUE]
      /\ UNCHANGED <<world, disk, task, last, faults>>
  BY DEF RecordOutput, Steps
<1>2. At \in Snaps
  BY <1>1, Basics, InHand DEF Looping, EmitLoop
<1>3. PICK x \in Files : x = Of("h5", At)
  BY <1>2, OfIsFile DEF Kinds
<1>4. PICK c : c = disk[x] /\ OutputOK(mem, x, c)
  BY <1>1, <1>3 DEF IInv, Writing
<1>5. c \in Contents
  BY <1>4, GenuineIsContent DEF OutputOK, OneVersion
<1>6. /\ mem' \in Manifests /\ mem'.done = mem.done /\ mem'.bound = mem.bound
      /\ mem'.owned = mem.owned /\ mem'.status = mem.status
      /\ mem'.output = [mem.output EXCEPT ![x] = c]
  <2>1. mem' = [mem EXCEPT !.output = [mem.output EXCEPT ![x] = c], !.exists = TRUE]
    BY <1>1, <1>3, <1>4, Basics DEF Manifests
  <2>2. [mem.output EXCEPT ![x] = c] \in [Files -> Contents \cup {NotOwned}]
    <3>1. mem.output \in [Files -> Contents \cup {NotOwned}]
      BY Basics, MemType
    <3> QED
      BY <1>5, <3>1
  <2>3. PICK o \in [Files -> Contents \cup {NotOwned}] : o = [mem.output EXCEPT ![x] = c]
    BY <2>2
  <2>4. mem' = [mem EXCEPT !.output = o, !.exists = TRUE]
    BY <2>1, <2>3
  <2> QED
    BY <2>3, <2>4, Basics DEF Manifests
<1>7. \A y \in Files : mem'.output[y] = mem.output[y] \/ OutputOK(mem, y, mem'.output[y])
  <2>1. mem.output \in [Files -> Contents \cup {NotOwned}]
    BY Basics, MemType
  <2> QED
    BY <1>4, <1>6, <2>1
<1>8. /\ Entered(mem) # {} /\ \A s \in Entered(mem) : mem.status[s] = "linked"
      /\ \A i \in {"a_list", "simulation_info"} : mem.bound[i] = world[i]
  BY <1>1 DEF IInv, Writing, WriteSteps, EmitLoop
<1>9. Sound(mem') /\ NothingYet(mem') /\ Entered(mem') = Entered(mem)
  BY <1>6, <1>7, <1>8, Basics, OutputRecorded
<1>10. PcOK' /\ pc'.step \in {"emit", "sidecar"}
  BY <1>1, Basics, NextSnapshotIs
     DEF StepNames, Looping, FixSteps, ScatterLoop, SortLoop, LinkLoop, EmitLoop, WriteSteps
<1>11. Intact(mem, world, disk) => Intact(mem', world, disk')
  BY <1>1, <1>6, SameIntact
<1>12. Stage'
  BY <1>1, <1>10 DEF Stage, SaveSteps, ScatterLoop
<1>13. Linking' /\ Writing' /\ Bound'
  BY <1>1, <1>6, <1>8, <1>9, <1>10
     DEF Linking, Writing, Bound, LinkLoop, WriteSteps, EmitLoop, FixSteps, ScatterLoop
<1> QED
  BY <1>1, <1>6, <1>9, <1>10, <1>11, <1>12, <1>13, Basics, WorkKeeps

\* Emitting and recording the sidecar.
LEMMA EmitSidecarKeeps ==
    ASSUME IInv, EmitSidecar
    PROVE  IInv'
<1>1. PICK x \in Files : x = Of("forests_h5", 0) /\ x[1] = "forests_h5"
  BY TableIsFile
<1>2. PICK c : c = disk[Of("forest_index", 0)]
  OBVIOUS
<1>3. /\ pc.step = "sidecar" /\ Goto("save_write") /\ Verified(Of("forest_index", 0))
      /\ man' = mem' /\ disk' = Written(Just(x, c))
      /\ mem' = [mem EXCEPT !.output[x] = c]
      /\ UNCHANGED <<world, task, last, faults>>
  BY <1>1, <1>2 DEF EmitSidecar, Steps
<1>4. ContentOK(mem, Of("forest_index", 0), c) /\ c \in Contents
  BY <1>2, <1>3, TableIsFile, VerifiedHere
<1>5. OutputOK(mem, x, c)
  <2>1. Of("forest_index", 0) \notin PerSource \cup {Of("forest_max", 0)}
    BY TableIsFile DEF Of
  <2>2. OneVersion(mem, c) /\ Placed(c)
    BY <1>4, <2>1 DEF ContentOK
  <2> QED
    BY <1>1, <2>2 DEF OutputOK
<1>6. /\ mem' \in Manifests /\ mem'.done = mem.done /\ mem'.bound = mem.bound
      /\ mem'.owned = mem.owned /\ mem'.status = mem.status
      /\ mem'.output = [mem.output EXCEPT ![x] = c]
  <2>1. mem' = [mem EXCEPT !.output = [mem.output EXCEPT ![x] = c]]
    BY <1>3, Basics DEF Manifests
  <2>2. [mem.output EXCEPT ![x] = c] \in [Files -> Contents \cup {NotOwned}]
    <3>1. mem.output \in [Files -> Contents \cup {NotOwned}]
      BY Basics, MemType
    <3> QED
      BY <1>4, <3>1
  <2>3. PICK o \in [Files -> Contents \cup {NotOwned}] : o = [mem.output EXCEPT ![x] = c]
    BY <2>2
  <2>4. mem' = [mem EXCEPT !.output = o]
    BY <2>1, <2>3
  <2> QED
    BY <2>3, <2>4, Basics DEF Manifests
<1>7. \A y \in Files : mem'.output[y] = mem.output[y] \/ OutputOK(mem, y, mem'.output[y])
  <2>1. mem.output \in [Files -> Contents \cup {NotOwned}]
    BY Basics, MemType
  <2> QED
    BY <1>5, <1>6, <2>1
<1>8. /\ Entered(mem) # {} /\ \A s \in Entered(mem) : mem.status[s] = "linked"
      /\ \A i \in {"a_list", "simulation_info"} : mem.bound[i] = world[i]
  BY <1>3 DEF IInv, Writing, WriteSteps
<1>9. Sound(mem') /\ NothingYet(mem') /\ Entered(mem') = Entered(mem)
  BY <1>6, <1>7, <1>8, Basics, OutputRecorded
<1>10. PcOK' /\ pc'.step = "save_write"
  BY <1>3, Basics, GotoIs
     DEF StepNames, Looping, FixSteps, ScatterLoop, SortLoop, LinkLoop, EmitLoop, WriteSteps
<1>11. /\ disk' \in [Files -> Contents \cup {Gone}]
       /\ \A y \in Files \ {x} : disk'[y] = disk[y]
  BY <1>3, <1>4, Basics, JustWritten
<1>12. Intact(mem, world, disk) => Intact(mem', world, disk')
  <2>1. \A s \in Snaps, y \in Files :
            Relies(mem, world, s, y) => disk'[y] = disk[y] /\ mem'.owned[y] = mem.owned[y]
    BY <1>1, <1>6, <1>11, ReliedKinds
  <2> QED
    BY <1>6, <2>1, IntactKept
<1>13. Stage'
  BY <1>3, <1>10 DEF Stage, SaveSteps, ScatterLoop
<1>14. Linking' /\ Writing' /\ Bound'
  BY <1>3, <1>6, <1>8, <1>9, <1>10
     DEF Linking, Writing, Bound, LinkLoop, WriteSteps, EmitLoop, FixSteps, ScatterLoop
<1> QED
  BY <1>3, <1>6, <1>9, <1>10, <1>11, <1>12, <1>13, <1>14, Basics, WorkKeeps

-----------------------------------------------------------------------------
(* The pool of the scatter.                                                 *)

\* A step of the pool.
LEMMA PoolKeeps ==
    ASSUME IInv, pc.step = "pool", UNCHANGED <<world, pc, last, faults>>,
           disk' \in [Files -> Contents \cup {Gone}],
           man' \in Manifests, mem' \in Manifests,
           task' \in [Sources -> [st : {"no", "queued", "reading", "parsed", "recorded"},
                                  version : {0} \cup Versions]],
           mem'.status = man'.status, \A i \in Metadata : mem'.bound[i] # 0, Pool',
           Sound(man') /\ NothingYet(man') /\ Sound(mem') /\ NothingYet(mem'),
           ~tampered => Intact(man', world, disk') /\ Intact(mem', world, disk')
    PROVE  IInv'
<1>1. PcOK'
  BY DEF IInv, PcOK, Looping, ScatterLoop, SortLoop, FixSteps, LinkLoop, EmitLoop, Idle
<1>2. Types'
  BY DEF IInv, Types, TypeOK, faults
<1>3. Stage'
  BY DEF Stage, ScatterLoop
<1>4. Linking' /\ Writing' /\ Bound'
  BY DEF Linking, Writing, Bound, LinkLoop, WriteSteps, EmitLoop, FixSteps, ScatterLoop
<1>5. Saved'
  BY DEF Saved
<1>6. Trusted'
  BY DEF Trusted, faults
<1>7. Reported'
  BY NotReported, ReportedLater DEF IInv
<1> QED
  BY <1>1, <1>2, <1>3, <1>4, <1>5, <1>6, <1>7 DEF IInv

\* What is known of a source that is not recorded yet.
LEMMA Unrecorded ==
    ASSUME IInv, pc.step = "pool", NEW f \in Sources,
           task[f].st \in {"queued", "reading", "parsed"}
    PROVE  /\ Entered(man) = {} /\ Entered(mem) = {}
           /\ mem.status = man.status
           /\ man.done[f] < world[f] /\ mem.done = man.done
           /\ man.done[f] \in Nat /\ world[f] \in Versions
           /\ \A s \in Snaps : ~Relies(man, world, s, Worker(s, f))
           /\ \A s \in Snaps : ~Relies(mem, world, s, Worker(s, f))
<1>1. Entered(man) = {} /\ man.done[f] < world[f] /\ mem.done = man.done
  BY DEF IInv, Pool
<1>2. mem.status = man.status
  BY DEF IInv, Stage, SaveSteps
<1>3. world[f] \in Versions /\ world[f] \in Nat
  BY Numbers DEF IInv, Types, TypeOK, Inputs
<1>4. man.done[f] \in Nat
  <2>1. man.done \in [Sources -> {0} \cup Versions]
    BY Basics, MemType
  <2> QED
    BY <2>1, Numbers
<1>5. man.done[f] # world[f]
  BY <1>1, <1>3, <1>4
<1>6. ASSUME NEW s \in Snaps
      PROVE  ~Relies(man, world, s, Worker(s, f)) /\ ~Relies(mem, world, s, Worker(s, f))
  <2>1. Worker(s, f)[1] = "worker" /\ Worker(s, f)[3] = f
    BY WorkerIsFile
  <2> QED
    BY <1>1, <1>5, <2>1, ReliedKinds
<1> QED
  BY <1>1, <1>2, <1>3, <1>4, <1>6, StatusIs

\* The rows that are scattered of a source.
LEMMA RowsAreGenuine ==
    ASSUME IInv, pc.step = "pool", NEW f \in Sources, NEW s \in Snaps, NEW v \in Versions
    PROVE  RowsOf(f, s, v) \in Genuine /\ RowsOf(f, s, v) \in Contents
<1>1. mem.bound["forests_list"] \in Versions
  <2>1. mem.bound \in [Metadata -> {0} \cup Versions]
    BY Basics, MemType
  <2>2. mem.bound["forests_list"] # 0
    BY DEF IInv, Bound, Metadata
  <2> QED
    BY <2>1, <2>2 DEF Metadata
<1>2. "forests_list" \in Inputs /\ f \in Inputs /\ 0 \in Snaps
  BY Numbers DEF Inputs, Metadata
<1>3. RowsOf(f, s, v) \in Genuine
  BY <1>1, <1>2 DEF RowsOf, ForestMap, Genuine
<1> QED
  BY <1>3, GenuineIsContent

\* The worker files of a source, and that new is what a task writes to them.
WorkersOfSource(f) == {Worker(s, f) : s \in RowsAt[f]}

TaskWrites(f, new, st, v) ==
    /\ DOMAIN new = WorkersOfSource(f)
    /\ \A x \in DOMAIN new : new[x] \in Contents
    /\ st = "parsed" => \A s \in RowsAt[f] : new[Worker(s, f)] = RowsOf(f, s, v)

\* A task that has started or parsed its file has written its worker files.
LEMMA TaskKeeps ==
    ASSUME IInv, pc.step = "pool", UNCHANGED <<world, man, mem, pc, last, faults>>,
           NEW f \in Sources, task[f].st \in {"queued", "reading"},
           NEW new, NEW st \in {"reading", "parsed"}, NEW v \in 1 .. world[f],
           TaskWrites(f, new, st, v), disk' = Written(new),
           task' = [task EXCEPT ![f] = [st |-> st, version |-> v]]
    PROVE  IInv'
<1>0. /\ DOMAIN new = WorkersOfSource(f) /\ \A x \in DOMAIN new : new[x] \in Contents
      /\ st = "parsed" => \A s \in RowsAt[f] : new[Worker(s, f)] = RowsOf(f, s, v)
  BY DEF TaskWrites
<1>1. \A x \in DOMAIN new : /\ x \in Files /\ x[1] = "worker" /\ x[3] = f
                            /\ x[2] \in Snaps /\ x = Worker(x[2], f)
  <2> TAKE x \in DOMAIN new
  <2>1. PICK s \in RowsAt[f] : x = Worker(s, f)
    BY <1>0 DEF WorkersOfSource
  <2>2. s \in Snaps
    BY Numbers
  <2> QED
    BY <2>1, <2>2, WorkerIsFile
<1>2. DOMAIN new \in SUBSET Files
  BY <1>1
<1>3. /\ disk' \in [Files -> Contents \cup {Gone}]
      /\ \A x \in DOMAIN new : disk'[x] = new[x]
      /\ \A x \in Files \ DOMAIN new : disk'[x] = disk[x]
  <2>1. \A x \in DOMAIN new : new[x] \in Contents \cup {Gone}
    BY <1>0
  <2> QED
    BY <1>2, <2>1, Basics, WrittenIs
<1>4. v \in Versions /\ v \in Nat
  <2>1. world[f] \in Versions
    BY Unrecorded
  <2> QED
    BY <2>1, PipelineAssumption DEF Versions
<1>5. task' \in [Sources -> [st : {"no", "queued", "reading", "parsed", "recorded"},
                             version : {0} \cup Versions]]
  BY <1>4 DEF IInv, Types, TypeOK
<1>6. /\ task'[f].st = st /\ task'[f].version = v
      /\ \A g \in Sources \ {f} : task'[g] = task[g]
  BY DEF IInv, Types, TypeOK
<1>7. /\ Entered(man) = {} /\ man.done[f] < world[f]
      /\ \A s \in Snaps : ~Relies(man, world, s, Worker(s, f))
      /\ \A s \in Snaps : ~Relies(mem, world, s, Worker(s, f))
  BY Unrecorded
<1>8. Intact(man, world, disk) => Intact(man, world, disk')
  <2>1. ASSUME NEW s \in Snaps, NEW x \in Files, Relies(man, world, s, x)
        PROVE  x \notin DOMAIN new
    BY <1>1, <1>7, <2>1, ReliedKinds
  <2> QED
    BY <1>3, <2>1, IntactBeside
<1>9. Intact(mem, world, disk) => Intact(mem, world, disk')
  <2>1. ASSUME NEW s \in Snaps, NEW x \in Files, Relies(mem, world, s, x)
        PROVE  x \notin DOMAIN new
    BY <1>1, <1>7, <2>1, ReliedKinds
  <2> QED
    BY <1>3, <2>1, IntactBeside
<1>10. Pool'
  <2>1. mem'.done = man'.done /\ \A g \in Sources : man'.done[g] <= world'[g]
    BY DEF IInv, Pool
  <2>2. ASSUME NEW g \in Sources
        PROVE  /\ task'[g].st \in {"queued", "reading", "parsed"} =>
                     Entered(man) = {} /\ man.done[g] < world[g]
               /\ task'[g].st \in {"reading", "parsed"} => task'[g].version \in 1 .. world[g]
               /\ task'[g].st = "recorded" => man.done[g] # 0
    <3>1. CASE g = f
      BY <1>6, <1>7, <3>1
    <3>2. CASE g # f
      BY <1>6, <3>2 DEF IInv, Pool
    <3> QED
      BY <3>1, <3>2
  <2>3. ASSUME NEW g \in Sources, task'[g].st = "parsed", NEW s \in RowsAt[g]
        PROVE  disk'[Worker(s, g)] = RowsOf(g, s, task'[g].version)
    <3>1. CASE g = f
      <4>1. /\ st = "parsed" /\ task'[g].version = v
            /\ s \in RowsAt[f] /\ Worker(s, g) \in DOMAIN new
        BY <1>0, <1>6, <2>3, <3>1 DEF WorkersOfSource
      <4> QED
        BY <1>0, <1>3, <3>1, <4>1
    <3>2. CASE g # f
      <4>1. s \in Snaps
        BY Numbers
      <4>2. Worker(s, g) \in Files \ DOMAIN new
        BY <1>1, <3>2, <4>1, WorkerIsFile
      <4>3. task[g].st = "parsed" /\ task'[g].version = task[g].version
        BY <1>6, <2>3, <3>2
      <4> QED
        BY <1>3, <4>2, <4>3 DEF IInv, Pool
    <3> QED
      BY <3>1, <3>2
  <2>4. \A g, s, n : RowsOf(g, s, n)' = RowsOf(g, s, n)
    BY DEF RowsOf, ForestMap
  <2>5. Entered(man)' = Entered(man)
    BY DEF Entered
  <2> QED
    BY <2>1, <2>2, <2>3, <2>4, <2>5 DEF Pool
<1>11. /\ mem.status = man.status /\ Sound(mem) /\ NothingYet(mem)
       /\ \A i \in Metadata : mem.bound[i] # 0
  BY DEF IInv, Stage, Saved, Bound, SaveSteps
<1> QED
  BY <1>3, <1>5, <1>8, <1>9, <1>10, <1>11, Basics, PoolKeeps

\* A worker opens its files: the source has changed since they were registered.
LEMMA StartSourceKeeps ==
    ASSUME IInv, NEW f \in Sources, StartSource(f)
    PROVE  IInv'
<1>1. PICK new : /\ new = [x \in {Worker(s, f) : s \in RowsAt[f]} |-> Torn]
                 /\ disk' = Written(new)
  BY DEF StartSource
<1>2. /\ pc.step = "pool" /\ task[f].st = "queued"
      /\ task' = [task EXCEPT ![f] = [st |-> "reading", version |-> world[f]]]
      /\ UNCHANGED <<world, man, mem, pc, last, faults>>
  BY DEF StartSource, Scattering
<1>3. world[f] \in 1 .. world[f]
  BY <1>2, Unrecorded DEF Versions
<1>5. PICK st \in {"reading", "parsed"}, v \in 1 .. world[f] : st = "reading" /\ v = world[f]
  BY <1>3
<1>6. task' = [task EXCEPT ![f] = [st |-> st, version |-> v]]
  BY <1>2, <1>5
<1>7. TaskWrites(f, new, st, v)
  BY <1>1, <1>5, BadIsContent DEF TaskWrites, WorkersOfSource
<1> QED
  BY <1>1, <1>2, <1>6, <1>7, TaskKeeps

\* A worker has parsed its source, which is still the one it pre-scanned.
LEMMA FinishSourceKeeps ==
    ASSUME IInv, NEW f \in Sources, FinishSource(f)
    PROVE  IInv'
<1>1. PICK v : v = task[f].version
  OBVIOUS
<1>2. PICK new : /\ new = [x \in {Worker(s, f) : s \in RowsAt[f]} |-> RowsOf(f, x[2], v)]
                 /\ disk' = Written(new)
  BY <1>1 DEF FinishSource
<1>3. /\ pc.step = "pool" /\ task[f].st = "reading"
      /\ task' = [task EXCEPT ![f].st = "parsed"]
      /\ UNCHANGED <<world, man, mem, pc, last, faults>>
  BY DEF FinishSource, Scattering
<1>4. v \in 1 .. world[f]
  BY <1>1, <1>3 DEF IInv, Pool
<1>5. v \in Versions
  <2>1. world[f] \in Versions
    BY <1>3, Unrecorded
  <2> QED
    BY <1>4, <2>1, PipelineAssumption DEF Versions
<1>6. DOMAIN new = {Worker(s, f) : s \in RowsAt[f]}
  BY <1>2
<1>7. \A s \in RowsAt[f] : /\ Worker(s, f) \in DOMAIN new
                           /\ new[Worker(s, f)] = RowsOf(f, s, v)
                           /\ RowsOf(f, s, v) \in Contents
  <2> TAKE s \in RowsAt[f]
  <2>1. s \in Snaps
    BY Numbers
  <2>2. Worker(s, f)[2] = s
    BY <2>1, WorkerIsFile
  <2> QED
    BY <1>2, <1>3, <1>5, <2>1, <2>2, RowsAreGenuine
<1>8. \A x \in DOMAIN new : new[x] \in Contents
  BY <1>6, <1>7
<1>9. PICK st \in {"reading", "parsed"} : st = "parsed"
  OBVIOUS
<1>10. task' = [task EXCEPT ![f] = [st |-> st, version |-> v]]
  <2>1. task \in [Sources -> [st : {"no", "queued", "reading", "parsed", "recorded"},
                             version : {0} \cup Versions]]
    BY DEF IInv, Types, TypeOK
  <2>2. PICK r : r = task[f] /\ r = [st |-> r.st, version |-> v]
    BY <1>1, <2>1
  <2>3. [r EXCEPT !.st = "parsed"] = [st |-> st, version |-> v]
    BY <1>9, <2>2
  <2>4. task' = [task EXCEPT ![f] = [r EXCEPT !.st = "parsed"]]
    BY <1>3, <2>1, <2>2
  <2> QED
    BY <2>3, <2>4
<1>11. TaskWrites(f, new, st, v)
  BY <1>6, <1>7, <1>8 DEF TaskWrites, WorkersOfSource
<1> QED
  BY <1>2, <1>3, <1>4, <1>10, <1>11, TaskKeeps

\* m2 is m with the source f recorded in the version v.
Records(m, f, v, m2) ==
    /\ m2 \in Manifests /\ m2.bound = m.bound /\ m2.status = m.status /\ m2.output = m.output
    /\ m2.done[f] = v /\ \A g \in Sources \ {f} : m2.done[g] = m.done[g]
    /\ \A x \in Files : x \in PerWorker \cup PerSource /\ x[3] = f =>
           \/ m2.owned[x] \in {NotOwned, Removed}
           \/ /\ m2.owned[x] = ScatteredFrom(m2, f, x[2])
              /\ x \in PerWorker => x[2] \in RowsAt[f]
    /\ \A x \in Files : m2.owned[x] = m.owned[x] \/ (x \in PerWorker \cup PerSource /\ x[3] = f)

\* What was scattered in the versions of the manifest may be in it.
LEMMA ScatteredIsGood ==
    ASSUME NEW m \in Manifests, NEW f \in Sources, NEW x \in PerWorker \cup PerSource,
           x[3] = f, ScatteredFrom(m, f, x[2]) \in Genuine,
           x \in PerWorker => x[2] \in RowsAt[f]
    PROVE  ContentOK(m, x, ScatteredFrom(m, f, x[2]))
<1> DEFINE c == ScatteredFrom(m, f, x[2])
<1>1. "forests_list" \notin Sources
  BY Numbers DEF Metadata
<1>2. \A r \in c : /\ r[2] = VersionOf(m, r[1])
                   /\ r[1] \in Sources => r[1] = f /\ r[3] = x[2]
  BY <1>1 DEF ScatteredFrom, VersionOf
<1>3. OneVersion(m, c)
  BY <1>2 DEF OneVersion
<1>4. x \in PerWorker => Placed(c)
  BY <1>2 DEF Placed
<1>5. x[1] \notin {"snap", "sorted", "fixed"}
  BY DEF PerWorker, PerSource
<1> QED
  BY <1>3, <1>4, <1>5 DEF ContentOK

\* Before the first snapshot, recording a source leaves a sound manifest.
LEMMA RecordedIsSound ==
    ASSUME NEW m \in Manifests, NEW m2, NEW f \in Sources, NEW v, Records(m, f, v, m2),
           Sound(m), NothingYet(m), Entered(m) = {},
           \A s \in Snaps : ScatteredFrom(m2, f, s) \in Genuine
    PROVE  Sound(m2) /\ NothingYet(m2) /\ Entered(m2) = {}
<1>1. Entered(m2) = {}
  BY StatusIs DEF Records
<1>2. m2 \in Manifests
  BY DEF Records
<1>3. ASSUME NEW x \in Files, m2.owned[x] \notin {NotOwned, Removed}
      PROVE  ContentOK(m2, x, m2.owned[x])
  <2>1. CASE x \in PerWorker \cup PerSource /\ x[3] = f
    <3>1. m2.owned[x] = ScatteredFrom(m2, f, x[2]) /\ (x \in PerWorker => x[2] \in RowsAt[f])
      BY <1>3, <2>1 DEF Records
    <3>2. x[2] \in Snaps
      BY <2>1, Numbers DEF PerWorker, PerSource
    <3> QED
      BY <1>2, <2>1, <3>1, <3>2, ScatteredIsGood
  <2>2. CASE ~(x \in PerWorker \cup PerSource /\ x[3] = f)
    <3>1. m2.owned[x] = m.owned[x]
      BY <2>2 DEF Records
    <3>2. x \in PerWorker \cup PerSource
      BY <1>3, <3>1 DEF NothingYet
    <3>3. x[3] # f /\ x[3] \in Sources
      BY <2>2, <3>2 DEF PerWorker, PerSource
    <3>4. ContentOK(m, x, m.owned[x])
      BY <1>3, <3>1 DEF Sound, OwnedOK
    <3>5. ScatteredFrom(m2, x[3], x[2]) = ScatteredFrom(m, x[3], x[2])
      BY <3>3 DEF ScatteredFrom, Records
    <3>6. /\ m.owned[x] = ScatteredFrom(m, x[3], x[2]) /\ m.owned[x] \in Genuine
          /\ x \in PerWorker => x[2] \in RowsAt[x[3]]
      BY <3>2, <3>4 DEF ContentOK, OneVersion
    <3> QED
      BY <1>2, <3>1, <3>2, <3>3, <3>5, <3>6, ScatteredIsGood
  <2> QED
    BY <2>1, <2>2
<1>4. OwnedOK(m2)
  BY <1>3 DEF OwnedOK
<1>5. \A x \in Files : m2.output[x] = NotOwned
  BY DEF NothingYet, Records
<1>6. OutputsOK(m2)
  BY <1>5 DEF OutputsOK
<1>7. Staged(m2)
  <2>1. \A s \in Snaps : m2.status[s] = "none"
    BY <1>1 DEF Entered
  <2>2. JoinedOK(m2)
    BY <2>1, PipelineAssumption, Numbers DEF JoinedOK
  <2> QED
    BY <1>1, <2>2 DEF Staged, EnteredOK, ForestsOK, DoneOK
<1>8. NothingYet(m2)
  <2>1. ASSUME NEW x \in Files \ (PerWorker \cup PerSource) PROVE m2.owned[x] = NotOwned
    BY DEF NothingYet, Records
  <2> QED
    BY <1>5, <2>1 DEF NothingYet
<1> QED
  BY <1>1, <1>4, <1>6, <1>7, <1>8, SoundIs

\* record() of a parsed source file.
LEMMA RecordSourceIs ==
    ASSUME IInv, NEW f \in Sources, RecordSource(f), NEW v, v = task[f].version
    PROVE  /\ Records(mem, f, v, mem') /\ man' = mem' /\ v \in 1 .. world[f] /\ v \in Versions
           /\ \A s \in RowsAt[f] : mem'.owned[Worker(s, f)] = RowsOf(f, s, v)
           /\ \A s : ScatteredFrom(mem', f, s) = RowsOf(f, s, v)
<1> DEFINE side == {Sidecar("roots", f), Sidecar("forest_max_src", f)}
           new == [x \in WorkersOfSource(f) \cup side |-> RowsOf(f, x[2], v)]
<1>1. /\ pc.step = "pool" /\ task[f].st = "parsed" /\ man' = mem' /\ mem' = Recorded(f)
  BY DEF RecordSource
<1>2. v \in 1 .. world[f]
  BY <1>1 DEF IInv, Pool
<1>3. v \in Versions
  <2>1. world[f] \in Versions
    BY <1>1, Unrecorded
  <2> QED
    BY <1>2, <2>1, PipelineAssumption DEF Versions
<1>4. \A x \in WorkersOfSource(f) :
          x \in PerWorker /\ x \in Files /\ x[3] = f /\ x[2] \in Snaps /\ x[2] \in RowsAt[f]
  <2> TAKE x \in WorkersOfSource(f)
  <2>1. PICK s \in RowsAt[f] : x = Worker(s, f)
    BY DEF WorkersOfSource
  <2>2. s \in Snaps
    BY Numbers
  <2> QED
    BY <2>1, <2>2, WorkerIsFile
<1>5. \A x \in side :
          x \in PerSource /\ x \notin PerWorker /\ x \in Files /\ x[3] = f /\ x[2] = 0
  BY SidecarIsFile
<1>6. \A x \in DOMAIN new : new[x] = RowsOf(f, x[2], v) /\ new[x] \in Contents
  BY <1>1, <1>3, <1>4, <1>5, RowsAreGenuine, Numbers
<1>7. DOMAIN new = WorkersOfSource(f) \cup side /\ DOMAIN new \in SUBSET Files
  BY <1>4, <1>5
<1>8. mem' = [Register(mem, new) EXCEPT !.done[f] = v, !.exists = TRUE]
  BY <1>1 DEF Recorded, WorkersOfSource
<1> HIDE DEF new
<1>9. PICK m1 : /\ m1 = Register(mem, new) /\ Registers(mem, new, m1)
                /\ m1.status = mem.status /\ m1 \in Manifests
  <2>1. \A x \in DOMAIN new : new[x] \in Contents \cup {Removed}
    BY <1>6
  <2> QED
    BY <1>7, <2>1, Basics, RegisterIs DEF Registers
<1>10. PICK d \in [Sources -> {0} \cup Versions] :
           d = [m1.done EXCEPT ![f] = v]
  <2>1. m1.done \in [Sources -> {0} \cup Versions]
    BY <1>9, MemType
  <2> QED
    BY <1>3, <2>1
<1>11. d[f] = v /\ \A g \in Sources \ {f} : d[g] = mem.done[g]
  <2>1. m1.done \in [Sources -> {0} \cup Versions] /\ m1.done = mem.done
    BY <1>9, MemType DEF Registers
  <2> QED
    BY <1>10, <2>1
<1>12. mem' = [m1 EXCEPT !.done = d, !.exists = TRUE]
  <2>1. mem' = [m1 EXCEPT !.done = [m1.done EXCEPT ![f] = v], !.exists = TRUE]
    BY <1>8, <1>9 DEF Manifests
  <2> QED
    BY <1>10, <2>1
<1>13. /\ mem' \in Manifests /\ mem'.done = d /\ mem'.bound = m1.bound
       /\ mem'.status = m1.status /\ mem'.output = m1.output /\ mem'.owned = m1.owned
  BY <1>9, <1>12 DEF Manifests
<1>14. \A s : ScatteredFrom(mem', f, s) = RowsOf(f, s, v)
  BY <1>9, <1>11, <1>13 DEF ScatteredFrom, RowsOf, ForestMap, Registers
<1>15. ASSUME NEW x \in Files, x \in PerWorker \cup PerSource, x[3] = f
       PROVE  \/ mem'.owned[x] \in {NotOwned, Removed}
              \/ /\ mem'.owned[x] = ScatteredFrom(mem', f, x[2])
                 /\ x \in PerWorker => x[2] \in RowsAt[f]
  <2>1. CASE x \in DOMAIN new
    <3>1. mem'.owned[x] = new[x] /\ new[x] = RowsOf(f, x[2], v)
      BY <1>6, <1>9, <1>13, <2>1 DEF Registers
    <3> QED
      BY <1>4, <1>5, <1>7, <1>14, <2>1, <3>1
  <2>2. CASE x \notin DOMAIN new
    <3>1. x \in PerWorker
      BY <1>7, <1>15, <2>2 DEF PerSource, Sidecar
    <3>2. x[2] \in Snaps /\ x = Worker(x[2], f)
      BY <1>15, <3>1 DEF PerWorker, Worker
    <3>3. x[2] \notin RowsAt[f]
      BY <1>7, <2>2, <3>2 DEF WorkersOfSource
    <3>4. mem'.owned[x] = mem.owned[x]
      BY <1>9, <1>13, <2>2 DEF Registers
    <3>5. ~ContentOK(mem, x, mem.owned[x])
      BY <1>15, <3>1, <3>3 DEF ContentOK
    <3> QED
      BY <3>4, <3>5, Basics DEF OwnedOK
  <2> QED
    BY <2>1, <2>2
<1>16. \A x \in Files : \/ mem'.owned[x] = mem.owned[x]
                        \/ x \in PerWorker \cup PerSource /\ x[3] = f
  BY <1>4, <1>5, <1>7, <1>9, <1>13 DEF Registers
<1>17. Records(mem, f, v, mem')
  BY <1>9, <1>11, <1>13, <1>15, <1>16 DEF Records, Registers
<1>18. \A s \in RowsAt[f] : mem'.owned[Worker(s, f)] = RowsOf(f, s, v)
  <2> TAKE s \in RowsAt[f]
  <2>1. Worker(s, f) \in DOMAIN new /\ Worker(s, f)[2] = s
    BY <1>7, Numbers, WorkerIsFile DEF WorkersOfSource
  <2> QED
    BY <1>6, <1>9, <1>13, <2>1 DEF Registers
<1> QED
  BY <1>1, <1>2, <1>3, <1>14, <1>17, <1>18

\* The result of a worker is recorded and saved.
LEMMA RecordSourceKeeps ==
    ASSUME IInv, NEW f \in Sources, RecordSource(f)
    PROVE  IInv'
<1>1. PICK v : v = task[f].version
  OBVIOUS
<1>2. /\ pc.step = "pool" /\ task[f].st = "parsed"
      /\ task' = [task EXCEPT ![f].st = "recorded"]
      /\ UNCHANGED <<world, pc, last, faults>>
  BY DEF RecordSource
<1>3. /\ Records(mem, f, v, mem') /\ man' = mem' /\ v \in 1 .. world[f] /\ v \in Versions
      /\ \A s \in RowsAt[f] : mem'.owned[Worker(s, f)] = RowsOf(f, s, v)
      /\ \A s : ScatteredFrom(mem', f, s) = RowsOf(f, s, v)
  BY <1>1, RecordSourceIs
<1>4. /\ Entered(man) = {} /\ Entered(mem) = {} /\ mem.status = man.status
      /\ mem.done = man.done
  BY <1>2, Unrecorded
<1>5. \A s \in Snaps : ScatteredFrom(mem', f, s) \in Genuine
  BY <1>2, <1>3, RowsAreGenuine
<1>6. Sound(mem) /\ NothingYet(mem) /\ \A i \in Metadata : mem.bound[i] # 0
  BY <1>2 DEF IInv, Saved, Bound
<1>7. Sound(mem') /\ NothingYet(mem') /\ Entered(mem') = {}
  BY <1>3, <1>4, <1>5, <1>6, Basics, RecordedIsSound
<1>8. \A i \in Metadata : mem'.bound[i] # 0
  BY <1>3, <1>6 DEF Records
<1>9. /\ disk' \in [Files -> Contents \cup {Gone}]
      /\ \A x \in Files : x \in PerSource \/ disk'[x] = disk[x]
  <2>1. PICK new : /\ new = [x \in {Sidecar("roots", f), Sidecar("forest_max_src", f)} |->
                                RowsOf(f, 0, v)]
                   /\ disk' = Written(new)
    BY <1>1 DEF RecordSource
  <2>2. DOMAIN new \in SUBSET Files /\ \A x \in DOMAIN new : x \in PerSource
    BY <2>1, SidecarIsFile
  <2>3. \A x \in DOMAIN new : new[x] \in Contents \cup {Gone}
    BY <1>2, <1>3, <2>1, Numbers, RowsAreGenuine
  <2> QED
    BY <2>1, <2>2, <2>3, Basics, WrittenIs
<1>10. \A s \in Snaps, g \in Sources : disk'[Worker(s, g)] = disk[Worker(s, g)]
  BY <1>9, WorkerIsFile
<1>11. task' \in [Sources -> [st : {"no", "queued", "reading", "parsed", "recorded"},
                              version : {0} \cup Versions]]
  BY <1>2 DEF IInv, Types, TypeOK
<1>12. task'[f].st = "recorded" /\ \A g \in Sources \ {f} : task'[g] = task[g]
  BY <1>2 DEF IInv, Types, TypeOK
<1>13. \A g, s, n : RowsOf(g, s, n)' = RowsOf(g, s, n)
  BY <1>3 DEF RowsOf, ForestMap, Records
<1>14. Pool'
  <2>1. ASSUME NEW g \in Sources
        PROVE  /\ mem'.done[g] <= world[g]
               /\ task'[g].st \in {"queued", "reading", "parsed"} => mem'.done[g] < world[g]
               /\ task'[g].st \in {"reading", "parsed"} => task'[g].version \in 1 .. world[g]
               /\ task'[g].st = "recorded" => mem'.done[g] # 0
    <3>1. CASE g = f
      BY <1>3, <1>12, <3>1, Numbers DEF Records
    <3>2. CASE g # f
      BY <1>2, <1>3, <1>4, <1>12, <3>2 DEF IInv, Pool, Records
    <3> QED
      BY <3>1, <3>2
  <2>2. ASSUME NEW g \in Sources, task'[g].st = "parsed", NEW s \in RowsAt[g]
        PROVE  disk'[Worker(s, g)] = RowsOf(g, s, task'[g].version)
    <3>1. g # f
      BY <1>12, <2>2
    <3>2. s \in Snaps /\ task[g].st = "parsed" /\ task'[g].version = task[g].version
      BY <1>12, <2>2, <3>1, Numbers
    <3> QED
      BY <1>2, <1>10, <3>2 DEF IInv, Pool
  <2>3. Entered(man)' = {}
    BY <1>3, <1>7 DEF Entered
  <2> QED
    BY <1>2, <1>3, <1>13, <2>1, <2>2, <2>3 DEF Pool
<1>15. Intact(mem, world, disk) => Intact(mem', world, disk')
  <2> SUFFICES ASSUME Intact(mem, world, disk), NEW s \in Snaps, NEW x \in Files,
                      Relies(mem', world, s, x)
               PROVE  disk'[x] # Gone /\ disk'[x] = mem'.owned[x]
    BY DEF Intact
  <2>1. mem'.status[s] = "none" /\ mem.status[s] = "none"
    BY <1>4, <1>7 DEF Entered
  <2>2. PICK g \in PartsOf(s) : mem'.done[g] = world[g] /\ x = Worker(s, g)
    BY <2>1 DEF Relies
  <2>3. g \in Sources /\ s \in RowsAt[g]
    BY DEF PartsOf
  <2>4. CASE g = f
    <3>1. disk'[x] = RowsOf(f, s, v)
      BY <1>1, <1>2, <1>10, <2>2, <2>3, <2>4 DEF IInv, Pool
    <3> QED
      BY <1>2, <1>3, <2>2, <2>3, <2>4, <3>1, RowsAreGenuine, GenuineIsContent
  <2>5. CASE g # f
    <3>1. Relies(mem, world, s, x)
      BY <1>3, <2>1, <2>2, <2>3, <2>5 DEF Relies, Records
    <3>2. x[3] = g
      BY <2>2, <2>3, WorkerIsFile
    <3> QED
      BY <1>3, <1>10, <2>2, <2>3, <2>5, <3>1, <3>2 DEF Intact, Records
  <2> QED
    BY <2>4, <2>5
<1>16. mem' \in Manifests
  BY <1>3 DEF Records
<1> QED
  BY <1>2, <1>3, <1>7, <1>8, <1>9, <1>11, <1>14, <1>15, <1>16, Basics, PoolKeeps

\* The tables are made of the sidecars and of the forests list.
LEMMA TablesAreGood ==
    ASSUME IInv, pc.step = "pool",
           \A f \in Sources : Verified(Sidecar("forest_max_src", f))
    PROVE  /\ ContentOK(mem, Of("forest_max", 0), TableContent("forest_max"))
           /\ ContentOK(mem, Of("forest_index", 0), TableContent("forest_index"))
<1>1. \A i \in Metadata : mem.bound[i] \in Versions
  <2>1. \A i \in Metadata : mem.bound[i] # 0
    BY DEF IInv, Bound
  <2>2. mem.bound \in [Metadata -> {0} \cup Versions]
    BY Basics, MemType
  <2> QED
    BY <2>1, <2>2
<1>2. "forests_list" \in Metadata /\ "forests_list" \in Inputs /\ "forests_list" \notin Sources
  BY Numbers DEF Metadata, Inputs
<1>3. OneVersion(mem, ForestMap) /\ Placed(ForestMap)
  <2>1. ForestMap \in Genuine
    BY <1>1, <1>2, Numbers DEF ForestMap, Genuine
  <2> QED
    BY <1>2, <2>1 DEF ForestMap, OneVersion, VersionOf, Placed
<1>4. ASSUME NEW f \in Sources
      PROVE  OneVersion(mem, mem.owned[Sidecar("forest_max_src", f)])
  <2>1. PICK x \in Files : x = Sidecar("forest_max_src", f)
    BY SidecarIsFile
  <2>2. Verified(x)
    BY <2>1
  <2>3. ContentOK(mem, x, disk[x]) /\ disk[x] = mem.owned[x]
    BY <2>2, VerifiedHere DEF Verified
  <2> QED
    BY <2>1, <2>3 DEF ContentOK
<1>5. OneVersion(mem, TableContent("forest_max"))
  <2>1. TableContent("forest_max") = UNION {mem.owned[Sidecar("forest_max_src", f)] : f \in Sources}
    BY DEF TableContent
  <2>2. ASSUME NEW r \in TableContent("forest_max")
        PROVE  r \in Inputs \X Versions \X Snaps /\ r[2] = VersionOf(mem, r[1])
    <3>1. PICK f \in Sources : r \in mem.owned[Sidecar("forest_max_src", f)]
      BY <2>1
    <3> QED
      BY <1>4, <3>1 DEF OneVersion, Genuine
  <2> QED
    BY <2>2 DEF OneVersion, Genuine
<1>6. /\ Of("forest_max", 0) \notin PerWorker \cup PerSource
      /\ Of("forest_max", 0)[1] = "forest_max"
      /\ Of("forest_index", 0) \notin PerWorker \cup PerSource
      /\ Of("forest_index", 0)[1] = "forest_index"
  BY TableIsFile
<1>7. ContentOK(mem, Of("forest_max", 0), TableContent("forest_max"))
  BY <1>5, <1>6 DEF ContentOK
<1>8. ContentOK(mem, Of("forest_index", 0), TableContent("forest_index"))
  BY <1>3, <1>6 DEF ContentOK, TableContent
<1> QED
  BY <1>7, <1>8

\* The tables are written when all sources are recorded.
LEMMA FinalizeTablesKeeps ==
    ASSUME IInv, FinalizeTables
    PROVE  IInv'
<1>1. PICK fresh, new :
          /\ fresh \subseteq {"forest_max", "forest_index"}
          /\ new = [x \in {Of(k, 0) : k \in fresh} |-> TableContent(x[1])]
          /\ disk' = Written(new)
          /\ mem' = Register(mem, new)
  <2> DEFINE fresh == {k \in {"forest_max", "forest_index"} : mem.owned[Of(k, 0)] = NotOwned}
             new   == [x \in {Of(k, 0) : k \in fresh} |-> TableContent(x[1])]
  <2>1. disk' = Written(new) /\ mem' = Register(mem, new)
    BY DEF FinalizeTables
  <2> QED
    BY <2>1
<1>2. /\ pc.step = "pool" /\ UNCHANGED <<world, task, last, faults>> /\ man' = man
      /\ pc' = [pc EXCEPT !.step = "concat", !.todo = Populated]
      /\ \A f \in Sources : task[f].st = "recorded"
      /\ \A f \in Sources : Verified(Sidecar("forest_max_src", f))
  BY DEF FinalizeTables, Steps
<1>3. \A x \in DOMAIN new :
          x \in Files /\ x[1] \in {"forest_max", "forest_index"} /\ ContentOK(mem, x, new[x])
  <2> TAKE x \in DOMAIN new
  <2>1. PICK k \in {"forest_max", "forest_index"} : x = Of(k, 0)
    BY <1>1
  <2>2. k \in {"forest_max", "forest_index"} /\ x[1] = k /\ x \in Files
    BY <2>1, TableIsFile
  <2>3. new[x] = TableContent(k)
    BY <1>1, <2>2
  <2> QED
    BY <1>2, <2>1, <2>2, <2>3, TablesAreGood
<1>4. DOMAIN new \in SUBSET Files /\ \A x \in DOMAIN new : new[x] \in Contents
  BY <1>3, GenuineIsContent DEF ContentOK, OneVersion
<1>5. Registers(mem, new, mem') /\ mem'.status = mem.status
  BY <1>1, <1>4, Basics, RegisterIs
<1>6. /\ mem' \in Manifests /\ mem'.done = mem.done /\ mem'.bound = mem.bound
      /\ mem'.output = mem.output
  BY <1>5 DEF Registers
<1>7. /\ disk' \in [Files -> Contents \cup {Gone}]
      /\ \A x \in Files \ DOMAIN new : disk'[x] = disk[x]
  BY <1>1, <1>4, Basics, WrittenIs
<1>8. Sound(mem')
  <2>1. OwnedOK(mem')
    BY <1>3, <1>5, Basics, RegisteringIsGood
  <2>2. OutputsOK(mem')
    BY <1>6, Basics, SameOutputs
  <2>3. Staged(mem')
    BY <1>5, <1>6, Basics, SameStaged
  <2> QED
    BY <2>1, <2>2, <2>3, SoundIs
<1>9. /\ pc' \in [cmd : Commands, step : StepNames, todo : SUBSET Snaps]
      /\ pc'.step = "concat" /\ pc'.todo = Populated
  <2>1. pc \in [cmd : Commands, step : StepNames, todo : SUBSET Snaps]
    BY Basics DEF PcOK
  <2>2. "concat" \in StepNames /\ Populated \in SUBSET Snaps
    BY Numbers DEF StepNames, Looping, ScatterLoop
  <2> QED
    BY <1>2, <2>1, <2>2
<1>10. PcOK'
  BY <1>9, Numbers DEF PcOK
<1>11. Stage'
  BY <1>2, <1>5, <1>9 DEF IInv, Stage, SaveSteps
<1>12. Linking' /\ Writing'
  BY <1>9 DEF Linking, Writing, LinkLoop, WriteSteps, EmitLoop
<1>13. Bound'
  <2>1. \A i \in Metadata : mem'.bound[i] # 0
    BY <1>2, <1>6 DEF IInv, Bound
  <2>2. \A f \in Sources : mem'.done[f] # 0
    BY <1>2, <1>6 DEF IInv, Pool
  <2> QED
    BY <1>9, <2>1, <2>2 DEF Bound, FixSteps
<1>14. Intact(man, world, disk) => Intact(man, world, disk')
  <2>1. \A s \in Snaps, x \in Files : Relies(man, world, s, x) => disk'[x] = disk[x]
    BY <1>3, <1>7, ReliedKinds
  <2> QED
    BY <2>1, IntactBeside
<1>15. Intact(mem, world, disk) => Intact(mem', world, disk')
  <2>1. \A s \in Snaps, x \in Files :
            Relies(mem, world, s, x) => disk'[x] = disk[x] /\ mem'.owned[x] = mem.owned[x]
    BY <1>3, <1>5, <1>7, ReliedKinds DEF Registers
  <2> QED
    BY <1>5, <1>6, <2>1, IntactKept
<1> QED
  BY <1>2, <1>6, <1>7, <1>8, <1>9, <1>10, <1>11, <1>12, <1>13, <1>14, <1>15, Basics, WorkKeeps

-----------------------------------------------------------------------------
(* Calling a command.                                                       *)

\* m2 is m with inputs bound that m had not bound yet.
Binding(m, m2) ==
    /\ m2.done = m.done /\ m2.owned = m.owned /\ m2.status = m.status /\ m2.output = m.output
    /\ \A i \in Metadata : m2.bound[i] = m.bound[i] \/ m.bound[i] = 0

\* What one version of each input was used for is that of a manifest that has
\* more of them bound.
LEMMA BindingKeepsVersions ==
    ASSUME NEW m, NEW m2, Binding(m, m2), NEW c, OneVersion(m, c)
    PROVE  OneVersion(m2, c)
<1> SUFFICES ASSUME NEW r \in c PROVE r[2] = VersionOf(m2, r[1])
  BY DEF OneVersion
<1>1. r[1] \in Inputs /\ r[2] \in Versions /\ r[2] = VersionOf(m, r[1])
  BY DEF OneVersion, Genuine
<1>2. CASE r[1] \in Sources
  BY <1>1, <1>2 DEF VersionOf, Binding
<1>3. CASE r[1] \notin Sources
  BY <1>1, <1>3, Numbers DEF VersionOf, Binding, Inputs
<1> QED
  BY <1>2, <1>3

\* A sound manifest stays sound when more inputs are bound.
LEMMA BindingKeeps ==
    ASSUME NEW m, NEW m2, Binding(m, m2), Sound(m), NothingYet(m)
    PROVE  Sound(m2) /\ NothingYet(m2) /\ Entered(m2) = Entered(m)
<1>1. Entered(m2) = Entered(m)
  BY StatusIs DEF Binding
<1>2. \A s : AllRows(m2, s) = AllRows(m, s)
  BY DEF AllRows, Binding
<1>3. ASSUME NEW x \in Files, m2.owned[x] \notin {NotOwned, Removed}
      PROVE  ContentOK(m2, x, m2.owned[x])
  <2>1. PICK c : c = m.owned[x] /\ c = m2.owned[x]
    BY DEF Binding
  <2>2. ContentOK(m, x, c)
    BY <1>3, <2>1 DEF Sound, OwnedOK
  <2>3. OneVersion(m, c) /\ OneVersion(m2, c)
    BY <2>2, BindingKeepsVersions DEF ContentOK
  <2>4. x \in PerWorker \cup PerSource => c = ScatteredFrom(m2, x[3], x[2])
    <3>1. SUFFICES ASSUME x \in PerWorker \cup PerSource
                   PROVE  c = ScatteredFrom(m2, x[3], x[2])
      OBVIOUS
    <3>2. c = ScatteredFrom(m, x[3], x[2])
      BY <2>2, <3>1 DEF ContentOK
    <3>3. PICK r \in c : r = <<"forests_list", m.bound["forests_list"], 0>>
      BY <3>2 DEF ScatteredFrom
    <3>4. r[2] \in Versions
      BY <2>3 DEF OneVersion, Genuine
    <3>5. m.bound["forests_list"] # 0
      BY <3>3, <3>4, Numbers
    <3>6. m2.bound["forests_list"] = m.bound["forests_list"]
      BY <3>5 DEF Binding, Metadata
    <3> QED
      BY <3>2, <3>6 DEF ScatteredFrom, Binding
  <2>5. /\ x \in PerWorker => x[2] \in RowsAt[x[3]]
        /\ x \notin PerSource \cup {Of("forest_max", 0)} => Placed(c)
        /\ x[1] \in {"snap", "sorted", "fixed"} =>
              {r \in c : r[1] \in Sources} = AllRows(m2, x[2])
    BY <1>2, <2>2 DEF ContentOK
  <2> QED
    BY <2>1, <2>3, <2>4, <2>5 DEF ContentOK
<1>4. OwnedOK(m2)
  BY <1>3 DEF OwnedOK
<1>5. ASSUME NEW x \in Files, m2.output[x] # NotOwned
      PROVE  OutputOK(m2, x, m2.output[x])
  <2>1. PICK c : c = m.output[x] /\ c = m2.output[x]
    BY DEF Binding
  <2>2. OutputOK(m, x, c)
    BY <1>5, <2>1 DEF Sound, OutputsOK
  <2>3. OneVersion(m2, c)
    BY <2>2, BindingKeepsVersions DEF OutputOK
  <2> QED
    BY <1>2, <2>1, <2>2, <2>3 DEF OutputOK
<1>6. OutputsOK(m2)
  BY <1>5 DEF OutputsOK
<1>7. Staged(m2)
  BY SoundIs, SameStaged DEF Binding
<1>8. NothingYet(m2)
  BY <1>1 DEF NothingYet, Binding
<1> QED
  BY <1>1, <1>4, <1>6, <1>7, <1>8, SoundIs

\* The first steps of the commands.
FirstSteps == {"pool", "sort", "bind", "identity", "emit"}

\* What all calls have in common.
LEMMA CallKeeps ==
    ASSUME IInv, Called, man' = man, mem' \in Manifests, Binding(man, mem'),
           task' \in [Sources -> [st : {"no", "queued", "reading", "parsed", "recorded"},
                                  version : {0} \cup Versions]],
           PcOK', pc'.step \in FirstSteps, Linking', Writing', Bound', Pool'
    PROVE  IInv'
<1>1. /\ UNCHANGED <<world, disk, faults>> /\ last' = None
  BY DEF Called
<1>2. Sound(man) /\ NothingYet(man) /\ Sound(mem') /\ NothingYet(mem')
  BY Basics, BindingKeeps
<1>3. Types'
  BY <1>1, Basics DEF IInv, Types, TypeOK, PcOK, faults, None
<1>4. Stage'
  BY DEF Stage, FirstSteps, SaveSteps, ScatterLoop, Binding
<1>5. Saved'
  <2>1. Sound(man') /\ NothingYet(man')
    BY <1>2
  <2> QED
    BY <1>2, <2>1 DEF Saved
<1>6. Trusted'
  <2>1. Intact(man, world, disk) => Intact(mem', world, disk)
    BY SameIntact DEF Binding
  <2> QED
    BY <1>1, <2>1, Basics DEF Trusted, faults
<1>7. Reported'
  BY <1>1, ReportedLater DEF None
<1> QED
  BY <1>3, <1>4, <1>5, <1>6, <1>7 DEF IInv

\* Entering a command.
LEMMA EnterIs ==
    ASSUME NEW cmd \in Commands, NEW step \in FirstSteps, NEW todo \in SUBSET Snaps,
           Enter(cmd, step, todo), step # "pool" => todo # {}
    PROVE  PcOK' /\ pc'.step = step /\ pc'.todo = todo
<1>1. /\ pc' \in [cmd : Commands, step : StepNames, todo : SUBSET Snaps]
      /\ pc'.step = step /\ pc'.todo = todo
  BY DEF Enter, FirstSteps, StepNames, Looping, SortLoop, FixSteps, EmitLoop
<1> QED
  BY <1>1 DEF PcOK, FirstSteps, Looping, ScatterLoop, SortLoop, FixSteps, LinkLoop, EmitLoop

\* A command that is called with the manifest as it is.
LEMMA CallAsIsKeeps ==
    ASSUME IInv, Called, man' = man, task' = task, mem' \in Manifests, Binding(man, mem'),
           NEW cmd \in Commands, NEW step \in FirstSteps \ {"pool"}, NEW todo \in SUBSET Snaps,
           Enter(cmd, step, todo), todo # {}, Linking', Writing', Bound'
    PROVE  IInv'
<1>1. PcOK' /\ pc'.step = step
  BY EnterIs
<1>2. task' \in [Sources -> [st : {"no", "queued", "reading", "parsed", "recorded"},
                             version : {0} \cup Versions]]
  BY DEF IInv, Types, TypeOK
<1>3. Pool'
  BY <1>1, PoolLater DEF IInv, Binding, Called
<1> QED
  BY <1>1, <1>2, <1>3, CallKeeps

\* Binding nothing is allowed.
LEMMA BindingSelf == \A m : Binding(m, m)
BY DEF Binding

\* scatter: what is queued has changed, and no snapshot is entered.
LEMMA CallScatterKeeps ==
    ASSUME IInv, CallScatter
    PROVE  IInv'
<1>1. /\ Called /\ ScatterAccepted /\ Enter("scatter", "pool", {}) /\ man' = man
      /\ mem' = [man EXCEPT !.bound = [i \in Metadata |-> world[i]]]
      /\ task' = [f \in Sources |-> [st |-> IF f \in Pending THEN "queued" ELSE "recorded",
                                     version |-> 0]]
  BY DEF CallScatter
<1>2. PcOK' /\ pc'.step = "pool"
  BY <1>1, EnterIs DEF FirstSteps, Commands
<1>3. PICK b \in [Metadata -> Versions] : /\ b = [i \in Metadata |-> world[i]]
                                          /\ \A i \in Metadata : b[i] = world[i]
  <2>1. [i \in Metadata |-> world[i]] \in [Metadata -> Versions]
    BY DEF IInv, Types, TypeOK, Inputs
  <2> QED
    BY <2>1
<1>4. mem' \in Manifests /\ mem' = [man EXCEPT !.bound = b]
  BY <1>1, <1>3, Basics DEF Manifests
<1>5. mem'.bound = b
  BY <1>4, Basics DEF Manifests
<1>6. Binding(man, mem')
  <2>1. \A i \in Metadata : b[i] = man.bound[i] \/ man.bound[i] = 0
    BY <1>1, <1>3 DEF ScatterAccepted, Binds
  <2> QED
    BY <1>4, <1>5, <2>1, Basics DEF Manifests, Binding
<1>7. \A f \in Sources : task'[f].st = IF f \in Pending THEN "queued" ELSE "recorded"
  BY <1>1
<1>8. task' \in [Sources -> [st : {"no", "queued", "reading", "parsed", "recorded"},
                             version : {0} \cup Versions]]
  BY <1>1
<1>9. \A f \in Sources : /\ world'[f] = world[f] /\ man.done[f] <= world[f]
                         /\ man.done[f] \in Nat /\ world[f] \in Nat /\ world[f] # 0
  <2>1. man.done \in [Sources -> {0} \cup Versions] /\ world \in [Inputs -> Versions]
    BY Basics, MemType DEF IInv, Types, TypeOK
  <2> QED
    BY <1>1, <2>1, Numbers DEF IInv, Pool, Called, Inputs
<1>10. Pool'
  <2>1. ASSUME NEW f \in Sources
        PROVE  /\ task'[f].st \notin {"reading", "parsed"}
               /\ task'[f].st = "queued" => Entered(man) = {} /\ man.done[f] < world[f]
               /\ task'[f].st = "recorded" => man.done[f] # 0
    <3>1. CASE f \in Pending
      BY <1>1, <1>7, <1>9, <3>1 DEF Pending, ScatterAccepted
    <3>2. CASE f \notin Pending
      BY <1>7, <1>9, <3>2 DEF Pending
    <3> QED
      BY <3>1, <3>2
  <2>2. Entered(man)' = Entered(man) /\ mem'.done = man'.done
    BY <1>1, <1>6 DEF Entered, Binding
  <2> QED
    BY <1>1, <1>9, <2>1, <2>2 DEF Pool
<1>11. Linking' /\ Writing'
  BY <1>2 DEF Linking, Writing, LinkLoop, WriteSteps, EmitLoop
<1>12. Bound'
  <2>1. \A i \in Metadata : mem'.bound[i] # 0
    BY <1>3, <1>5, Numbers
  <2> QED
    BY <1>2, <2>1 DEF Bound, ScatterLoop, FixSteps
<1> QED
  BY <1>1, <1>2, <1>4, <1>6, <1>8, <1>10, <1>11, <1>12, CallKeeps DEF FirstSteps

\* The snapshots of a call, for all that the manifest has or for one.
LEMMA SomeSnapshots ==
    ASSUME NEW todo \in {Entered(man)} \cup {{s} : s \in Snaps}
    PROVE  todo \in SUBSET Snaps
BY DEF Entered

\* sort, for all snapshots or for one.
LEMMA CallSortKeeps ==
    ASSUME IInv, CallSort
    PROVE  IInv'
<1>1. /\ Called /\ UNCHANGED <<man, task>> /\ mem' = man
  BY DEF CallSort
<1>2. PICK todo \in SUBSET Snaps : todo # {} /\ Enter("sort", "sort", todo)
  BY SomeSnapshots DEF CallSort
<1>3. pc'.step = "sort"
  BY <1>2 DEF Enter
<1>4. Linking' /\ Writing' /\ Bound'
  BY <1>3 DEF Linking, Writing, Bound, LinkLoop, WriteSteps, EmitLoop, FixSteps, ScatterLoop
<1>5. mem' \in Manifests /\ Binding(man, mem')
  BY <1>1, Basics, BindingSelf
<1> QED
  BY <1>1, <1>2, <1>4, <1>5, CallAsIsKeeps DEF Commands, FirstSteps

\* fixups, for all snapshots or for one.
LEMMA CallFixupsKeeps ==
    ASSUME IInv, CallFixups
    PROVE  IInv'
<1>1. /\ Called /\ UNCHANGED <<man, task>> /\ FixupsAccepted
      /\ mem' = [man EXCEPT !.bound["simulation_info"] = world["simulation_info"]]
  BY DEF CallFixups
<1>2. PICK todo \in SUBSET Snaps : todo # {} /\ Enter("fixups", "bind", todo)
  BY SomeSnapshots DEF CallFixups
<1>3. pc'.step = "bind"
  BY <1>2 DEF Enter
<1>4. \A i \in Metadata : world[i] \in Versions /\ world[i] # 0
  BY Numbers DEF IInv, Types, TypeOK, Inputs
<1>5. PICK b \in [Metadata -> {0} \cup Versions] :
          /\ b = [man.bound EXCEPT !["simulation_info"] = world["simulation_info"]]
          /\ b["simulation_info"] = world["simulation_info"]
          /\ \A i \in Metadata \ {"simulation_info"} : b[i] = man.bound[i]
  <2>1. man.bound \in [Metadata -> {0} \cup Versions]
    BY Basics, MemType
  <2>2. "simulation_info" \in Metadata /\ world["simulation_info"] \in Versions
    BY <1>4 DEF Metadata
  <2>3. [man.bound EXCEPT !["simulation_info"] = world["simulation_info"]]
            \in [Metadata -> {0} \cup Versions]
    BY <2>1, <2>2
  <2> QED
    BY <2>1, <2>2, <2>3
<1>6. mem' = [man EXCEPT !.bound = b]
  BY <1>1, <1>5, Basics DEF Manifests
<1>7. mem' \in Manifests /\ mem'.bound = b
  BY <1>5, <1>6, Basics DEF Manifests
<1>8. Binding(man, mem')
  <2>1. \A i \in Metadata : b[i] = man.bound[i] \/ man.bound[i] = 0
    BY <1>1, <1>5 DEF FixupsAccepted, Binds
  <2> QED
    BY <1>6, <1>7, <2>1, Basics DEF Manifests, Binding
<1>9. Linking' /\ Writing'
  BY <1>3 DEF Linking, Writing, LinkLoop, WriteSteps, EmitLoop
<1>10. Bound'
  <2>1. b["a_list"] # 0 /\ b["simulation_info"] # 0
    BY <1>1, <1>4, <1>5 DEF FixupsAccepted, BoundTo, Metadata
  <2> QED
    BY <1>3, <1>7, <2>1 DEF Bound, ScatterLoop
<1> QED
  BY <1>1, <1>2, <1>7, <1>8, <1>9, <1>10, CallAsIsKeeps DEF Commands, FirstSteps

\* The stages from "fixed" on.
LEMMA AtLeastFixed ==
    ASSUME NEW m \in Manifests, NEW s \in Snaps, AtLeast(m, s, "fixed")
    PROVE  m.status[s] \in {"fixed", "linked"}
<1>1. PICK j \in 1 .. 5, k \in 1 .. 5 :
          j >= k /\ Statuses[j] = m.status[s] /\ Statuses[k] = "fixed"
  BY DEF AtLeast, Statuses
<1>2. k = 4
  BY <1>1 DEF Statuses
<1> QED
  BY <1>1, <1>2 DEF Statuses

\* links, when all snapshots are fixed.
LEMMA CallLinksKeeps ==
    ASSUME IInv, CallLinks
    PROVE  IInv'
<1>1. /\ Called /\ UNCHANGED <<man, task>> /\ mem' = man /\ LinksAccepted
      /\ Enter("links", "identity", Entered(man))
  BY DEF CallLinks
<1>2. pc'.step = "identity" /\ pc'.todo = Entered(man)
  BY <1>1 DEF Enter
<1>3. Entered(man) # {} /\ Entered(man) \in SUBSET Snaps
  BY <1>1, StatusIs DEF LinksAccepted
<1>4. \A s \in Entered(man) : man.status[s] \in {"fixed", "linked"}
  BY <1>1, <1>3, Basics, AtLeastFixed DEF LinksAccepted
<1>5. Linking'
  <2>1. Entered(mem') = Entered(man)
    BY <1>1
  <2> QED
    BY <1>1, <1>2, <1>3, <1>4, <2>1 DEF Linking, LinkLoop
<1>6. Writing' /\ Bound'
  BY <1>2 DEF Writing, Bound, WriteSteps, EmitLoop, FixSteps, ScatterLoop
<1>7. mem' \in Manifests /\ Binding(man, mem')
  BY <1>1, Basics, BindingSelf
<1> QED
  BY <1>1, <1>3, <1>5, <1>6, <1>7, CallAsIsKeeps DEF Commands, FirstSteps

\* write, when all snapshots are linked and the metadata is that of the manifest.
LEMMA CallWriteKeeps ==
    ASSUME IInv, CallWrite
    PROVE  IInv'
<1>1. /\ Called /\ UNCHANGED <<man, task>> /\ mem' = man /\ WriteAccepted
      /\ Enter("write", "emit", Snaps)
  BY DEF CallWrite
<1>2. pc'.step = "emit"
  BY <1>1 DEF Enter
<1>3. Writing'
  <2>1. /\ Entered(mem') # {} /\ \A s \in Entered(mem') : mem'.status[s] = "linked"
        /\ \A i \in {"a_list", "simulation_info"} : mem'.bound[i] = world'[i]
    BY <1>1 DEF WriteAccepted, BoundTo, Called
  <2> QED
    BY <1>2, <2>1 DEF Writing
<1>4. Linking' /\ Bound'
  BY <1>2 DEF Linking, Bound, LinkLoop, FixSteps, ScatterLoop
<1>5. Snaps # {}
  BY Numbers
<1>6. mem' \in Manifests /\ Binding(man, mem')
  BY <1>1, Basics, BindingSelf
<1> QED
  BY <1>1, <1>3, <1>4, <1>5, <1>6, CallAsIsKeeps DEF Commands, FirstSteps

-----------------------------------------------------------------------------
(* report                                                                   *)

\* The rows that the emitted files of a validated dataset hold are, counted,
\* those of the sources; as they are among them, they are all of them.
LEMMA ReportIsTrue ==
    ASSUME IInv, ValidationPasses
    PROVE  \A s \in Snaps : EmittedRows(s) = RowsRecorded(s)
<1> DEFINE E == UNION {EmittedRows(s) : s \in Snaps}
           K == {k \in Sources \X Snaps : man.done[k[1]] # 0 /\ k[2] \in RowsAt[k[1]]}
           F == [k \in K |-> <<k[1], man.done[k[1]], k[2]>>]
           R == {F[k] : k \in K}
<1>1. ASSUME NEW s \in Snaps
      PROVE  /\ disk[Of("h5", s)] = man.output[Of("h5", s)]
             /\ man.output[Of("h5", s)] # NotOwned
             /\ OneVersion(man, disk[Of("h5", s)]) /\ Placed(disk[Of("h5", s)])
  <2>1. Of("h5", s) \in DatasetFiles /\ Of("h5", s) \in Files
    BY OfIsFile DEF DatasetFiles, Kinds
  <2>2. disk[Of("h5", s)] = man.output[Of("h5", s)] /\ disk[Of("h5", s)] # Gone
    BY <2>1 DEF ValidationPasses, BoundToManifest
  <2>3. disk[Of("h5", s)] \in Contents
    BY <2>1, <2>2, Basics
  <2>4. man.output[Of("h5", s)] # NotOwned
    BY <2>2, <2>3, PipelineAssumption
  <2>5. OutputOK(man, Of("h5", s), man.output[Of("h5", s)])
    BY <2>1, <2>4, Basics DEF Sound, OutputsOK
  <2> QED
    BY <2>2, <2>4, <2>5 DEF OutputOK
<1>2. \A f \in Sources : man.done[f] # 0
  <2>1. Of("h5", 0) \in Files \ (PerWorker \cup PerSource) /\ man.output[Of("h5", 0)] # NotOwned
    BY <1>1, Numbers, OfIsFile DEF Kinds
  <2>2. Entered(man) # {}
    BY <2>1, Basics DEF NothingYet
  <2> QED
    BY <2>2, Basics DEF Sound, DoneOK
<1>3. ASSUME NEW s \in Snaps, NEW r \in EmittedRows(s)
      PROVE  r \in RowsRecorded(s)
  <2>1. r \in disk[Of("h5", s)] /\ r[1] \in Sources /\ r[3] = s
    BY DEF EmittedRows
  <2>2. r \in Inputs \X Versions \X Snaps /\ r[2] = man.done[r[1]]
    BY <1>1, <2>1 DEF OneVersion, Genuine, VersionOf
  <2>3. s \in RowsAt[r[1]]
    BY <1>1, <2>1 DEF Placed
  <2>4. r = <<r[1], man.done[r[1]], s>>
    BY <2>1, <2>2
  <2> QED
    BY <2>1, <2>3, <2>4 DEF RowsRecorded, PartsOf
<1>4. ASSUME NEW s \in Snaps, NEW r \in RowsRecorded(s)
      PROVE  r \in R /\ r[1] \in Sources /\ r[3] = s
  <2>1. PICK f \in PartsOf(s) : r = <<f, man.done[f], s>>
    BY DEF RowsRecorded
  <2>2. <<f, s>> \in K
    BY <1>2 DEF PartsOf
  <2>3. F[<<f, s>>] = r
    BY <2>1, <2>2
  <2>4. r \in R
    <3> HIDE DEF F, K
    <3> QED
      BY <2>2, <2>3
  <2> QED
    BY <2>1, <2>4 DEF PartsOf
<1>5. E \in SUBSET R
  BY <1>3, <1>4
<1>6. IsFiniteSet(K)
  <2>1. IsFiniteSet(Snaps)
    BY FS_Interval, PipelineAssumption DEF Snaps
  <2>2. IsFiniteSet(Sources \X Snaps)
    BY <2>1, FS_Product, PipelineAssumption
  <2>3. K \in SUBSET (Sources \X Snaps)
    OBVIOUS
  <2> HIDE DEF K
  <2> QED
    BY <2>2, <2>3, FS_Subset
<1>7. IsFiniteSet(R) /\ Cardinality(R) = Cardinality(K)
  <2>1. F \in Bijection(K, R)
    <3>1. ASSUME NEW k \in K, NEW l \in K, F[k] = F[l]
          PROVE  k = l
      BY <3>1
    <3>2. DOMAIN F = K
      OBVIOUS
    <3>3. F \in [K -> R]
      OBVIOUS
    <3> HIDE DEF F, K
    <3>4. F \in Injection(K, R)
      BY <3>1, <3>2, <3>3 DEF Injection, IsInjective
    <3>5. F \in Surjection(K, R)
      BY <3>2, <3>3 DEF Surjection
    <3> QED
      BY <3>4, <3>5 DEF Bijection
  <2> HIDE DEF K, R, F
  <2>2. ExistsBijection(K, R)
    BY <2>1 DEF ExistsBijection
  <2> QED
    BY <1>6, <2>2, FS_Bijection
<1>8. Cardinality(E) = Cardinality(K)
  BY DEF ValidationPasses, RowsConserved
<1>9. E = R
  <2> HIDE DEF E, R, K
  <2> QED
    BY <1>5, <1>7, <1>8, FS_Subset
<1>10. ASSUME NEW s \in Snaps, NEW r \in RowsRecorded(s)
       PROVE  r \in EmittedRows(s)
  <2>1. r \in E /\ r[3] = s
    BY <1>4, <1>9
  <2>2. PICK t \in Snaps : r \in EmittedRows(t)
    BY <2>1
  <2> QED
    BY <2>1, <2>2 DEF EmittedRows
<1> QED
  BY <1>3, <1>10

\* report reads, and what it says is true.
LEMMA CallReportKeeps ==
    ASSUME IInv, CallReport
    PROVE  IInv'
<1>1. /\ UNCHANGED <<world, disk, man, mem, pc, task, faults>> /\ pc = Idle
      /\ last' = [cmd |-> "report",
                  how |-> IF man.emitted /\ ValidationPasses THEN "ok" ELSE "error"]
  BY DEF CallReport
<1>2. Types'
  BY <1>1 DEF IInv, Types, TypeOK, faults
<1>3. PcOK' /\ Stage' /\ Linking' /\ Writing' /\ Bound' /\ Pool'
  <2>1. PcOK'
    BY <1>1 DEF IInv, PcOK
  <2>2. Stage' /\ Bound'
    BY <1>1 DEF IInv, Stage, At, KnownToScatter, Bound
  <2>3. Linking' /\ Writing'
    BY <1>1 DEF Linking, Writing, Idle, LinkLoop, WriteSteps, EmitLoop
  <2>4. Pool'
    BY <1>1, Basics, PoolLater DEF IInv, Idle
  <2> QED
    BY <2>1, <2>2, <2>3, <2>4
<1>4. Saved' /\ Trusted'
  <2>1. Saved'
    BY <1>1 DEF IInv, Saved
  <2>2. Trusted'
    BY <1>1 DEF IInv, Trusted, faults
  <2> QED
    BY <2>1, <2>2
<1>5. Reported'
  <2>1. last'.how = "ok" => \A s \in Snaps : EmittedRows(s) = RowsRecorded(s)
    BY <1>1, ReportIsTrue
  <2>2. ASSUME NEW s PROVE EmittedRows(s)' = EmittedRows(s) /\ RowsRecorded(s)' = RowsRecorded(s)
    BY <1>1 DEF EmittedRows, RowsRecorded
  <2> QED
    BY <1>1, <2>1, <2>2 DEF Reported
<1> QED
  BY <1>2, <1>3, <1>4, <1>5 DEF IInv

-----------------------------------------------------------------------------
(* What the program does not decide.                                        *)

\* No file that is being written is one that a resumed run leads to.
LEMMA WritingIsSafe ==
    ASSUME IInv, pc.step # "idle", NEW x \in BeingWritten
    PROVE  x \in Files /\ \A s \in Snaps : ~Relies(man, world, s, x)
<1>1. CASE pc.step = "pool"
  <2>1. PICK f \in Sources :
            \/ task[f].st = "reading" /\ \E s \in RowsAt[f] : x = Worker(s, f)
            \/ task[f].st = "parsed" /\ x \in {Sidecar("roots", f), Sidecar("forest_max_src", f)}
    <3> DEFINE A == UNION {{Worker(s, f) : s \in RowsAt[f]} :
                               f \in {g \in Sources : task[g].st = "reading"}}
               B == UNION {{Sidecar("roots", f), Sidecar("forest_max_src", f)} :
                               f \in {g \in Sources : task[g].st = "parsed"}}
    <3>1. BeingWritten = A \cup B
      BY <1>1 DEF BeingWritten
    <3>2. x \in A => \E g \in Sources :
                        task[g].st = "reading" /\ \E s \in RowsAt[g] : x = Worker(s, g)
      OBVIOUS
    <3>3. x \in B => \E g \in Sources :
                        /\ task[g].st = "parsed"
                        /\ x \in {Sidecar("roots", g), Sidecar("forest_max_src", g)}
      OBVIOUS
    <3> HIDE DEF A, B
    <3> QED
      BY <3>1, <3>2, <3>3
  <2>2. CASE task[f].st = "reading" /\ \E s \in RowsAt[f] : x = Worker(s, f)
    <3>1. PICK t \in RowsAt[f] : x = Worker(t, f)
      BY <2>2
    <3>2. x \in Files /\ x[1] = "worker" /\ x[3] = f
      BY <3>1, Numbers, WorkerIsFile, ZenonT(40)
    <3>3. man.done[f] # world[f]
      <4>1. man.done[f] < world[f] /\ man.done[f] \in Nat /\ world[f] \in Versions
        BY <1>1, <2>2, Unrecorded
      <4> QED
        BY <4>1, Numbers
    <3> QED
      BY <3>2, <3>3, ReliedKinds
  <2>3. CASE x \in {Sidecar("roots", f), Sidecar("forest_max_src", f)}
    BY <2>3, SidecarIsFile, ReliedKinds
  <2> QED
    BY <2>1, <2>2, <2>3
<1>2. CASE pc.step = "concat_parts"
  <2>1. x = Of("snap", At) /\ At \in Snaps /\ ~KnownToScatter(At) /\ mem.status = man.status
    BY <1>2, Basics, InHand DEF BeingWritten, Looping, ScatterLoop, IInv, Stage, SaveSteps
  <2>2. x \in Files /\ x[1] = "snap" /\ x[2] = At
    BY <2>1, OfIsFile DEF Kinds
  <2> QED
    BY <2>1, <2>2, ReliedKinds DEF KnownToScatter
<1>3. CASE pc.step = "sort"
  <2>1. /\ x \in {Of("sorted", At), Of("idx", At)} /\ At \in Snaps
        /\ mem.status[At] = "concatenated" /\ mem.status = man.status
    BY <1>3, Basics, InHand DEF BeingWritten, Looping, SortLoop, IInv, Stage, SaveSteps
  <2>2. x \in Files /\ x[1] \in {"sorted", "idx"} /\ x[2] = At
    BY <2>1, OfIsFile DEF Kinds
  <2> QED
    BY <2>1, <2>2, ReliedKinds
<1>4. CASE pc.step = "fix"
  <2>1. /\ x = Of("fixed", At) /\ At \in Snaps
        /\ mem.status[At] = "sorted" /\ mem.status = man.status
    BY <1>4, Basics, InHand DEF BeingWritten, Looping, FixSteps, IInv, Stage, SaveSteps
  <2>2. x \in Files /\ x[1] = "fixed" /\ x[2] = At
    BY <2>1, OfIsFile DEF Kinds
  <2> QED
    BY <2>1, <2>2, ReliedKinds
<1>5. CASE pc.step = "link"
  <2>1. /\ x \in {Of("links", At)} \cup {Of("pending", s) : s \in {At + 1} \cap Snaps}
        /\ At \in Snaps /\ At \in Nat /\ mem.status[At] = "fixed" /\ mem.status = man.status
    BY <1>5, Basics, InHand DEF BeingWritten, Looping, LinkLoop, IInv, Stage, SaveSteps
  <2>2. CASE x = Of("links", At)
    <3>1. x \in Files /\ x[1] = "links" /\ x[2] = At
      BY <2>1, <2>2, OfIsFile DEF Kinds
    <3> QED
      BY <2>1, <3>1, ReliedKinds
  <2>3. CASE At + 1 \in Snaps /\ x = Of("pending", At + 1)
    <3>1. x \in Files /\ x[1] = "pending" /\ x[2] = At + 1
      BY <2>3, OfIsFile DEF Kinds
    <3>2. \A s \in Snaps : s + 1 = At + 1 => s = At
      BY <2>1, Numbers
    <3> QED
      BY <2>1, <3>1, <3>2, ReliedKinds
  <2> QED
    BY <2>1, <2>2, <2>3
<1>6. CASE pc.step \notin {"pool", "concat_parts", "sort", "fix", "link"}
  BY <1>6 DEF BeingWritten
<1> QED
  BY <1>1, <1>2, <1>3, <1>4, <1>5, <1>6

\* A kill leaves the saved manifest and files that are torn, but none it leads to.
LEMMA CrashKeeps ==
    ASSUME IInv, Crash
    PROVE  IInv'
<1>1. /\ pc # Idle /\ crashes < MaxCrashes /\ crashes' = crashes + 1
      /\ Finish("killed") /\ mem' = man /\ UNCHANGED <<world, man, edits, tampered>>
  BY DEF Crash
<1>2. PICK torn, new : /\ torn \in {{}, BeingWritten}
                       /\ new = [x \in torn |-> Torn] /\ disk' = Written(new)
  BY DEF Crash
<1>3. pc.step # "idle"
  BY <1>1, Basics DEF PcOK
<1>4. \A x \in torn : x \in Files /\ \A s \in Snaps : ~Relies(man, world, s, x)
  BY <1>2, <1>3, WritingIsSafe
<1>5. /\ DOMAIN new = torn /\ DOMAIN new \in SUBSET Files
      /\ \A x \in DOMAIN new : new[x] \in Contents \cup {Gone}
  BY <1>2, <1>4, BadIsContent
<1>6. /\ disk' \in [Files -> Contents \cup {Gone}]
      /\ \A x \in Files \ torn : disk'[x] = disk[x]
  BY <1>2, <1>5, Basics, WrittenIs
<1>7. Intact(man, world, disk) => Intact(man, world, disk')
  <2>1. \A s \in Snaps, x \in Files : Relies(man, world, s, x) => disk'[x] = disk[x]
    BY <1>4, <1>6
  <2> QED
    BY <2>1, IntactBeside
<1>8. crashes' \in 0 .. MaxCrashes
  BY <1>1, PipelineAssumption DEF IInv, Types, TypeOK
<1>9. PICK how \in {"ok", "error", "killed"} : how = "killed"
  OBVIOUS
<1> QED
  BY <1>1, <1>3, <1>6, <1>7, <1>8, <1>9, Basics, StopKeeps

\* A new version of an input makes the manifest lead to fewer worker files.
LEMMA EditInputKeeps ==
    ASSUME IInv, EditInput
    PROVE  IInv'
<1>1. /\ edits < MaxEdits /\ edits' = edits + 1
      /\ UNCHANGED <<disk, man, mem, pc, task, last, crashes, tampered>>
  BY DEF EditInput, Edits
<1>2. PICK i \in Inputs : /\ i \in Sources \/ pc = Idle
                          /\ world' = [world EXCEPT ![i] = @ + 1]
  BY DEF EditInput
<1>3. world \in [Inputs -> Versions] /\ edits \in Nat
  BY PipelineAssumption DEF IInv, Types, TypeOK
<1>4. /\ world'[i] = world[i] + 1 /\ \A j \in Inputs \ {i} : world'[j] = world[j]
      /\ DOMAIN world' = Inputs
  BY <1>2, <1>3
<1>5. \A j \in Inputs : /\ world[j] \in Nat /\ world'[j] \in Nat /\ 1 <= world'[j]
                        /\ world[j] <= world'[j] /\ world'[j] <= edits' + 1
  <2>1. \A j \in Inputs : world[j] \in Nat /\ 1 <= world[j] /\ world[j] <= edits + 1
    BY <1>3, PipelineAssumption DEF IInv, Types, Versions
  <2>2. world'[i] \in Nat /\ 1 <= world'[i] /\ world[i] <= world'[i] /\ world'[i] <= edits' + 1
    BY <1>1, <1>3, <1>4, <2>1
  <2> QED
    BY <1>1, <1>3, <1>4, <2>1, <2>2
<1>6. Types'
  <2>1. edits' \in 0 .. MaxEdits
    BY <1>1, <1>3, PipelineAssumption
  <2>2. \A j \in Inputs : world'[j] \in Versions
    BY <1>5, <2>1, PipelineAssumption DEF Versions
  <2>3. world' \in [Inputs -> Versions]
    BY <1>2, <1>3, <1>4, <2>2
  <2>4. TypeOK'
    BY <1>1, <2>1, <2>3 DEF IInv, Types, TypeOK
  <2> QED
    BY <1>5, <2>4 DEF Types
<1>7. PcOK'
  BY <1>1 DEF IInv, PcOK
<1>8. Stage' /\ Bound'
  BY <1>1 DEF IInv, Stage, At, KnownToScatter, Bound
<1>9. Linking'
  BY <1>1 DEF IInv, Linking, Verified, Entered
<1>10. Writing'
  <2>1. OutputOK(mem, Of("h5", At), disk[Of("h5", At)])'
            = OutputOK(mem, Of("h5", At), disk[Of("h5", At)])
    BY <1>1 DEF OutputOK, OneVersion, VersionOf, AllRows, At
  <2>2. pc.step \in WriteSteps => \A j \in {"a_list", "simulation_info"} : world'[j] = world[j]
    <3>1. SUFFICES ASSUME pc.step \in WriteSteps
                   PROVE  \A j \in {"a_list", "simulation_info"} : world'[j] = world[j]
      OBVIOUS
    <3>2. i \in Sources
      BY <1>2, <3>1 DEF Idle, WriteSteps, EmitLoop
    <3>3. \A j \in {"a_list", "simulation_info"} : j \in Inputs /\ j # i
      BY <3>2, Numbers DEF Metadata, Inputs
    <3> QED
      BY <1>4, <3>3
  <2> QED
    BY <1>1, <2>1, <2>2 DEF IInv, Writing, Entered
<1>11. \A f \in Sources : /\ man.done[f] \in Nat /\ man.done[f] <= world[f]
                          /\ f \in Inputs /\ mem.done[f] = man.done[f]
  <2>1. man.done \in [Sources -> {0} \cup Versions]
    BY Basics, MemType
  <2> QED
    BY <2>1, Basics, Numbers DEF IInv, Pool, Inputs
<1>12. Pool'
  <2>1. \A f \in Sources : /\ man.done[f] <= world'[f]
                           /\ man.done[f] < world[f] => man.done[f] < world'[f]
    BY <1>5, <1>11
  <2>2. \A f \in Sources : \A v \in 1 .. world[f] : v \in 1 .. world'[f]
    BY <1>5, <1>11
  <2>3. \A f, s, v : RowsOf(f, s, v)' = RowsOf(f, s, v)
    BY <1>1 DEF RowsOf, ForestMap
  <2>4. Entered(man)' = Entered(man)
    BY <1>1 DEF Entered
  <2> QED
    BY <1>1, <2>1, <2>2, <2>3, <2>4 DEF IInv, Pool
<1>13. Saved'
  BY <1>1 DEF IInv, Saved
<1>14. ASSUME NEW m \in {man, mem}, Intact(m, world, disk)
       PROVE  Intact(m, world', disk)
  <2> SUFFICES ASSUME NEW s \in Snaps, NEW x \in Files, Relies(m, world', s, x)
               PROVE  Relies(m, world, s, x)
    BY <1>14 DEF Intact
  <2>1. ASSUME NEW f \in PartsOf(s), m.done[f] = world'[f]
        PROVE  m.done[f] = world[f]
    <3>1. f \in Sources /\ m.done[f] = man.done[f]
      BY <1>11 DEF PartsOf
    <3>2. f # i
      <4>1. SUFFICES ASSUME f = i PROVE FALSE
        OBVIOUS
      <4>2. man.done[f] = world[f] + 1
        BY <1>4, <2>1, <3>1, <4>1
      <4> QED
        BY <1>5, <1>11, <3>1, <4>2
    <3> QED
      BY <1>4, <1>11, <2>1, <3>1, <3>2
  <2> QED
    BY <2>1 DEF Relies
<1>15. Trusted'
  BY <1>1, <1>14 DEF IInv, Trusted
<1>16. Reported'
  <2>1. \A s : EmittedRows(s)' = EmittedRows(s) /\ RowsRecorded(s)' = RowsRecorded(s)
    BY <1>1 DEF EmittedRows, RowsRecorded
  <2> QED
    BY <1>1, <2>1 DEF IInv, Reported
<1> QED
  BY <1>6, <1>7, <1>8, <1>9, <1>10, <1>12, <1>13, <1>15, <1>16 DEF IInv

\* When somebody touches the work directory, only the manifest is still sound.
LEMMA TamperKeeps ==
    ASSUME IInv, Tamper
    PROVE  IInv'
<1>1. /\ edits < MaxEdits /\ edits' = edits + 1 /\ pc = Idle /\ tampered' = TRUE
      /\ UNCHANGED <<world, man, mem, pc, task, last, crashes>>
  BY DEF Tamper, Edits
<1>2. PICK x \in Files, c \in {Gone, Foreign} : disk' = Written(Just(x, c))
  BY DEF Tamper
<1>3. disk' \in [Files -> Contents \cup {Gone}]
  BY <1>2, Basics, BadIsContent, JustWritten
<1>4. Types'
  <2>1. edits \in Nat /\ edits' \in 0 .. MaxEdits
    BY <1>1, PipelineAssumption DEF IInv, Types, TypeOK
  <2>2. \A i \in Inputs : world[i] \in Nat /\ world[i] <= edits' + 1
    <3>1. \A i \in Inputs : world[i] \in Versions /\ world[i] <= edits + 1
      BY DEF IInv, Types, TypeOK
    <3>2. \A i \in Inputs : world[i] \in Nat
      BY <3>1, Numbers
    <3> QED
      BY <1>1, <2>1, <3>1, <3>2
  <2> QED
    BY <1>1, <1>3, <2>1, <2>2 DEF IInv, Types, TypeOK
<1>5. PcOK'
  BY <1>1 DEF IInv, PcOK
<1>6. Stage' /\ Bound'
  BY <1>1 DEF IInv, Stage, At, KnownToScatter, Bound
<1>7. Linking' /\ Writing'
  BY <1>1 DEF Linking, Writing, Idle, LinkLoop, WriteSteps, EmitLoop
<1>8. Pool'
  BY <1>1, Basics, PoolLater DEF IInv, Idle
<1>9. Saved' /\ Trusted'
  <2>1. Saved'
    BY <1>1 DEF IInv, Saved
  <2>2. Trusted'
    BY <1>1 DEF Trusted
  <2> QED
    BY <2>1, <2>2
<1>10. Reported'
  BY <1>1 DEF IInv, Reported
<1> QED
  BY <1>4, <1>5, <1>6, <1>7, <1>8, <1>9, <1>10 DEF IInv

\* A step of something else.
LEMMA StutterKeeps ==
    ASSUME IInv, UNCHANGED vars
    PROVE  IInv'
<1>1. UNCHANGED <<world, disk, man, mem, pc, task, last, crashes, edits, tampered>>
  BY DEF vars, faults
<1>2. Types' /\ PcOK'
  BY <1>1 DEF IInv, Types, TypeOK, PcOK
<1>3. Stage' /\ Bound'
  BY <1>1 DEF IInv, Stage, At, KnownToScatter, Bound
<1>4. Linking'
  BY <1>1 DEF IInv, Linking, Verified, Entered
<1>5. Writing'
  <2>1. OutputOK(mem, Of("h5", At), disk[Of("h5", At)])'
            = OutputOK(mem, Of("h5", At), disk[Of("h5", At)])
    BY <1>1 DEF OutputOK, OneVersion, VersionOf, AllRows, At
  <2> QED
    BY <1>1, <2>1 DEF IInv, Writing, Entered
<1>6. Pool'
  <2>1. \A f, s, v : RowsOf(f, s, v)' = RowsOf(f, s, v)
    BY <1>1 DEF RowsOf, ForestMap
  <2> QED
    BY <1>1, <2>1 DEF IInv, Pool, Entered
<1>7. Saved'
  BY <1>1 DEF IInv, Saved
<1>8. Trusted'
  BY <1>1 DEF IInv, Trusted
<1>9. Reported'
  <2>1. \A s : EmittedRows(s)' = EmittedRows(s) /\ RowsRecorded(s)' = RowsRecorded(s)
    BY <1>1 DEF EmittedRows, RowsRecorded
  <2> QED
    BY <1>1, <2>1 DEF IInv, Reported
<1> QED
  BY <1>2, <1>3, <1>4, <1>5, <1>6, <1>7, <1>8, <1>9 DEF IInv

-----------------------------------------------------------------------------
(* The theorems.                                                            *)

\* A step of a command.
LEMMA WorkingKeeps ==
    ASSUME IInv, Working
    PROVE  IInv'
<1>1. CASE Scatter
  <2>1. CASE \E f \in Sources : StartSource(f) \/ FinishSource(f) \/ RecordSource(f)
    BY <2>1, StartSourceKeeps, FinishSourceKeeps, RecordSourceKeeps
  <2>2. CASE SourceChanged \/ ScatterRefuses
    BY <2>2, RefusalsKeep
  <2>3. CASE FinalizeTables
    BY <2>3, FinalizeTablesKeeps
  <2>4. CASE SkipConcat \/ OpenTarget \/ Concatenate \/ SaveConcat
    BY <2>4, SkipConcatKeeps, OpenTargetKeeps, ConcatenateKeeps, SaveConcatKeeps
  <2>5. CASE RemoveWorker \/ SaveCleanup
    BY <2>5, RemoveWorkerKeeps, SaveCleanupKeeps
  <2> QED
    BY <1>1, <2>1, <2>2, <2>3, <2>4, <2>5 DEF Scatter
<1>2. CASE Sort
  BY <1>2, SkipSortKeeps, SortSnapshotKeeps, SaveSortKeeps, RemoveUnsortedKeeps,
     SaveUnsortedKeeps, RefusalsKeep DEF Sort
<1>3. CASE Fixups
  BY <1>3, BindSimulationInfoKeeps, LoadForestMaxKeeps, SkipFixKeeps, FixSnapshotKeeps,
     SaveFixKeeps, RefusalsKeep DEF Fixups
<1>4. CASE Link
  BY <1>4, ComputeIdentityKeeps, SkipLinksKeeps, LinkSnapshotKeeps, SaveLinksKeeps,
     RefusalsKeep DEF Link
<1>5. CASE Write
  BY <1>5, SkipOutputKeeps, EmitSnapshotKeeps, RecordOutputKeeps, EmitSidecarKeeps,
     SkipSidecarKeeps, SaveWriteKeeps, RefusalsKeep DEF Write
<1>6. CASE Done
  BY <1>6, DoneKeeps
<1> QED
  BY <1>1, <1>2, <1>3, <1>4, <1>5, <1>6 DEF Working

\* Every step keeps the invariant.
LEMMA StepHolds ==
    ASSUME IInv, [Next]_vars
    PROVE  IInv'
<1>1. CASE Working
  BY <1>1, WorkingKeeps
<1>2. CASE Calls
  BY <1>2, CallScatterKeeps, CallSortKeeps, CallFixupsKeeps, CallLinksKeeps, CallWriteKeeps
     DEF Calls
<1>3. CASE CallReport
  BY <1>3, CallReportKeeps
<1>4. CASE Crash
  BY <1>4, CrashKeeps
<1>5. CASE EditInput
  BY <1>5, EditInputKeeps
<1>6. CASE Tamper
  BY <1>6, TamperKeeps
<1>7. CASE UNCHANGED vars
  BY <1>7, StutterKeeps
<1> QED
  BY <1>1, <1>2, <1>3, <1>4, <1>5, <1>6, <1>7 DEF Next

\* The invariant that all theorems rest on holds in every reachable state.
THEOREM Invariance == Spec => []IInv
<1>1. Init => IInv
  BY InitHolds
<1>2. IInv /\ [Next]_vars => IInv'
  BY StepHolds
<1> QED
  BY <1>1, <1>2, PTL DEF Spec

\* Whenever no command runs, the files that a resumed run leads to are there, as
\* the manifest has them: no kill between two writes, no refusal and no edit of an
\* input leaves a manifest that claims more than the work directory has.
THEOREM ManifestStaysTrue == Spec => []ManifestIsTrue
<1>1. IInv => ManifestIsTrue
  BY TrustedMeansTrue DEF IInv, Types
<1> QED
  BY <1>1, Invariance, PTL

\* All that was emitted comes from one version of each input, the one that the
\* manifest names, however often the commands were called and the inputs edited.
THEOREM OneConversionHolds == Spec => []OneConversion
<1>1. ASSUME IInv PROVE OneConversion
  <2>1. ASSUME NEW x \in Files, man.output[x] # NotOwned, NEW r \in man.output[x]
        PROVE  /\ r \in Inputs \X Versions \X Snaps
               /\ r[2] = VersionOf(man, r[1])
    <3>1. OutputOK(man, x, man.output[x])
      BY <1>1, <2>1, Basics DEF Sound, OutputsOK
    <3> QED
      BY <2>1, <3>1 DEF OutputOK, OneVersion, Genuine
  <2> DEFINE emitted == UNION {man.output[x] : x \in {y \in Files : man.output[y] # NotOwned}}
  <2> SUFFICES ASSUME NEW r \in emitted, NEW q \in emitted
               PROVE  (r[1] = q[1] => r[2] = q[2]) /\ r \notin Torn \cup Foreign
    BY DEF OneConversion
  <2>2. r \in Inputs \X Versions \X Snaps /\ r[2] = VersionOf(man, r[1])
    BY <2>1
  <2>3. q[2] = VersionOf(man, q[1])
    BY <2>1
  <2>4. r[2] # 0
    BY <2>2, Numbers
  <2>5. r \notin Torn \cup Foreign
    BY <2>4 DEF Torn, Foreign
  <2> QED
    BY <2>2, <2>3, <2>5
<1> QED
  BY <1>1, Invariance, PTL

\* A sound manifest has all rows of a snapshot.
LEMMA SoundIsComplete ==
    ASSUME Sound(man)
    PROVE  RowsComplete
<1> SUFFICES ASSUME NEW s \in Snaps, NEW kind \in {"snap", "sorted", "fixed"},
                    man.owned[Of(kind, s)] \notin {NotOwned, Removed}
             PROVE  {r \in man.owned[Of(kind, s)] : r[1] \in Sources} = RowsRecorded(s)
  BY DEF RowsComplete
<1>1. Of(kind, s) \in Files /\ Of(kind, s)[1] = kind /\ Of(kind, s)[2] = s
  BY OfIsFile DEF Kinds
<1>2. ContentOK(man, Of(kind, s), man.owned[Of(kind, s)])
  BY <1>1 DEF Sound, OwnedOK
<1>3. RowsRecorded(s) = AllRows(man, s)
  BY DEF RowsRecorded, AllRows
<1> QED
  BY <1>1, <1>2, <1>3 DEF ContentOK

\* What a snapshot has become in any stage was computed from all of its sources,
\* each in the version recorded for it: a kill or an error of some workers never
\* leads to a snapshot with some of the rows.
THEOREM NoRowMissing == Spec => []RowsComplete
<1>1. IInv => RowsComplete
  BY SoundIsComplete DEF IInv, Saved
<1> QED
  BY <1>1, Invariance, PTL

\* The report passes no other dataset than that of the conversion.
ReportIsHonest ==
    last = [cmd |-> "report", how |-> "ok"] /\ ~tampered =>
        \A s \in Snaps : EmittedRows(s) = RowsRecorded(s)

\* When the report has found no error and nobody touched the files since, every
\* emitted snapshot holds exactly the rows of its sources: comparing the number of
\* rows is enough, because no emitted file can hold a row that is not one of them.
THEOREM ReportTellsTheTruth == Spec => []ReportIsHonest
<1>1. IInv => ReportIsHonest
  BY DEF IInv, Reported, ReportIsHonest
<1> QED
  BY <1>1, Invariance, PTL

\* From the sources to the emitted files no row is lost, provided that a scatter
\* that was cut short shows: otherwise the write stage emits the populated
\* snapshots it never heard of as empty ones, and only the report notices.
THEOREM NoRowIsLost ==
    ASSUME EveryGapShows
    PROVE  Spec => []NoRowLost
<1>1. ASSUME IInv PROVE NoRowLost
  <2>1. Sound(man)
    BY <1>1, Basics
  <2>2. RowsComplete
    BY <2>1, SoundIsComplete
  <2>3. ASSUME NEW s \in Populated, man.output[Of("h5", s)] # NotOwned
        PROVE  RowsRecorded(s) \subseteq man.output[Of("h5", s)]
    <3>1. s \in Snaps
      BY Numbers
    <3>2. Of("h5", s) \in Files /\ Of("h5", s)[1] = "h5" /\ Of("h5", s)[2] = s
      BY <3>1, OfIsFile DEF Kinds
    <3>3. OutputOK(man, Of("h5", s), man.output[Of("h5", s)])
      BY <2>1, <2>3, <3>2 DEF Sound, OutputsOK
    <3>4. RowsRecorded(s) = AllRows(man, s)
      BY DEF RowsRecorded, AllRows
    <3> QED
      BY <3>2, <3>3, <3>4 DEF OutputOK
  <2>4. WrittenIsWhole
    BY <1>1, <2>3 DEF WrittenIsWhole, IInv, Reported
  <2> QED
    BY <2>2, <2>4 DEF NoRowLost
<1> QED
  BY <1>1, Invariance, PTL
=============================================================================
