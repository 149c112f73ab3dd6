--------------------------- MODULE RegistryProofs ---------------------------
(***************************************************************************)
(* Proofs about the registered modules: the engine that runs them, and the *)
(* generators that make the registry and the record from the metadata.     *)
(*                                                                         *)
(* The engine runs the configured modules over a group, for every          *)
(* registry, every set of configurations, every number of substeps and     *)
(* galaxies and every size of the event buffer: events are heard in turn,  *)
(* and a phase makes the calls it owes, each once and in order.  For the   *)
(* first, what has to be known is which phase runs (InPhase), who may emit *)
(* (EmissionGuarded) and which event the loop of dispatch_events_range()   *)
(* has in hand (DispatchInTurn); for the second, what was called up to     *)
(* here (Made) and by whom an event was emitted (CallerIsLast,             *)
(* EmitterKnown).                                                          *)
(*                                                                         *)
(* The generators run for every set of selections, all metadata of the     *)
(* repository's form and any number of commands, edits and kills.  What    *)
(* has to be known is that the files of a generator are of one generation  *)
(* unless the last was torn (FilesBelong), that a module file was made of  *)
(* valid metadata even then (SourcesAreValid), what the files written so   *)
(* far are of (InProgress), and which hashes are saved (HashesAreSaved).   *)
(* The rest is about the metadata: equal hashes give equal files, and      *)
(* what validation asks for makes the record, its units and the events     *)
(* agree.                                                                  *)
(***************************************************************************)
EXTENDS PhaseExecution, GeneratedCode, NumberFacts, SequenceTheorems

-----------------------------------------------------------------------------
(* The pipeline: FlattenSeq() puts its phases into one sequence.             *)

\* The phases in execution order are phases of entries.
LEMMA PipelineIsSeq ==
    ASSUME NEW config \in Configs
    PROVE  PhasesInOrder(config) \in Seq(Seq(Entry))
<1>1. config.pre \in Seq(Entry) /\ config.phases \in Seq(Seq(Entry)) /\ config.post \in Seq(Entry)
  BY ConfigsAssumption
<1>2. [step \in 1 .. NumSubsteps |-> config.phases] \in Seq(Seq(Seq(Entry)))
  BY <1>1, SizesAssumption
<1>3. FlattenSeq([step \in 1 .. NumSubsteps |-> config.phases]) \in Seq(Seq(Entry))
  BY <1>2, FlattenIsSeq
<1>4. <<config.pre>> \in Seq(Seq(Entry)) /\ <<config.post>> \in Seq(Seq(Entry))
  BY <1>1
<1> QED
  BY <1>3, <1>4, ConcatProperties DEF PhasesInOrder

-----------------------------------------------------------------------------
(* The inductive invariant.                                                  *)

Running == {"full", "in_full", "dispatch", "in_event", "galaxies", "in_galaxy"}

\* A phase that runs is one of the pipeline's.
InPhase ==
    /\ pipeline \in Seq(Seq(Entry))
    /\ pc \in Running => ph \in 1 .. Len(pipeline)

\* Only a full-halo module may emit; who is called on an event may not; and what
\* a dispatch gives back when it ends is a right that a producer had.
EmissionGuarded ==
    /\ emissionAllowed => pc \in {"in_full", "fatal"}
    /\ pc \in {"dispatch", "in_event"} /\ prior => producer # NoProducer

\* The loop over the events has one of them in hand, and lets go of it.
DispatchInTurn ==
    /\ pc = "in_event" => cursor <= Len(events) /\ activeEvent = cursor
    /\ pc = "dispatch" => cursor >= 1 /\ (cursor > Len(events) => activeEvent = NoEvent)
    /\ pc \in {"validate", "full", "galaxies"} => activeEvent = NoEvent

IInv == EventsInTurn /\ InPhase /\ EmissionGuarded /\ DispatchInTurn

\* The phase that runs is a sequence of entries of registered modules.
LEMMA RunningPhase ==
    ASSUME IInv, pc \in Running
    PROVE  Phase \in Seq(Entry) /\ Len(Phase) \in Nat
<1>1. ph \in 1 .. Len(pipeline) /\ pipeline \in Seq(Seq(Entry))
  BY DEF IInv, InPhase
<1>2. Phase \in Seq(Entry)
  BY <1>1, ElementOfSeq DEF Phase
<1> QED
  BY <1>2, LenProperties

\* The registry knows what the modules of a running phase declare.
LEMMA DeclTyped ==
    ASSUME IInv, pc \in Running, NEW k \in 1 .. Len(Phase)
    PROVE  Decl(k) \in Declaration
<1>1. Phase[k] \in Entry
  BY RunningPhase, ElementOfSeq
<1>2. Phase[k].name \in Names
  BY <1>1 DEF Entry
<1> QED
  BY <1>2, RegistryAssumption DEF Decl

\* An empty buffer.
LEMMA NoEvents == <<>> \in Seq(Event) /\ Len(<<>>) = 0
OBVIOUS

\* The lengths of the buffer and of the pipeline are numbers.
LEMMA Counted ==
    ASSUME IInv
    PROVE  Len(events) \in Nat /\ Len(pipeline) \in Nat
BY LenProperties DEF IInv, EventsInTurn, TypeOK, InPhase

-----------------------------------------------------------------------------
(* The first state.                                                          *)

\* module_system_init() has read the configuration and nothing ran yet.
LEMMA InitHolds == Init => IInv
<1> SUFFICES ASSUME Init PROVE IInv
  OBVIOUS
<1>1. PICK config \in Configs : pipeline = PhasesInOrder(config)
  BY DEF Init
<1>2. pipeline \in Seq(Seq(Entry))
  BY <1>1, PipelineIsSeq
<1>3. Len(pipeline) \in Nat
  BY <1>2, LenProperties
<1>4. TypeOK
  <2>1. events \in Seq(Event) /\ Len(events) = 0
    BY NoEvents DEF Init
  <2>2. ph \in 1 .. Len(pipeline) + 1
    BY <1>3 DEF Init
  <2>pc. pc \in {"validate", "rejected", "between", "full", "in_full", "dispatch",
                  "in_event", "galaxies", "in_galaxy", "fatal"}
    BY <2>1, SizesAssumption DEF Init, NoEvent, NoProducer
  <2>m. m \in Nat \ {0} /\ g \in 0 .. NumGals
    BY <2>1, SizesAssumption DEF Init, NoEvent, NoProducer
  <2>e. Len(events) <= MaxEvents /\ lastDispatched \in 0 .. Len(events)
    BY <2>1, SizesAssumption DEF Init, NoEvent, NoProducer
  <2>c. cursor \in Nat /\ consumer \in Nat \ {0}
    BY <2>1, SizesAssumption DEF Init, NoEvent, NoProducer
  <2>a. activeEvent \in 0 .. Len(events)
    BY <2>1, SizesAssumption DEF Init, NoEvent, NoProducer
  <2>r. prior \in BOOLEAN /\ emissionAllowed \in BOOLEAN
    BY <2>1, SizesAssumption DEF Init, NoEvent, NoProducer
  <2>p. producer \in Nat /\ consumed \subseteq Gals
    BY <2>1, SizesAssumption DEF Init, NoEvent, NoProducer
  <2> QED
    BY <2>1, <2>2, <2>pc, <2>m, <2>e, <2>c, <2>a, <2>r, <2>p DEF TypeOK
<1>5. HeardBeforeGoingOn /\ ActiveEventIsOwn /\ InPhase /\ EmissionGuarded /\ DispatchInTurn
  BY <1>2 DEF Init, HeardBeforeGoingOn, ActiveEventIsOwn, InPhase, EmissionGuarded,
              DispatchInTurn, Running
<1> QED
  BY <1>4, <1>5 DEF IInv, EventsInTurn

-----------------------------------------------------------------------------
(* The steps.                                                                *)

\* The configuration is accepted.
LEMMA AcceptKeeps == IInv /\ Accept => IInv'
<1> SUFFICES ASSUME IInv, Accept PROVE IInv'
  OBVIOUS
<1> USE DEF IInv, EventsInTurn
<1>1. TypeOK'
  BY SizesAssumption DEF Accept, TypeOK, dispatch, emission, NoEvent, NoProducer, Gals
<1>2. HeardBeforeGoingOn'
  BY SizesAssumption DEF Accept, HeardBeforeGoingOn, dispatch
<1>3. ActiveEventIsOwn'
  BY DEF Accept, ActiveEventIsOwn, DispatchInTurn, dispatch
<1>4. InPhase'
  BY SizesAssumption DEF Accept, InPhase, Running, dispatch
<1>5. EmissionGuarded'
  BY SizesAssumption DEF Accept, EmissionGuarded, dispatch, emission
<1>6. DispatchInTurn'
  BY SizesAssumption DEF Accept, DispatchInTurn, dispatch
<1> QED
  BY <1>1, <1>2, <1>3, <1>4, <1>5, <1>6

\* The configuration is refused.
LEMMA RejectKeeps == IInv /\ Reject => IInv'
<1> SUFFICES ASSUME IInv, Reject PROVE IInv'
  OBVIOUS
<1> USE DEF IInv, EventsInTurn
<1>1. TypeOK'
  BY SizesAssumption DEF Reject, TypeOK, dispatch, emission, NoEvent, NoProducer, Gals
<1>2. HeardBeforeGoingOn'
  BY SizesAssumption DEF Reject, HeardBeforeGoingOn, dispatch
<1>3. ActiveEventIsOwn'
  BY SizesAssumption DEF Reject, ActiveEventIsOwn, dispatch, NoEvent, Decl, Phase
<1>4. InPhase'
  BY SizesAssumption DEF Reject, InPhase, Running, dispatch
<1>5. EmissionGuarded'
  BY SizesAssumption DEF Reject, EmissionGuarded, dispatch, emission
<1>6. DispatchInTurn'
  BY SizesAssumption DEF Reject, DispatchInTurn, dispatch
<1> QED
  BY <1>1, <1>2, <1>3, <1>4, <1>5, <1>6

\* begin_phase_event_dispatch() clears the event state.
LEMMA BeginPhaseKeeps == IInv /\ BeginPhase => IInv'
<1> SUFFICES ASSUME IInv, BeginPhase PROVE IInv'
  OBVIOUS
<1> USE DEF IInv, EventsInTurn
<1>1. TypeOK'
  <2>1. events' \in Seq(Event) /\ Len(events') = 0
    BY NoEvents DEF BeginPhase
  <2>2. ph' \in 1 .. Len(pipeline') + 1
    BY Counted DEF TypeOK, BeginPhase
  <2>pc. pc' \in {"validate", "rejected", "between", "full", "in_full", "dispatch",
                  "in_event", "galaxies", "in_galaxy", "fatal"}
    BY <2>1, Counted, SizesAssumption DEF BeginPhase, TypeOK, NoEvent, NoProducer
  <2>m. m' \in Nat \ {0} /\ g' \in 0 .. NumGals
    BY <2>1, Counted, SizesAssumption DEF BeginPhase, TypeOK, NoEvent, NoProducer
  <2>e. Len(events') <= MaxEvents /\ lastDispatched' \in 0 .. Len(events')
    BY <2>1, Counted, SizesAssumption DEF BeginPhase, TypeOK, NoEvent, NoProducer
  <2>c. cursor' \in Nat /\ consumer' \in Nat \ {0}
    BY <2>1, Counted, SizesAssumption DEF BeginPhase, TypeOK, NoEvent, NoProducer
  <2>a. activeEvent' \in 0 .. Len(events')
    BY <2>1, Counted, SizesAssumption DEF BeginPhase, TypeOK, NoEvent, NoProducer
  <2>r. prior' \in BOOLEAN /\ emissionAllowed' \in BOOLEAN
    BY <2>1, Counted, SizesAssumption DEF BeginPhase, TypeOK, NoEvent, NoProducer
  <2>p. producer' \in Nat /\ consumed' \subseteq Gals
    BY <2>1, Counted, SizesAssumption DEF BeginPhase, TypeOK, NoEvent, NoProducer
  <2> QED
    BY <2>1, <2>2, <2>pc, <2>m, <2>e, <2>c, <2>a, <2>r, <2>p DEF TypeOK
<1>2. HeardBeforeGoingOn'
  BY SizesAssumption DEF BeginPhase, HeardBeforeGoingOn, dispatch
<1>3. ActiveEventIsOwn'
  BY SizesAssumption DEF BeginPhase, ActiveEventIsOwn, dispatch, NoEvent, Decl, Phase
<1>4. InPhase'
  BY Counted DEF BeginPhase, InPhase, TypeOK, Running
<1>5. EmissionGuarded'
  BY SizesAssumption DEF BeginPhase, EmissionGuarded, dispatch, emission
<1>6. DispatchInTurn'
  BY SizesAssumption DEF BeginPhase, DispatchInTurn, dispatch
<1> QED
  BY <1>1, <1>2, <1>3, <1>4, <1>5, <1>6

\* A phase without modules is passed over.
LEMMA SkipPhaseKeeps == IInv /\ SkipPhase => IInv'
<1> SUFFICES ASSUME IInv, SkipPhase PROVE IInv'
  OBVIOUS
<1> USE DEF IInv, EventsInTurn
<1>1. TypeOK'
  BY SizesAssumption DEF SkipPhase, TypeOK, dispatch, emission, NoEvent, NoProducer, Gals
<1>2. HeardBeforeGoingOn'
  BY SizesAssumption DEF SkipPhase, HeardBeforeGoingOn, dispatch
<1>3. ActiveEventIsOwn'
  BY SizesAssumption DEF SkipPhase, ActiveEventIsOwn, dispatch, NoEvent, Decl, Phase
<1>4. InPhase'
  BY SizesAssumption DEF SkipPhase, InPhase, Running, dispatch
<1>5. EmissionGuarded'
  BY SizesAssumption DEF SkipPhase, EmissionGuarded, dispatch, emission
<1>6. DispatchInTurn'
  BY SizesAssumption DEF SkipPhase, DispatchInTurn, dispatch
<1> QED
  BY <1>1, <1>2, <1>3, <1>4, <1>5, <1>6

\* end_phase_event_dispatch() clears the event state.
LEMMA EndPhaseKeeps == IInv /\ EndPhase => IInv'
<1> SUFFICES ASSUME IInv, EndPhase PROVE IInv'
  OBVIOUS
<1> USE DEF IInv, EventsInTurn
<1>1. TypeOK'
  <2>1. events' \in Seq(Event) /\ Len(events') = 0
    BY NoEvents DEF EndPhase
  <2>2. ph' \in 1 .. Len(pipeline') + 1
    BY Counted DEF InPhase, Running, EndPhase
  <2>pc. pc' \in {"validate", "rejected", "between", "full", "in_full", "dispatch",
                  "in_event", "galaxies", "in_galaxy", "fatal"}
    BY <2>1, Counted, SizesAssumption DEF EndPhase, TypeOK, NoEvent, NoProducer
  <2>m. m' \in Nat \ {0} /\ g' \in 0 .. NumGals
    BY <2>1, Counted, SizesAssumption DEF EndPhase, TypeOK, NoEvent, NoProducer
  <2>e. Len(events') <= MaxEvents /\ lastDispatched' \in 0 .. Len(events')
    BY <2>1, Counted, SizesAssumption DEF EndPhase, TypeOK, NoEvent, NoProducer
  <2>c. cursor' \in Nat /\ consumer' \in Nat \ {0}
    BY <2>1, Counted, SizesAssumption DEF EndPhase, TypeOK, NoEvent, NoProducer
  <2>a. activeEvent' \in 0 .. Len(events')
    BY <2>1, Counted, SizesAssumption DEF EndPhase, TypeOK, NoEvent, NoProducer
  <2>r. prior' \in BOOLEAN /\ emissionAllowed' \in BOOLEAN
    BY <2>1, Counted, SizesAssumption DEF EndPhase, TypeOK, NoEvent, NoProducer
  <2>p. producer' \in Nat /\ consumed' \subseteq Gals
    BY <2>1, Counted, SizesAssumption DEF EndPhase, TypeOK, NoEvent, NoProducer
  <2> QED
    BY <2>1, <2>2, <2>pc, <2>m, <2>e, <2>c, <2>a, <2>r, <2>p DEF TypeOK
<1>2. HeardBeforeGoingOn'
  BY SizesAssumption DEF EndPhase, HeardBeforeGoingOn, dispatch
<1>3. ActiveEventIsOwn'
  BY SizesAssumption DEF EndPhase, ActiveEventIsOwn, dispatch, NoEvent, Decl, Phase
<1>4. InPhase'
  BY SizesAssumption DEF EndPhase, InPhase, Running, dispatch
<1>5. EmissionGuarded'
  BY SizesAssumption DEF EndPhase, EmissionGuarded, dispatch, emission
<1>6. DispatchInTurn'
  BY SizesAssumption DEF EndPhase, DispatchInTurn, dispatch
<1> QED
  BY <1>1, <1>2, <1>3, <1>4, <1>5, <1>6

\* A full-halo module starts with the right to emit and no active event.
LEMMA CallFullHaloKeeps == IInv /\ CallFullHalo => IInv'
<1> SUFFICES ASSUME IInv, CallFullHalo PROVE IInv'
  OBVIOUS
<1> USE DEF IInv, EventsInTurn
<1>1. TypeOK'
  <2>1. m \in 1 .. Len(Phase)
    BY RunningPhase DEF CallFullHalo, TypeOK, Running
  <2>2. producer' \in Nat
    BY <2>1, DeclTyped DEF CallFullHalo, Declaration, Running
  <2> QED
    BY <2>2, Counted DEF TypeOK, CallFullHalo, NoEvent
<1>2. HeardBeforeGoingOn'
  BY SizesAssumption DEF CallFullHalo, HeardBeforeGoingOn, dispatch
<1>3. ActiveEventIsOwn'
  BY SizesAssumption DEF CallFullHalo, ActiveEventIsOwn, dispatch, NoEvent, Decl, Phase
<1>4. InPhase'
  BY SizesAssumption DEF CallFullHalo, InPhase, Running, dispatch
<1>5. EmissionGuarded'
  BY SizesAssumption DEF CallFullHalo, EmissionGuarded, dispatch, emission
<1>6. DispatchInTurn'
  BY SizesAssumption DEF CallFullHalo, DispatchInTurn, dispatch
<1> QED
  BY <1>1, <1>2, <1>3, <1>4, <1>5, <1>6

\* Another entry is passed over.
LEMMA NotFullHaloKeeps == IInv /\ NotFullHalo => IInv'
<1> SUFFICES ASSUME IInv, NotFullHalo PROVE IInv'
  OBVIOUS
<1> USE DEF IInv, EventsInTurn
<1>1. TypeOK'
  BY SizesAssumption DEF NotFullHalo, TypeOK, dispatch, emission, NoEvent, NoProducer, Gals
<1>2. HeardBeforeGoingOn'
  BY SizesAssumption DEF NotFullHalo, HeardBeforeGoingOn, dispatch
<1>3. ActiveEventIsOwn'
  BY SizesAssumption DEF NotFullHalo, ActiveEventIsOwn, dispatch, NoEvent, Decl, Phase
<1>4. InPhase'
  BY SizesAssumption DEF NotFullHalo, InPhase, Running, dispatch
<1>5. EmissionGuarded'
  BY SizesAssumption DEF NotFullHalo, EmissionGuarded, dispatch, emission
<1>6. DispatchInTurn'
  BY SizesAssumption DEF NotFullHalo, DispatchInTurn, dispatch
<1> QED
  BY <1>1, <1>2, <1>3, <1>4, <1>5, <1>6

\* When a full-halo module returns nothing waits, so the safety dispatch after it
\* is never entered.
LEMMA FullHaloReturnsKeeps == IInv /\ FullHaloReturns => IInv'
<1> SUFFICES ASSUME IInv, FullHaloReturns PROVE IInv'
  OBVIOUS
<1> USE DEF IInv, EventsInTurn
<1>1. TypeOK'
  <2>pc. pc' \in {"validate", "rejected", "between", "full", "in_full", "dispatch",
                  "in_event", "galaxies", "in_galaxy", "fatal"}
    BY Counted, SizesAssumption DEF FullHaloReturns, TypeOK, NoEvent, NoProducer, HeardBeforeGoingOn
  <2>m. m' \in Nat \ {0} /\ g' \in 0 .. NumGals
    BY Counted, SizesAssumption DEF FullHaloReturns, TypeOK, NoEvent, NoProducer, HeardBeforeGoingOn
  <2>e. Len(events') <= MaxEvents /\ lastDispatched' \in 0 .. Len(events')
    BY Counted, SizesAssumption DEF FullHaloReturns, TypeOK, NoEvent, NoProducer, HeardBeforeGoingOn
  <2>c. cursor' \in Nat /\ consumer' \in Nat \ {0}
    BY Counted, SizesAssumption DEF FullHaloReturns, TypeOK, NoEvent, NoProducer, HeardBeforeGoingOn
  <2>a. activeEvent' \in 0 .. Len(events')
    BY Counted, SizesAssumption DEF FullHaloReturns, TypeOK, NoEvent, NoProducer, HeardBeforeGoingOn
  <2>r. prior' \in BOOLEAN /\ emissionAllowed' \in BOOLEAN
    BY Counted, SizesAssumption DEF FullHaloReturns, TypeOK, NoEvent, NoProducer, HeardBeforeGoingOn
  <2>p. producer' \in Nat /\ consumed' \subseteq Gals
    BY Counted, SizesAssumption DEF FullHaloReturns, TypeOK, NoEvent, NoProducer, HeardBeforeGoingOn
  <2> QED
    BY <2>pc, <2>m, <2>e, <2>c, <2>a, <2>r, <2>p DEF TypeOK, FullHaloReturns
<1>2. HeardBeforeGoingOn'
  BY SizesAssumption DEF FullHaloReturns, HeardBeforeGoingOn, dispatch
<1>3. ActiveEventIsOwn'
  BY SizesAssumption DEF FullHaloReturns, ActiveEventIsOwn, dispatch, NoEvent, Decl, Phase
<1>4. InPhase'
  BY SizesAssumption DEF FullHaloReturns, InPhase, Running, dispatch
<1>5. EmissionGuarded'
  BY SizesAssumption DEF FullHaloReturns, EmissionGuarded, dispatch, emission
<1>6. DispatchInTurn'
  <2>1. lastDispatched = Len(events)
    BY DEF FullHaloReturns, HeardBeforeGoingOn
  <2> QED
    BY <2>1, Counted DEF DispatchInTurn, FullHaloReturns, ActiveEventIsOwn
<1> QED
  BY <1>1, <1>2, <1>3, <1>4, <1>5, <1>6

\* Galaxies become Type 3; the events do not see it.
LEMMA ConsumeKeeps == IInv /\ Consume => IInv'
<1> SUFFICES ASSUME IInv, Consume PROVE IInv'
  OBVIOUS
<1> USE DEF IInv, EventsInTurn
<1>1. TypeOK'
  BY SizesAssumption DEF Consume, TypeOK, dispatch, emission, NoEvent, NoProducer, Gals
<1>2. HeardBeforeGoingOn'
  BY SizesAssumption DEF Consume, HeardBeforeGoingOn, dispatch
<1>3. ActiveEventIsOwn'
  BY SizesAssumption DEF Consume, ActiveEventIsOwn, dispatch, NoEvent, Decl, Phase
<1>4. InPhase'
  BY SizesAssumption DEF Consume, InPhase, Running, dispatch
<1>5. EmissionGuarded'
  BY SizesAssumption DEF Consume, EmissionGuarded, dispatch, emission
<1>6. DispatchInTurn'
  BY SizesAssumption DEF Consume, DispatchInTurn, dispatch
<1> QED
  BY <1>1, <1>2, <1>3, <1>4, <1>5, <1>6

\* Only a full-halo module gets this far (EmissionGuarded): the event is one that
\* its producer declares and there is room for it, and the right to emit is kept
\* for later.
LEMMA EmitKeeps == IInv /\ Emit => IInv'
<1> SUFFICES ASSUME IInv, Emit PROVE IInv'
  OBVIOUS
<1> USE DEF IInv, EventsInTurn
<1>a. pc = "in_full" /\ producer # NoProducer /\ prior' = TRUE
  BY DEF Emit, Emitting, EmissionGuarded, TypeOK
<1>n. PICK n \in Names : \E id \in Registry[n].emits : \E target \in Gals :
         events' = Append(events, [producer |-> producer, id |-> id, target |-> target])
  BY DEF Emit
<1>i. PICK id \in Registry[n].emits : \E target \in Gals :
         events' = Append(events, [producer |-> producer, id |-> id, target |-> target])
  BY <1>n
<1>b. PICK target \in Gals :
         events' = Append(events, [producer |-> producer, id |-> id, target |-> target])
  BY <1>i
<1>c. id \in Nat \ {0}
  BY RegistryAssumption DEF Declaration
<1>d. events' \in Seq(Event) /\ Len(events') = Len(events) + 1
  <2>1. PICK e : e = [producer |-> producer, id |-> id, target |-> target]
    OBVIOUS
  <2>2. e \in Event
    BY <1>a, <1>c, <2>1 DEF Event, TypeOK
  <2>3. events' = Append(events, e)
    BY <1>b, <2>1
  <2> QED
    BY <2>2, <2>3, AppendProperties DEF TypeOK
<1>1. TypeOK'
  <2>pc. pc' \in {"validate", "rejected", "between", "full", "in_full", "dispatch",
                  "in_event", "galaxies", "in_galaxy", "fatal"}
    BY <1>a, <1>d, Counted, SizesAssumption DEF Emit, TypeOK, NoEvent, NoProducer, BufferFull
  <2>m. m' \in Nat \ {0} /\ g' \in 0 .. NumGals
    BY <1>a, <1>d, Counted, SizesAssumption DEF Emit, TypeOK, NoEvent, NoProducer, BufferFull
  <2>e. Len(events') <= MaxEvents /\ lastDispatched' \in 0 .. Len(events')
    BY <1>a, <1>d, Counted, SizesAssumption DEF Emit, TypeOK, NoEvent, NoProducer, BufferFull
  <2>c. cursor' \in Nat /\ consumer' \in Nat \ {0}
    BY <1>a, <1>d, Counted, SizesAssumption DEF Emit, TypeOK, NoEvent, NoProducer, BufferFull
  <2>a. activeEvent' \in 0 .. Len(events')
    BY <1>a, <1>d, Counted, SizesAssumption DEF Emit, TypeOK, NoEvent, NoProducer, BufferFull
  <2>r. prior' \in BOOLEAN /\ emissionAllowed' \in BOOLEAN
    BY <1>a, <1>d, Counted, SizesAssumption DEF Emit, TypeOK, NoEvent, NoProducer, BufferFull
  <2>p. producer' \in Nat /\ consumed' \subseteq Gals
    BY <1>a, <1>d, Counted, SizesAssumption DEF Emit, TypeOK, NoEvent, NoProducer, BufferFull
  <2> QED
    BY <1>d, <2>pc, <2>m, <2>e, <2>c, <2>a, <2>r, <2>p DEF TypeOK, Emit
<1>2. HeardBeforeGoingOn'
  BY SizesAssumption DEF Emit, HeardBeforeGoingOn, dispatch
<1>3. ActiveEventIsOwn'
  BY SizesAssumption DEF Emit, ActiveEventIsOwn, dispatch, NoEvent, Decl, Phase
<1>4. InPhase'
  BY <1>a DEF InPhase, Emit, Running
<1>5. EmissionGuarded'
  BY SizesAssumption DEF Emit, EmissionGuarded, dispatch, emission
<1>6. DispatchInTurn'
  BY SizesAssumption DEF Emit, DispatchInTurn, dispatch
<1> QED
  BY <1>1, <1>2, <1>3, <1>4, <1>5, <1>6

\* The event in hand is the one its consumer is called for.
LEMMA CallConsumerKeeps == IInv /\ CallConsumer => IInv'
<1> SUFFICES ASSUME IInv, CallConsumer PROVE IInv'
  OBVIOUS
<1> USE DEF IInv, EventsInTurn, Dispatching
<1>1. TypeOK'
  BY SizesAssumption DEF CallConsumer, TypeOK, dispatch, emission, NoEvent, NoProducer, Gals
<1>2. HeardBeforeGoingOn'
  BY SizesAssumption DEF CallConsumer, HeardBeforeGoingOn, dispatch
<1>3. ActiveEventIsOwn'
  <2>1. cursor \in DOMAIN events
    BY Counted DEF CallConsumer, DispatchInTurn, TypeOK
  <2> QED
    BY <2>1 DEF CallConsumer, ActiveEventIsOwn, Subscribed, Decl, Phase
<1>4. InPhase'
  BY SizesAssumption DEF CallConsumer, InPhase, Running, dispatch
<1>5. EmissionGuarded'
  BY SizesAssumption DEF CallConsumer, EmissionGuarded, dispatch, emission
<1>6. DispatchInTurn'
  BY SizesAssumption DEF CallConsumer, DispatchInTurn, dispatch
<1> QED
  BY <1>1, <1>2, <1>3, <1>4, <1>5, <1>6

\* Who is not subscribed is passed over.
LEMMA NotSubscribedKeeps == IInv /\ NotSubscribed => IInv'
<1> SUFFICES ASSUME IInv, NotSubscribed PROVE IInv'
  OBVIOUS
<1> USE DEF IInv, EventsInTurn, Dispatching
<1>1. TypeOK'
  BY SizesAssumption DEF NotSubscribed, TypeOK, dispatch, emission, NoEvent, NoProducer, Gals
<1>2. HeardBeforeGoingOn'
  BY SizesAssumption DEF NotSubscribed, HeardBeforeGoingOn, dispatch
<1>3. ActiveEventIsOwn'
  BY SizesAssumption DEF NotSubscribed, ActiveEventIsOwn, dispatch, NoEvent, Decl, Phase
<1>4. InPhase'
  BY SizesAssumption DEF NotSubscribed, InPhase, Running, dispatch
<1>5. EmissionGuarded'
  BY SizesAssumption DEF NotSubscribed, EmissionGuarded, dispatch, emission
<1>6. DispatchInTurn'
  BY SizesAssumption DEF NotSubscribed, DispatchInTurn, dispatch
<1> QED
  BY <1>1, <1>2, <1>3, <1>4, <1>5, <1>6

\* All have heard the event: there is no active one.
LEMMA NextEventKeeps == IInv /\ NextEvent => IInv'
<1> SUFFICES ASSUME IInv, NextEvent PROVE IInv'
  OBVIOUS
<1> USE DEF IInv, EventsInTurn, Dispatching
<1>1. TypeOK'
  BY SizesAssumption DEF NextEvent, TypeOK, dispatch, emission, NoEvent, NoProducer, Gals
<1>2. HeardBeforeGoingOn'
  BY SizesAssumption DEF NextEvent, HeardBeforeGoingOn, dispatch
<1>3. ActiveEventIsOwn'
  BY SizesAssumption DEF NextEvent, ActiveEventIsOwn, dispatch, NoEvent, Decl, Phase
<1>4. InPhase'
  BY SizesAssumption DEF NextEvent, InPhase, Running, dispatch
<1>5. EmissionGuarded'
  BY SizesAssumption DEF NextEvent, EmissionGuarded, dispatch, emission
<1>6. DispatchInTurn'
  BY Counted DEF NextEvent, DispatchInTurn, TypeOK
<1> QED
  BY <1>1, <1>2, <1>3, <1>4, <1>5, <1>6

\* The dispatch ends behind the last event, and the producer goes on.
LEMMA EndDispatchKeeps == IInv /\ EndDispatch => IInv'
<1> SUFFICES ASSUME IInv, EndDispatch PROVE IInv'
  OBVIOUS
<1> USE DEF IInv, EventsInTurn, Dispatching
<1>1. TypeOK'
  BY SizesAssumption DEF EndDispatch, TypeOK, dispatch, emission, NoEvent, NoProducer, Gals
<1>2. HeardBeforeGoingOn'
  BY SizesAssumption DEF EndDispatch, HeardBeforeGoingOn, dispatch
<1>3. ActiveEventIsOwn'
  BY DEF EndDispatch, ActiveEventIsOwn, DispatchInTurn
<1>4. InPhase'
  BY SizesAssumption DEF EndDispatch, InPhase, Running, dispatch
<1>5. EmissionGuarded'
  BY SizesAssumption DEF EndDispatch, EmissionGuarded, dispatch, emission
<1>6. DispatchInTurn'
  BY SizesAssumption DEF EndDispatch, DispatchInTurn, dispatch
<1> QED
  BY <1>1, <1>2, <1>3, <1>4, <1>5, <1>6

\* The event stays in hand until all have heard it.
LEMMA ConsumerReturnsKeeps == IInv /\ ConsumerReturns => IInv'
<1> SUFFICES ASSUME IInv, ConsumerReturns PROVE IInv'
  OBVIOUS
<1> USE DEF IInv, EventsInTurn
<1>1. TypeOK'
  BY SizesAssumption DEF ConsumerReturns, TypeOK, dispatch, emission, NoEvent, NoProducer, Gals
<1>2. HeardBeforeGoingOn'
  BY SizesAssumption DEF ConsumerReturns, HeardBeforeGoingOn, dispatch
<1>3. ActiveEventIsOwn'
  BY SizesAssumption DEF ConsumerReturns, ActiveEventIsOwn, dispatch, NoEvent, Decl, Phase
<1>4. InPhase'
  BY SizesAssumption DEF ConsumerReturns, InPhase, Running, dispatch
<1>5. EmissionGuarded'
  BY SizesAssumption DEF ConsumerReturns, EmissionGuarded, dispatch, emission
<1>6. DispatchInTurn'
  BY Counted DEF ConsumerReturns, DispatchInTurn, ActiveEventIsOwn, TypeOK
<1> QED
  BY <1>1, <1>2, <1>3, <1>4, <1>5, <1>6

\* The full-halo modules are done.
LEMMA StartGalaxiesKeeps == IInv /\ StartGalaxies => IInv'
<1> SUFFICES ASSUME IInv, StartGalaxies PROVE IInv'
  OBVIOUS
<1> USE DEF IInv, EventsInTurn
<1>1. TypeOK'
  BY SizesAssumption DEF StartGalaxies, TypeOK, dispatch, emission, NoEvent, NoProducer, Gals
<1>2. HeardBeforeGoingOn'
  BY SizesAssumption DEF StartGalaxies, HeardBeforeGoingOn, dispatch
<1>3. ActiveEventIsOwn'
  BY SizesAssumption DEF StartGalaxies, ActiveEventIsOwn, dispatch, NoEvent, Decl, Phase
<1>4. InPhase'
  BY SizesAssumption DEF StartGalaxies, InPhase, Running, dispatch
<1>5. EmissionGuarded'
  BY SizesAssumption DEF StartGalaxies, EmissionGuarded, dispatch, emission
<1>6. DispatchInTurn'
  BY SizesAssumption DEF StartGalaxies, DispatchInTurn, dispatch
<1> QED
  BY <1>1, <1>2, <1>3, <1>4, <1>5, <1>6

\* A by-galaxy module is called without an active event.
LEMMA CallByGalaxyKeeps == IInv /\ CallByGalaxy => IInv'
<1> SUFFICES ASSUME IInv, CallByGalaxy PROVE IInv'
  OBVIOUS
<1> USE DEF IInv, EventsInTurn, GalaxyLoop
<1>1. TypeOK'
  BY SizesAssumption DEF CallByGalaxy, TypeOK, dispatch, emission, NoEvent, NoProducer, Gals
<1>2. HeardBeforeGoingOn'
  BY SizesAssumption DEF CallByGalaxy, HeardBeforeGoingOn, dispatch
<1>3. ActiveEventIsOwn'
  BY SizesAssumption DEF CallByGalaxy, ActiveEventIsOwn, dispatch, NoEvent, Decl, Phase
<1>4. InPhase'
  BY SizesAssumption DEF CallByGalaxy, InPhase, Running, dispatch
<1>5. EmissionGuarded'
  BY SizesAssumption DEF CallByGalaxy, EmissionGuarded, dispatch, emission
<1>6. DispatchInTurn'
  BY SizesAssumption DEF CallByGalaxy, DispatchInTurn, dispatch
<1> QED
  BY <1>1, <1>2, <1>3, <1>4, <1>5, <1>6

\* An entry of another mode is passed over.
LEMMA NotByGalaxyKeeps == IInv /\ NotByGalaxy => IInv'
<1> SUFFICES ASSUME IInv, NotByGalaxy PROVE IInv'
  OBVIOUS
<1> USE DEF IInv, EventsInTurn, GalaxyLoop
<1>1. TypeOK'
  BY SizesAssumption DEF NotByGalaxy, TypeOK, dispatch, emission, NoEvent, NoProducer, Gals
<1>2. HeardBeforeGoingOn'
  BY SizesAssumption DEF NotByGalaxy, HeardBeforeGoingOn, dispatch
<1>3. ActiveEventIsOwn'
  BY SizesAssumption DEF NotByGalaxy, ActiveEventIsOwn, dispatch, NoEvent, Decl, Phase
<1>4. InPhase'
  BY SizesAssumption DEF NotByGalaxy, InPhase, Running, dispatch
<1>5. EmissionGuarded'
  BY SizesAssumption DEF NotByGalaxy, EmissionGuarded, dispatch, emission
<1>6. DispatchInTurn'
  BY SizesAssumption DEF NotByGalaxy, DispatchInTurn, dispatch
<1> QED
  BY <1>1, <1>2, <1>3, <1>4, <1>5, <1>6

\* The next galaxy of the group.
LEMMA NextGalaxyKeeps == IInv /\ NextGalaxy => IInv'
<1> SUFFICES ASSUME IInv, NextGalaxy PROVE IInv'
  OBVIOUS
<1> USE DEF IInv, EventsInTurn, GalaxyLoop
<1>1. TypeOK'
  BY SizesAssumption DEF NextGalaxy, TypeOK, dispatch, emission, NoEvent, NoProducer, Gals
<1>2. HeardBeforeGoingOn'
  BY SizesAssumption DEF NextGalaxy, HeardBeforeGoingOn, dispatch
<1>3. ActiveEventIsOwn'
  BY SizesAssumption DEF NextGalaxy, ActiveEventIsOwn, dispatch, NoEvent, Decl, Phase
<1>4. InPhase'
  BY SizesAssumption DEF NextGalaxy, InPhase, Running, dispatch
<1>5. EmissionGuarded'
  BY SizesAssumption DEF NextGalaxy, EmissionGuarded, dispatch, emission
<1>6. DispatchInTurn'
  BY SizesAssumption DEF NextGalaxy, DispatchInTurn, dispatch
<1> QED
  BY <1>1, <1>2, <1>3, <1>4, <1>5, <1>6

\* A by-galaxy module returns.
LEMMA ByGalaxyReturnsKeeps == IInv /\ ByGalaxyReturns => IInv'
<1> SUFFICES ASSUME IInv, ByGalaxyReturns PROVE IInv'
  OBVIOUS
<1> USE DEF IInv, EventsInTurn
<1>1. TypeOK'
  BY SizesAssumption DEF ByGalaxyReturns, TypeOK, dispatch, emission, NoEvent, NoProducer, Gals
<1>2. HeardBeforeGoingOn'
  BY SizesAssumption DEF ByGalaxyReturns, HeardBeforeGoingOn, dispatch
<1>3. ActiveEventIsOwn'
  BY SizesAssumption DEF ByGalaxyReturns, ActiveEventIsOwn, dispatch, NoEvent, Decl, Phase
<1>4. InPhase'
  BY SizesAssumption DEF ByGalaxyReturns, InPhase, Running, dispatch
<1>5. EmissionGuarded'
  BY SizesAssumption DEF ByGalaxyReturns, EmissionGuarded, dispatch, emission
<1>6. DispatchInTurn'
  BY DEF ByGalaxyReturns, DispatchInTurn, ActiveEventIsOwn, dispatch
<1> QED
  BY <1>1, <1>2, <1>3, <1>4, <1>5, <1>6

\* A module fails, and the run ends there.
LEMMA ModuleFailsKeeps == IInv /\ ModuleFails => IInv'
<1> SUFFICES ASSUME IInv, ModuleFails PROVE IInv'
  OBVIOUS
<1> USE DEF IInv, EventsInTurn
<1>1. TypeOK'
  BY SizesAssumption DEF ModuleFails, TypeOK, dispatch, emission, NoEvent, NoProducer, Gals
<1>2. HeardBeforeGoingOn'
  BY SizesAssumption DEF ModuleFails, HeardBeforeGoingOn, dispatch
<1>3. ActiveEventIsOwn'
  BY SizesAssumption DEF ModuleFails, ActiveEventIsOwn, dispatch, NoEvent, Decl, Phase
<1>4. InPhase'
  BY SizesAssumption DEF ModuleFails, InPhase, Running, dispatch
<1>5. EmissionGuarded'
  BY SizesAssumption DEF ModuleFails, EmissionGuarded, dispatch, emission
<1>6. DispatchInTurn'
  BY SizesAssumption DEF ModuleFails, DispatchInTurn, dispatch
<1> QED
  BY <1>1, <1>2, <1>3, <1>4, <1>5, <1>6

-----------------------------------------------------------------------------
(* The theorem.                                                              *)

\* Every step keeps the invariant.
LEMMA StepHolds == IInv /\ [Next]_vars => IInv'
<1> SUFFICES ASSUME IInv, [Next]_vars PROVE IInv'
  OBVIOUS
<1>1. CASE UNCHANGED vars
  <2>1. EventsInTurn'
    BY <1>1 DEF IInv, EventsInTurn, TypeOK, HeardBeforeGoingOn, ActiveEventIsOwn, Decl, Phase,
                vars, dispatch, emission
  <2>2. InPhase' /\ EmissionGuarded' /\ DispatchInTurn'
    BY <1>1 DEF IInv, InPhase, EmissionGuarded, DispatchInTurn, vars, dispatch, emission
  <2> QED
    BY <2>1, <2>2 DEF IInv
<1>2. CASE Next
  BY <1>2,
     AcceptKeeps, RejectKeeps, BeginPhaseKeeps, SkipPhaseKeeps,
     EndPhaseKeeps, CallFullHaloKeeps, NotFullHaloKeeps,
     FullHaloReturnsKeeps, ConsumeKeeps, EmitKeeps, CallConsumerKeeps,
     NotSubscribedKeeps, NextEventKeeps, EndDispatchKeeps,
     ConsumerReturnsKeeps, StartGalaxiesKeeps, CallByGalaxyKeeps,
     NotByGalaxyKeeps, NextGalaxyKeeps, ByGalaxyReturnsKeeps,
     ModuleFailsKeeps
  DEF Next
<1> QED
  BY <1>1, <1>2

\* Every phase of every configuration: module_emit_event() returns to its producer
\* with nothing left to dispatch, a per-event module is called with the event it
\* subscribed to as ctx->active_event and every other module with none, and the
\* buffer never holds more than MAX_PHASE_EVENTS.
THEOREM EventsTakenInTurn == Spec => []EventsInTurn
<1>1. Init => IInv
  BY InitHolds
<1>2. IInv /\ [Next]_vars => IInv'
  BY StepHolds
<1>3. IInv => EventsInTurn
  BY DEF IInv
<1> QED
  BY <1>1, <1>2, <1>3, PTL DEF Spec

-----------------------------------------------------------------------------
(* What is known of the calls of a phase, and what a step changes of that.   *)

\* The call was made, as far as the engine has come.
Made(mode, k, on) ==
    /\ Owed(mode, k, on)
    /\ mode = FullHalo => \/ k < m
                          \/ pc \in {"galaxies", "in_galaxy"}
                          \/ k = m /\ pc \in {"in_full", "dispatch", "in_event"}
    /\ mode = PerEvent /\ pc \in {"dispatch", "in_event"} =>
          on < cursor \/ (on = cursor /\ (k < consumer \/ (k = consumer /\ pc = "in_event")))
    /\ mode = ByGalaxy =>
          /\ pc \in {"galaxies", "in_galaxy"}
          /\ on < g \/ (on = g /\ (k < m \/ (k = m /\ pc = "in_galaxy")))

ACall == [mode : Modes, entry : Nat, on : Nat]

Called(s, mode, k, on) == \E i \in 1 .. Len(s) : s[i] = Call(mode, k, on)

\* The calls of this phase are those that are owed up to here.
CallsAreMade ==
    \A mode \in Modes : \A k, on \in Nat : Called(calls, mode, k, on) <=> Made(mode, k, on)

\* While a full-halo module runs, or is interrupted by its events, it is the last
\* one that was called.
CallerIsLast ==
    pc \in {"in_full", "dispatch", "in_event"} =>
        /\ m \in DOMAIN Phase /\ Phase[m].mode = FullHalo
        /\ \E i \in 1 .. Len(calls) :
              /\ calls[i].mode = FullHalo /\ calls[i].entry = m
              /\ \A l \in (i + 1) .. Len(calls) : calls[l].mode = PerEvent

\* What it emitted is its own, and nothing else is dispatched: only the event that
\* was emitted last.
EmitterKnown ==
    /\ pc = "in_full" /\ producer # NoProducer => producer = Decl(m).id
    /\ pc \in {"dispatch", "in_event"} =>
          /\ producer # NoProducer /\ producer = Decl(m).id
          /\ cursor >= Len(events)
          /\ cursor \in DOMAIN events => events[cursor].producer = producer

\* A call that has begun is of an entry, on a galaxy, that is owed one.
CallUnderWay ==
    /\ pc = "in_event" => Owed(PerEvent, consumer, cursor)
    /\ pc = "in_galaxy" => Owed(ByGalaxy, m, g)

\* What is known of the calls of a phase that runs.
CallsSoFar ==
    /\ calls \in Seq(ACall)
    /\ CallsAreMade /\ CallsInOrder /\ HeardAtOnce

CInv == pc \in Running => CallsSoFar /\ CallerIsLast /\ EmitterKnown /\ CallUnderWay

\* A call is a record of its mode, entry and what it is on,
LEMMA CallIsTyped ==
    ASSUME NEW mode \in Modes, NEW k \in Nat, NEW on \in Nat
    PROVE  /\ Call(mode, k, on) \in ACall
           /\ Call(mode, k, on).mode = mode /\ Call(mode, k, on).entry = k
           /\ Call(mode, k, on).on = on
BY DEF Call, ACall

\* and every such record is a call.
LEMMA CallIsNamed ==
    ASSUME NEW c \in ACall
    PROVE  /\ c.mode \in Modes /\ c.entry \in Nat /\ c.on \in Nat
           /\ c = Call(c.mode, c.entry, c.on)
BY DEF Call, ACall

\* A sequence with one call more has the calls it had, and that one.
LEMMA CalledMore ==
    ASSUME NEW s \in Seq(ACall), NEW a \in Modes, NEW b \in Nat, NEW c \in Nat,
           NEW mode \in Modes, NEW k \in Nat, NEW on \in Nat
    PROVE  Called(Append(s, Call(a, b, c)), mode, k, on) <=>
              Called(s, mode, k, on) \/ (mode = a /\ k = b /\ on = c)
<1>1. PICK d : d = Call(a, b, c)
  OBVIOUS
<1>2. PICK t : t = Append(s, d)
  OBVIOUS
<1>3. d \in ACall
  BY <1>1, CallIsTyped
<1>4. /\ Len(s) \in Nat /\ Len(t) = Len(s) + 1 /\ t[Len(s) + 1] = d
      /\ \A i \in 1 .. Len(s) : t[i] = s[i]
  BY <1>2, <1>3
<1>5. d = Call(mode, k, on) <=> mode = a /\ k = b /\ on = c
  BY <1>1 DEF Call
<1>6. Called(t, mode, k, on) => Called(s, mode, k, on) \/ d = Call(mode, k, on)
  BY <1>4 DEF Called
<1>7. Called(s, mode, k, on) \/ d = Call(mode, k, on) => Called(t, mode, k, on)
  BY <1>4 DEF Called
<1> QED
  BY <1>1, <1>2, <1>5, <1>6, <1>7

\* The events that were there are there still.
EventsStay == /\ events \in Seq(Event) /\ events' \in Seq(Event)
              /\ Len(events) <= Len(events')
              /\ \A e \in 1 .. Len(events) : events'[e] = events[e]

\* What a call on an event follows does not change while events are added.
LEMMA ProducerStays ==
    ASSUME CallsSoFar, Phase' = Phase, EventsStay, NEW d \in Seq(ACall), calls' = d,
           Len(calls) <= Len(d), \A i \in 1 .. Len(calls) : d[i] = calls[i],
           NEW j \in 1 .. Len(calls), calls[j].mode = PerEvent
    PROVE  AfterProducer(j)'
<1>1. calls \in Seq(ACall) /\ Len(calls) \in Nat /\ Len(d) \in Nat /\ DOMAIN calls = 1 .. Len(calls)
  BY LenProperties DEF CallsSoFar
<1>2. calls[j] \in ACall
  BY <1>1, ElementOfSeq
<1>3. PICK mode, k, on : mode = calls[j].mode /\ k = calls[j].entry /\ on = calls[j].on
  OBVIOUS
<1>4. mode \in Modes /\ k \in Nat /\ on \in Nat /\ calls[j] = Call(mode, k, on) /\ mode = PerEvent
  BY <1>2, <1>3, CallIsNamed
<1>5. Called(calls, mode, k, on)
  BY <1>4 DEF Called
<1>6. Made(mode, k, on)
  BY <1>4, <1>5 DEF CallsSoFar, CallsAreMade
<1>7. on \in 1 .. Len(events)
  <2>1. on \in DOMAIN events
    BY <1>4, <1>6 DEF Made, Owed
  <2> QED
    BY <2>1, LenProperties DEF EventsStay
<1>8. PICK i \in 1 .. (j - 1) :
        /\ calls[i].mode = FullHalo
        /\ Decl(calls[i].entry).id = events[calls[j].on].producer
        /\ \A l \in (i + 1) .. j : calls[l].mode = PerEvent
  BY <1>1 DEF CallsSoFar, HeardAtOnce, AfterProducer
<1>9. i \in 1 .. Len(calls) /\ \A l \in (i + 1) .. j : l \in 1 .. Len(calls)
  BY <1>1
<1>10. events'[on] = events[on]
  BY <1>7 DEF EventsStay
<1>11. d[i].mode = FullHalo /\ \A l \in (i + 1) .. j : d[l].mode = PerEvent
  BY <1>8, <1>9
<1>12. d[i] = calls[i] /\ d[j] = calls[j]
  BY <1>9
<1>13. Registry[Phase'[d[i].entry].name].id = events'[d[j].on].producer
  BY <1>3, <1>8, <1>10, <1>12 DEF Decl
<1> QED
  BY <1>11, <1>13 DEF AfterProducer, Decl

\* A step that calls nobody.
LEMMA QuietStep ==
    ASSUME CallsSoFar, Phase' = Phase, EventsStay, calls' = calls,
           \A mode \in Modes : \A k, on \in Nat : Made(mode, k, on)' <=> Made(mode, k, on)
    PROVE  CallsSoFar'
<1>1. calls \in Seq(ACall) /\ DOMAIN calls = 1 .. Len(calls) /\ Len(calls) \in Nat
  BY LenProperties DEF CallsSoFar
<1>2. CallsAreMade'
  BY DEF CallsAreMade, CallsSoFar
<1>3. CallsInOrder'
  BY DEF CallsInOrder, CallsSoFar
<1>4. ASSUME NEW j \in 1 .. Len(calls), calls[j].mode = PerEvent PROVE AfterProducer(j)'
  BY <1>1, <1>4, ProducerStays
<1>5. HeardAtOnce'
  BY <1>1, <1>4 DEF HeardAtOnce
<1> QED
  BY <1>1, <1>2, <1>3, <1>5 DEF CallsSoFar

\* The last full-halo module called is the one that emitted event e.
LastCaller(e) ==
    \E i \in 1 .. Len(calls) :
        /\ calls[i].mode = FullHalo
        /\ Decl(calls[i].entry).id = events[e].producer
        /\ \A l \in (i + 1) .. Len(calls) : calls[l].mode = PerEvent

\* A step that calls entry b: it was owed the call and comes after all others.
LEMMA CallStep ==
    ASSUME CallsSoFar, Phase' = Phase, events \in Seq(Event), events' = events,
           NEW a \in Modes, NEW b \in Nat, NEW c \in Nat, calls' = Append(calls, Call(a, b, c)),
           \A mode \in Modes : \A k, on \in Nat :
              Made(mode, k, on)' <=> Made(mode, k, on) \/ (mode = a /\ k = b /\ on = c),
           \A mode \in Modes : \A k, on \in Nat :
              Made(mode, k, on) => ComesBefore(Call(mode, k, on), Call(a, b, c)),
           a = PerEvent => LastCaller(c)
    PROVE  CallsSoFar'
<1>1. calls \in Seq(ACall) /\ DOMAIN calls = 1 .. Len(calls) /\ Len(calls) \in Nat
  BY LenProperties DEF CallsSoFar
<1>2. PICK d : d = Call(a, b, c)
  OBVIOUS
<1>3. d \in ACall /\ d.mode = a /\ d.on = c
  BY <1>2, CallIsTyped
<1>4. PICK t : t = Append(calls, d)
  OBVIOUS
<1>5. calls' = t
  BY <1>2, <1>4
<1>6. /\ t \in Seq(ACall) /\ Len(t) = Len(calls) + 1 /\ t[Len(calls) + 1] = d
      /\ \A i \in 1 .. Len(calls) : t[i] = calls[i]
      /\ DOMAIN t = 1 .. Len(t)
  BY <1>1, <1>3, <1>4
<1>7. ASSUME NEW mode \in Modes, NEW k \in Nat, NEW on \in Nat
      PROVE  Called(t, mode, k, on) <=> Made(mode, k, on)'
  <2>1. Called(t, mode, k, on) <=> Called(calls, mode, k, on) \/ (mode = a /\ k = b /\ on = c)
    BY <1>1, <1>2, <1>4, CalledMore
  <2>2. Called(calls, mode, k, on) <=> Made(mode, k, on)
    BY DEF CallsSoFar, CallsAreMade
  <2>3. Made(mode, k, on)' <=> Made(mode, k, on) \/ (mode = a /\ k = b /\ on = c)
    OBVIOUS
  <2> QED
    BY <2>1, <2>2, <2>3
<1>8. CallsAreMade'
  BY <1>5, <1>7 DEF CallsAreMade
<1>9. ASSUME NEW i \in 1 .. Len(t), NEW j \in 1 .. Len(t), i < j PROVE ComesBefore(t[i], t[j])
  <2>1. i \in 1 .. Len(calls) /\ t[i] = calls[i]
    BY <1>1, <1>6, <1>9
  <2>2. CASE j \in 1 .. Len(calls)
    <3>1. t[j] = calls[j]
      BY <1>6, <2>2
    <3> QED
      BY <1>1, <1>9, <2>1, <2>2, <3>1 DEF CallsSoFar, CallsInOrder
  <2>3. CASE j \notin 1 .. Len(calls)
    <3>1. t[j] = d
      BY <1>1, <1>6, <2>3
    <3>2. PICK mode, k, on : mode = calls[i].mode /\ k = calls[i].entry /\ on = calls[i].on
      OBVIOUS
    <3>3. calls[i] \in ACall
      BY <1>1, <2>1, ElementOfSeq
    <3>4. mode \in Modes /\ k \in Nat /\ on \in Nat /\ calls[i] = Call(mode, k, on)
      BY <3>2, <3>3, CallIsNamed
    <3>5. Called(calls, mode, k, on)
      BY <2>1, <3>4 DEF Called
    <3>6. Made(mode, k, on)
      BY <3>4, <3>5 DEF CallsSoFar, CallsAreMade
    <3>7. ComesBefore(Call(mode, k, on), Call(a, b, c))
      BY <3>4, <3>6
    <3> QED
      BY <1>2, <2>1, <3>1, <3>4, <3>7
  <2> QED
    BY <2>2, <2>3
<1>10. CallsInOrder'
  BY <1>5, <1>6, <1>9 DEF CallsInOrder
<1>11. ASSUME NEW j \in 1 .. Len(t), t[j].mode = PerEvent PROVE AfterProducer(j)'
  <2>1. CASE j \in 1 .. Len(calls)
    <3>1. calls[j].mode = PerEvent /\ Len(calls) <= Len(t)
      BY <1>1, <1>6, <1>11, <2>1
    <3>2. EventsStay
      BY DEF EventsStay
    <3> QED
      BY <1>5, <1>6, <2>1, <3>1, <3>2, ProducerStays
  <2>2. CASE j \notin 1 .. Len(calls)
    <3>1. j = Len(calls) + 1 /\ t[j] = d
      BY <1>1, <1>6, <2>2
    <3>2. a = PerEvent
      BY <1>3, <1>11, <3>1
    <3>3. PICK i \in 1 .. Len(calls) :
            /\ calls[i].mode = FullHalo
            /\ Decl(calls[i].entry).id = events[c].producer
            /\ \A l \in (i + 1) .. Len(calls) : calls[l].mode = PerEvent
      BY <3>2 DEF LastCaller
    <3>4. i \in 1 .. (j - 1) /\ t[i] = calls[i]
      BY <1>1, <1>6, <3>1
    <3>5. ASSUME NEW l \in (i + 1) .. j PROVE t[l].mode = PerEvent
      <4>1. CASE l = j
        BY <1>11, <4>1
      <4>2. CASE l # j
        <5>1. l \in (i + 1) .. Len(calls) /\ l \in 1 .. Len(calls)
          BY <1>1, <3>1, <3>4, <4>2
        <5> QED
          BY <1>6, <3>3, <5>1
      <4> QED
        BY <4>1, <4>2
    <3>6. Registry[Phase'[t[i].entry].name].id = events'[t[j].on].producer
      BY <1>3, <3>1, <3>3, <3>4 DEF Decl
    <3> QED
      BY <1>5, <3>3, <3>4, <3>5, <3>6 DEF AfterProducer, Decl
  <2> QED
    BY <2>1, <2>2
<1>12. HeardAtOnce'
  BY <1>5, <1>6, <1>11 DEF HeardAtOnce
<1> QED
  BY <1>5, <1>6, <1>8, <1>10, <1>12 DEF CallsSoFar

-----------------------------------------------------------------------------
(* The engine in numbers, and the calls of the full-halo modules.            *)

\* What a running phase may rely on, in numbers.
LEMMA RunningNumbers ==
    ASSUME IInv, pc \in Running
    PROVE  /\ Len(Phase) \in Nat /\ DOMAIN Phase = 1 .. Len(Phase)
           /\ events \in Seq(Event) /\ Len(events) \in Nat /\ DOMAIN events = 1 .. Len(events)
           /\ m \in Nat \ {0} /\ g \in Nat /\ g <= NumGals /\ NumGals \in Nat
           /\ cursor \in Nat /\ consumer \in Nat \ {0}
           /\ Gals \subseteq Nat
<1>1. Phase \in Seq(Entry) /\ Len(Phase) \in Nat
  BY RunningPhase
<1>2. DOMAIN Phase = 1 .. Len(Phase)
  BY <1>1, LenProperties
<1>3. events \in Seq(Event)
  BY DEF IInv, EventsInTurn, TypeOK
<1>4. Len(events) \in Nat /\ DOMAIN events = 1 .. Len(events)
  BY <1>3, LenProperties
<1>5. m \in Nat \ {0} /\ g \in 0 .. NumGals /\ cursor \in Nat /\ consumer \in Nat \ {0}
  BY DEF IInv, EventsInTurn, TypeOK
<1>6. NumGals \in Nat /\ Gals \subseteq Nat
  BY SizesAssumption DEF Gals
<1> QED
  BY <1>1, <1>2, <1>3, <1>4, <1>5, <1>6

\* What is owed stays so as long as the phase, its events and the galaxies do.
LEMMA OwedStays ==
    ASSUME Phase' = Phase, events' = events, consumed' = consumed
    PROVE  \A mode, k, on : Owed(mode, k, on)' <=> Owed(mode, k, on)
<1>1. \A k : Decl(k)' = Decl(k)
  BY DEF Decl
<1> QED
  BY <1>1 DEF Owed

\* The numbers of an owed call.
LEMMA OwedNumbers ==
    ASSUME IInv, pc \in Running, NEW mode \in Modes, NEW k, NEW on, Owed(mode, k, on)
    PROVE  /\ k \in 1 .. Len(Phase) /\ k \in Nat /\ on \in Nat /\ Phase[k].mode = mode
           /\ mode = FullHalo => on = 0
           /\ mode = PerEvent => on \in 1 .. Len(events)
           /\ mode = ByGalaxy => on < NumGals
<1>1. k \in DOMAIN Phase /\ Phase[k].mode = mode
  BY DEF Owed
<1>2. k \in 1 .. Len(Phase) /\ k \in Nat
  BY <1>1, RunningNumbers
<1>3. CASE mode = FullHalo
  BY <1>1, <1>2, <1>3 DEF Owed, FullHalo, PerEvent, ByGalaxy
<1>4. CASE mode = PerEvent
  <2>1. on \in 1 .. Len(events)
    BY <1>4, RunningNumbers DEF Owed
  <2> QED
    BY <1>1, <1>2, <1>4, <2>1, RunningNumbers DEF FullHalo, PerEvent, ByGalaxy
<1>5. CASE mode = ByGalaxy
  <2>1. on \in Gals
    BY <1>5 DEF Owed
  <2>2. on \in Nat /\ on < NumGals
    BY <2>1, SizesAssumption DEF Gals
  <2> QED
    BY <1>1, <1>2, <1>5, <2>2 DEF FullHalo, PerEvent, ByGalaxy
<1> QED
  BY <1>3, <1>4, <1>5 DEF Modes

\* A full-halo module is called.
LEMMA CallFullHaloCalls == ASSUME IInv, CInv, CallFullHalo PROVE CInv'
<1>1. /\ pc = "full" /\ m <= Len(Phase) /\ Phase[m].mode = FullHalo
      /\ producer' = Decl(m).id /\ calls' = Append(calls, Call(FullHalo, m, 0)) /\ pc' = "in_full"
      /\ pipeline' = pipeline /\ ph' = ph /\ m' = m /\ g' = g /\ events' = events
      /\ cursor' = cursor /\ consumer' = consumer /\ consumed' = consumed
  BY DEF CallFullHalo
<1>2. pc \in Running /\ CallsSoFar
  BY <1>1 DEF Running, CInv
<1>3. Phase' = Phase /\ \A k : Decl(k)' = Decl(k)
  BY <1>1 DEF Phase, Decl
<1>4. \A mode, k, on : Owed(mode, k, on)' <=> Owed(mode, k, on)
  BY <1>1, <1>3, OwedStays
<1>5. m \in DOMAIN Phase /\ m \in Nat /\ FullHalo \in Modes
  BY <1>1, <1>2, RunningNumbers DEF Modes
<1>6. ASSUME NEW mode \in Modes, NEW k \in Nat, NEW on \in Nat
      PROVE  /\ Made(mode, k, on)' <=> Made(mode, k, on) \/ (mode = FullHalo /\ k = m /\ on = 0)
             /\ Made(mode, k, on) => ComesBefore(Call(mode, k, on), Call(FullHalo, m, 0))
  <2>1. Owed(FullHalo, m, 0)
    BY <1>1, <1>5 DEF Owed, FullHalo, PerEvent, ByGalaxy
  <2>2. Made(mode, k, on)' <=> Made(mode, k, on) \/ (mode = FullHalo /\ k = m /\ on = 0)
    <3>1. CASE mode = FullHalo
      <4>1. Owed(mode, k, on) => on = 0
        BY <3>1 DEF Owed
      <4> QED
        BY <1>1, <1>4, <1>5, <2>1, <3>1, <4>1 DEF Made, FullHalo, PerEvent, ByGalaxy
    <3>2. CASE mode # FullHalo
      BY <1>1, <1>4, <3>2 DEF Made
    <3> QED
      BY <3>1, <3>2
  <2>3. ASSUME Made(mode, k, on) PROVE ComesBefore(Call(mode, k, on), Call(FullHalo, m, 0))
    <3>1. mode # ByGalaxy /\ (mode = FullHalo => k < m /\ on = 0)
      BY <1>1, <2>3 DEF Made, Owed, FullHalo, ByGalaxy
    <3> QED
      BY <3>1 DEF ComesBefore, Call
  <2> QED
    BY <2>2, <2>3
<1>7. CallsSoFar'
  <2>1. events \in Seq(Event)
    BY <1>2, RunningNumbers
  <2>2. FullHalo # PerEvent
    BY DEF FullHalo, PerEvent
  <2> QED
    BY <1>1, <1>2, <1>3, <1>5, <1>6, <2>1, <2>2, CallStep
<1>8. CallerIsLast'
  <2>1. PICK d : d = Call(FullHalo, m, 0)
    OBVIOUS
  <2>2. d \in ACall /\ d.mode = FullHalo /\ d.entry = m
    BY <1>5, <2>1, CallIsTyped
  <2>3. PICK t : t = Append(calls, d)
    OBVIOUS
  <2>4. calls \in Seq(ACall)
    BY <1>2 DEF CallsSoFar
  <2>5. Len(t) \in Nat /\ Len(t) \in 1 .. Len(t) /\ t[Len(t)] = d
    BY <2>2, <2>3, <2>4
  <2>6. \A l \in (Len(t) + 1) .. Len(t) : FALSE
    BY <2>5
  <2>7. calls' = t
    BY <1>1, <2>1, <2>3
  <2> QED
    BY <1>1, <1>3, <1>5, <2>2, <2>5, <2>6, <2>7 DEF CallerIsLast
<1>9. EmitterKnown'
  BY <1>1, <1>3 DEF EmitterKnown
<1>10. CallUnderWay'
  BY <1>1 DEF CallUnderWay
<1> QED
  BY <1>7, <1>8, <1>9, <1>10 DEF CInv

-----------------------------------------------------------------------------
(* The steps that call nobody.                                               *)

\* An entry that is no full-halo module is owed no such call.
LEMMA NotFullHaloCalls == ASSUME IInv, CInv, NotFullHalo PROVE CInv'
<1>1. /\ pc = "full" /\ m <= Len(Phase) /\ Phase[m].mode # FullHalo /\ m' = m + 1
      /\ pc' = pc /\ calls' = calls /\ events' = events /\ consumed' = consumed
      /\ pipeline' = pipeline /\ ph' = ph
  BY DEF NotFullHalo, dispatch, emission
<1>2. pc \in Running /\ CallsSoFar
  BY <1>1 DEF Running, CInv
<1>3. Phase' = Phase /\ \A k : Decl(k)' = Decl(k)
  BY <1>1 DEF Phase, Decl
<1>4. \A mode, k, on : Owed(mode, k, on)' <=> Owed(mode, k, on)
  BY <1>1, <1>3, OwedStays
<1>5. ASSUME NEW mode \in Modes, NEW k \in Nat, NEW on \in Nat
      PROVE  Made(mode, k, on)' <=> Made(mode, k, on)
  <2>1. Owed(mode, k, on) /\ mode = FullHalo => k # m
    BY <1>1, <1>2, OwedNumbers, RunningNumbers
  <2> QED
    BY <1>1, <1>2, <1>4, <2>1, RunningNumbers DEF Made
<1>6. CallsSoFar'
  <2>1. EventsStay
    BY <1>1, <1>2, RunningNumbers DEF EventsStay
  <2> QED
    BY <1>1, <1>2, <1>3, <1>5, <2>1, QuietStep
<1>7. CallerIsLast'
  BY <1>1, <1>2, <1>3 DEF CInv, CallerIsLast
<1>8. EmitterKnown'
  BY <1>1, <1>2, <1>3, RunningNumbers DEF CInv, EmitterKnown
<1>9. CallUnderWay'
  BY <1>1 DEF CallUnderWay
<1> QED
  BY <1>6, <1>7, <1>8, <1>9 DEF CInv

\* A full-halo module returns: all that it said was heard.
LEMMA FullHaloReturnsCalls == ASSUME IInv, CInv, FullHaloReturns PROVE CInv'
<1>1. /\ pc = "in_full" /\ m' = m + 1 /\ pc' = "full"
      /\ calls' = calls /\ events' = events /\ consumed' = consumed
      /\ pipeline' = pipeline /\ ph' = ph
  <2>1. pc = "in_full" => lastDispatched = Len(events) /\ Len(events) \in Nat
    BY Counted DEF IInv, EventsInTurn, HeardBeforeGoingOn
  <2> QED
    BY <2>1 DEF FullHaloReturns
<1>2. pc \in Running /\ CallsSoFar
  BY <1>1 DEF Running, CInv
<1>3. Phase' = Phase /\ \A k : Decl(k)' = Decl(k)
  BY <1>1 DEF Phase, Decl
<1>4. \A mode, k, on : Owed(mode, k, on)' <=> Owed(mode, k, on)
  BY <1>1, <1>3, OwedStays
<1>5. ASSUME NEW mode \in Modes, NEW k \in Nat, NEW on \in Nat
      PROVE  Made(mode, k, on)' <=> Made(mode, k, on)
  <2>1. Owed(mode, k, on) => k \in Nat
    BY <1>1, <1>2, OwedNumbers, RunningNumbers
  <2> QED
    BY <1>1, <1>2, <1>4, <2>1, RunningNumbers DEF Made
<1>6. CallsSoFar'
  <2>1. EventsStay
    BY <1>1, <1>2, RunningNumbers DEF EventsStay
  <2> QED
    BY <1>1, <1>2, <1>3, <1>5, <2>1, QuietStep
<1>7. CallerIsLast'
  BY <1>1, <1>2, <1>3 DEF CInv, CallerIsLast
<1>8. EmitterKnown'
  BY <1>1, <1>2, <1>3, RunningNumbers DEF CInv, EmitterKnown
<1>9. CallUnderWay'
  BY <1>1 DEF CallUnderWay
<1> QED
  BY <1>6, <1>7, <1>8, <1>9 DEF CInv

\* An entry that did not subscribe to the event is owed no call on it.
LEMMA NotSubscribedCalls == ASSUME IInv, CInv, NotSubscribed PROVE CInv'
<1>1. /\ pc = "dispatch" /\ cursor <= Len(events) /\ consumer <= Len(Phase)
      /\ ~Subscribed(Phase, consumer, events[cursor]) /\ consumer' = consumer + 1
      /\ cursor' = cursor /\ pc' = pc /\ m' = m /\ g' = g /\ producer' = producer
      /\ calls' = calls /\ events' = events /\ consumed' = consumed
      /\ pipeline' = pipeline /\ ph' = ph
  BY DEF NotSubscribed, Dispatching, emission
<1>2. pc \in Running /\ CallsSoFar
  BY <1>1 DEF Running, CInv
<1>3. Phase' = Phase /\ \A k : Decl(k)' = Decl(k)
  BY <1>1 DEF Phase, Decl
<1>4. \A mode, k, on : Owed(mode, k, on)' <=> Owed(mode, k, on)
  BY <1>1, <1>3, OwedStays
<1>5. ASSUME NEW mode \in Modes, NEW k \in Nat, NEW on \in Nat
      PROVE  Made(mode, k, on)' <=> Made(mode, k, on)
  <2>1. Owed(mode, k, on) => ~(mode = PerEvent /\ k = consumer /\ on = cursor)
    BY <1>1, <1>2, OwedNumbers, RunningNumbers DEF Subscribed, Owed, Decl
  <2> QED
    BY <1>1, <1>2, <1>4, <2>1, RunningNumbers DEF Made
<1>6. CallsSoFar'
  <2>1. EventsStay
    BY <1>1, <1>2, RunningNumbers DEF EventsStay
  <2> QED
    BY <1>1, <1>2, <1>3, <1>5, <2>1, QuietStep
<1>7. CallerIsLast'
  BY <1>1, <1>2, <1>3 DEF CInv, CallerIsLast
<1>8. EmitterKnown'
  BY <1>1, <1>2, <1>3, RunningNumbers DEF CInv, EmitterKnown
<1>9. CallUnderWay'
  BY <1>1 DEF CallUnderWay
<1> QED
  BY <1>6, <1>7, <1>8, <1>9 DEF CInv

\* When all entries were asked, the event is done.
LEMMA NextEventCalls == ASSUME IInv, CInv, NextEvent PROVE CInv'
<1>1. /\ pc = "dispatch" /\ cursor <= Len(events) /\ consumer > Len(Phase)
      /\ cursor' = cursor + 1 /\ consumer' = 1
      /\ pc' = pc /\ m' = m /\ g' = g /\ producer' = producer
      /\ calls' = calls /\ events' = events /\ consumed' = consumed
      /\ pipeline' = pipeline /\ ph' = ph
  BY DEF NextEvent, Dispatching, emission
<1>2. pc \in Running /\ CallsSoFar
  BY <1>1 DEF Running, CInv
<1>3. Phase' = Phase /\ \A k : Decl(k)' = Decl(k)
  BY <1>1 DEF Phase, Decl
<1>4. \A mode, k, on : Owed(mode, k, on)' <=> Owed(mode, k, on)
  BY <1>1, <1>3, OwedStays
<1>5. ASSUME NEW mode \in Modes, NEW k \in Nat, NEW on \in Nat
      PROVE  Made(mode, k, on)' <=> Made(mode, k, on)
  <2>1. Owed(mode, k, on) => k < consumer /\ k >= 1
    BY <1>1, <1>2, OwedNumbers, RunningNumbers
  <2> QED
    BY <1>1, <1>2, <1>4, <2>1, RunningNumbers DEF Made
<1>6. CallsSoFar'
  <2>1. EventsStay
    BY <1>1, <1>2, RunningNumbers DEF EventsStay
  <2> QED
    BY <1>1, <1>2, <1>3, <1>5, <2>1, QuietStep
<1>7. CallerIsLast'
  BY <1>1, <1>2, <1>3 DEF CInv, CallerIsLast
<1>8. EmitterKnown'
  BY <1>1, <1>2, <1>3, RunningNumbers DEF CInv, EmitterKnown
<1>9. CallUnderWay'
  BY <1>1 DEF CallUnderWay
<1> QED
  BY <1>6, <1>7, <1>8, <1>9 DEF CInv

\* When all events are done, their producer goes on.
LEMMA EndDispatchCalls == ASSUME IInv, CInv, EndDispatch PROVE CInv'
<1>1. /\ pc = "dispatch" /\ cursor > Len(events) /\ pc' = "in_full"
      /\ m' = m /\ g' = g /\ producer' = producer
      /\ calls' = calls /\ events' = events /\ consumed' = consumed
      /\ pipeline' = pipeline /\ ph' = ph
  <2>1. pc = "dispatch" => producer # NoProducer
    BY DEF CInv, Running, EmitterKnown
  <2> QED
    BY <2>1 DEF EndDispatch, Dispatching, emission
<1>2. pc \in Running /\ CallsSoFar
  BY <1>1 DEF Running, CInv
<1>3. Phase' = Phase /\ \A k : Decl(k)' = Decl(k)
  BY <1>1 DEF Phase, Decl
<1>4. \A mode, k, on : Owed(mode, k, on)' <=> Owed(mode, k, on)
  BY <1>1, <1>3, OwedStays
<1>5. ASSUME NEW mode \in Modes, NEW k \in Nat, NEW on \in Nat
      PROVE  Made(mode, k, on)' <=> Made(mode, k, on)
  <2>1. Owed(mode, k, on) /\ mode = PerEvent => on < cursor
    BY <1>1, <1>2, OwedNumbers, RunningNumbers
  <2> QED
    BY <1>1, <1>2, <1>4, <2>1, RunningNumbers DEF Made
<1>6. CallsSoFar'
  <2>1. EventsStay
    BY <1>1, <1>2, RunningNumbers DEF EventsStay
  <2> QED
    BY <1>1, <1>2, <1>3, <1>5, <2>1, QuietStep
<1>7. CallerIsLast'
  BY <1>1, <1>2, <1>3 DEF CInv, CallerIsLast
<1>8. EmitterKnown'
  BY <1>1, <1>2, <1>3, RunningNumbers DEF CInv, EmitterKnown
<1>9. CallUnderWay'
  BY <1>1 DEF CallUnderWay
<1> QED
  BY <1>6, <1>7, <1>8, <1>9 DEF CInv

\* The call on an event is over.
LEMMA ConsumerReturnsCalls == ASSUME IInv, CInv, ConsumerReturns PROVE CInv'
<1>1. /\ pc = "in_event" /\ consumer' = consumer + 1 /\ pc' = "dispatch"
      /\ cursor' = cursor /\ m' = m /\ g' = g /\ producer' = producer
      /\ calls' = calls /\ events' = events /\ consumed' = consumed
      /\ pipeline' = pipeline /\ ph' = ph
  BY DEF ConsumerReturns, emission
<1>2. pc \in Running /\ CallsSoFar
  BY <1>1 DEF Running, CInv
<1>3. Phase' = Phase /\ \A k : Decl(k)' = Decl(k)
  BY <1>1 DEF Phase, Decl
<1>4. \A mode, k, on : Owed(mode, k, on)' <=> Owed(mode, k, on)
  BY <1>1, <1>3, OwedStays
<1>5. ASSUME NEW mode \in Modes, NEW k \in Nat, NEW on \in Nat
      PROVE  Made(mode, k, on)' <=> Made(mode, k, on)
  <2>1. Owed(mode, k, on) => k \in Nat
    BY <1>1, <1>2, OwedNumbers, RunningNumbers
  <2> QED
    BY <1>1, <1>2, <1>4, <2>1, RunningNumbers DEF Made
<1>6. CallsSoFar'
  <2>1. EventsStay
    BY <1>1, <1>2, RunningNumbers DEF EventsStay
  <2> QED
    BY <1>1, <1>2, <1>3, <1>5, <2>1, QuietStep
<1>7. CallerIsLast'
  BY <1>1, <1>2, <1>3 DEF CInv, CallerIsLast
<1>8. EmitterKnown'
  BY <1>1, <1>2, <1>3, RunningNumbers DEF CInv, EmitterKnown
<1>9. CallUnderWay'
  BY <1>1 DEF CallUnderWay
<1> QED
  BY <1>6, <1>7, <1>8, <1>9 DEF CInv

\* All full-halo modules were called.
LEMMA StartGalaxiesCalls == ASSUME IInv, CInv, StartGalaxies PROVE CInv'
<1>1. /\ pc = "full" /\ m > Len(Phase) /\ pc' = "galaxies" /\ g' = 0 /\ m' = 1
      /\ calls' = calls /\ events' = events /\ consumed' = consumed
      /\ pipeline' = pipeline /\ ph' = ph
  BY DEF StartGalaxies, dispatch, emission
<1>2. pc \in Running /\ CallsSoFar
  BY <1>1 DEF Running, CInv
<1>3. Phase' = Phase /\ \A k : Decl(k)' = Decl(k)
  BY <1>1 DEF Phase, Decl
<1>4. \A mode, k, on : Owed(mode, k, on)' <=> Owed(mode, k, on)
  BY <1>1, <1>3, OwedStays
<1>5. ASSUME NEW mode \in Modes, NEW k \in Nat, NEW on \in Nat
      PROVE  Made(mode, k, on)' <=> Made(mode, k, on)
  <2>1. Owed(mode, k, on) => k < m /\ k >= 1
    BY <1>1, <1>2, OwedNumbers, RunningNumbers
  <2> QED
    BY <1>1, <1>2, <1>4, <2>1, RunningNumbers DEF Made
<1>6. CallsSoFar'
  <2>1. EventsStay
    BY <1>1, <1>2, RunningNumbers DEF EventsStay
  <2> QED
    BY <1>1, <1>2, <1>3, <1>5, <2>1, QuietStep
<1>7. CallerIsLast'
  BY <1>1, <1>2, <1>3 DEF CInv, CallerIsLast
<1>8. EmitterKnown'
  BY <1>1, <1>2, <1>3, RunningNumbers DEF CInv, EmitterKnown
<1>9. CallUnderWay'
  BY <1>1 DEF CallUnderWay
<1> QED
  BY <1>6, <1>7, <1>8, <1>9 DEF CInv

\* An entry that is no by-galaxy module is owed no such call.
LEMMA NotByGalaxyCalls == ASSUME IInv, CInv, NotByGalaxy PROVE CInv'
<1>1. /\ pc = "galaxies" /\ m <= Len(Phase) /\ Phase[m].mode # ByGalaxy /\ m' = m + 1
      /\ pc' = pc /\ g' = g /\ calls' = calls /\ events' = events /\ consumed' = consumed
      /\ pipeline' = pipeline /\ ph' = ph
  BY DEF NotByGalaxy, GalaxyLoop, emission
<1>2. pc \in Running /\ CallsSoFar
  BY <1>1 DEF Running, CInv
<1>3. Phase' = Phase /\ \A k : Decl(k)' = Decl(k)
  BY <1>1 DEF Phase, Decl
<1>4. \A mode, k, on : Owed(mode, k, on)' <=> Owed(mode, k, on)
  BY <1>1, <1>3, OwedStays
<1>5. ASSUME NEW mode \in Modes, NEW k \in Nat, NEW on \in Nat
      PROVE  Made(mode, k, on)' <=> Made(mode, k, on)
  <2>1. Owed(mode, k, on) /\ mode = ByGalaxy => k # m
    BY <1>1, <1>2, OwedNumbers, RunningNumbers
  <2> QED
    BY <1>1, <1>2, <1>4, <2>1, RunningNumbers DEF Made
<1>6. CallsSoFar'
  <2>1. EventsStay
    BY <1>1, <1>2, RunningNumbers DEF EventsStay
  <2> QED
    BY <1>1, <1>2, <1>3, <1>5, <2>1, QuietStep
<1>7. CallerIsLast'
  BY <1>1, <1>2, <1>3 DEF CInv, CallerIsLast
<1>8. EmitterKnown'
  BY <1>1, <1>2, <1>3, RunningNumbers DEF CInv, EmitterKnown
<1>9. CallUnderWay'
  BY <1>1 DEF CallUnderWay
<1> QED
  BY <1>6, <1>7, <1>8, <1>9 DEF CInv

\* A galaxy that was consumed is owed nothing, any other had its calls.
LEMMA NextGalaxyCalls == ASSUME IInv, CInv, NextGalaxy PROVE CInv'
<1>1. /\ pc = "galaxies" /\ (g \notin consumed => m > Len(Phase)) /\ g' = g + 1 /\ m' = 1
      /\ pc' = pc /\ calls' = calls /\ events' = events /\ consumed' = consumed
      /\ pipeline' = pipeline /\ ph' = ph
  BY DEF NextGalaxy, GalaxyLoop, Evolves, emission
<1>2. pc \in Running /\ CallsSoFar
  BY <1>1 DEF Running, CInv
<1>3. Phase' = Phase /\ \A k : Decl(k)' = Decl(k)
  BY <1>1 DEF Phase, Decl
<1>4. \A mode, k, on : Owed(mode, k, on)' <=> Owed(mode, k, on)
  BY <1>1, <1>3, OwedStays
<1>5. ASSUME NEW mode \in Modes, NEW k \in Nat, NEW on \in Nat
      PROVE  Made(mode, k, on)' <=> Made(mode, k, on)
  <2>1. Owed(mode, k, on) => k >= 1 /\ (mode = ByGalaxy /\ on = g => k < m)
    BY <1>1, <1>2, OwedNumbers, RunningNumbers DEF Owed
  <2> QED
    BY <1>1, <1>2, <1>4, <2>1, RunningNumbers DEF Made
<1>6. CallsSoFar'
  <2>1. EventsStay
    BY <1>1, <1>2, RunningNumbers DEF EventsStay
  <2> QED
    BY <1>1, <1>2, <1>3, <1>5, <2>1, QuietStep
<1>7. CallerIsLast'
  BY <1>1, <1>2, <1>3 DEF CInv, CallerIsLast
<1>8. EmitterKnown'
  BY <1>1, <1>2, <1>3, RunningNumbers DEF CInv, EmitterKnown
<1>9. CallUnderWay'
  BY <1>1 DEF CallUnderWay
<1> QED
  BY <1>6, <1>7, <1>8, <1>9 DEF CInv

\* The call on a galaxy is over.
LEMMA ByGalaxyReturnsCalls == ASSUME IInv, CInv, ByGalaxyReturns PROVE CInv'
<1>1. /\ pc = "in_galaxy" /\ m' = m + 1 /\ pc' = "galaxies" /\ g' = g
      /\ calls' = calls /\ events' = events /\ consumed' = consumed
      /\ pipeline' = pipeline /\ ph' = ph
  BY DEF ByGalaxyReturns, dispatch, emission
<1>2. pc \in Running /\ CallsSoFar
  BY <1>1 DEF Running, CInv
<1>3. Phase' = Phase /\ \A k : Decl(k)' = Decl(k)
  BY <1>1 DEF Phase, Decl
<1>4. \A mode, k, on : Owed(mode, k, on)' <=> Owed(mode, k, on)
  BY <1>1, <1>3, OwedStays
<1>5. ASSUME NEW mode \in Modes, NEW k \in Nat, NEW on \in Nat
      PROVE  Made(mode, k, on)' <=> Made(mode, k, on)
  <2>1. Owed(mode, k, on) => k \in Nat
    BY <1>1, <1>2, OwedNumbers, RunningNumbers
  <2> QED
    BY <1>1, <1>2, <1>4, <2>1, RunningNumbers DEF Made
<1>6. CallsSoFar'
  <2>1. EventsStay
    BY <1>1, <1>2, RunningNumbers DEF EventsStay
  <2> QED
    BY <1>1, <1>2, <1>3, <1>5, <2>1, QuietStep
<1>7. CallerIsLast'
  BY <1>1, <1>2, <1>3 DEF CInv, CallerIsLast
<1>8. EmitterKnown'
  BY <1>1, <1>2, <1>3, RunningNumbers DEF CInv, EmitterKnown
<1>9. CallUnderWay'
  BY <1>1 DEF CallUnderWay
<1> QED
  BY <1>6, <1>7, <1>8, <1>9 DEF CInv

-----------------------------------------------------------------------------
(* The other steps, and the theorem.                                         *)

\* A galaxy is consumed before the by-galaxy modules are called.
LEMMA ConsumeCalls == ASSUME IInv, CInv, Consume PROVE CInv'
<1>1. /\ pc = "in_full" /\ pc' = pc /\ m' = m /\ producer' = producer
      /\ calls' = calls /\ events' = events
      /\ pipeline' = pipeline /\ ph' = ph
  BY DEF Consume, dispatch, emission
<1>2. pc \in Running /\ CallsSoFar
  BY <1>1 DEF Running, CInv
<1>3. Phase' = Phase /\ \A k : Decl(k)' = Decl(k)
  BY <1>1 DEF Phase, Decl
<1>4. ASSUME NEW mode \in Modes, NEW k \in Nat, NEW on \in Nat
      PROVE  Made(mode, k, on)' <=> Made(mode, k, on)
  <2>1. CASE mode = ByGalaxy
    BY <1>1, <2>1 DEF Made
  <2>2. CASE mode # ByGalaxy
    <3>1. Owed(mode, k, on)' <=> Owed(mode, k, on)
      BY <1>1, <1>3, <2>2 DEF Owed
    <3> QED
      BY <1>1, <2>2, <3>1 DEF Made
  <2> QED
    BY <2>1, <2>2
<1>5. CallsSoFar'
  <2>1. EventsStay
    BY <1>1, <1>2, RunningNumbers DEF EventsStay
  <2> QED
    BY <1>1, <1>2, <1>3, <1>4, <2>1, QuietStep
<1>6. CallerIsLast'
  BY <1>1, <1>2, <1>3 DEF CInv, CallerIsLast
<1>7. EmitterKnown'
  BY <1>1, <1>2, <1>3 DEF CInv, EmitterKnown
<1>8. CallUnderWay'
  BY <1>1 DEF CallUnderWay
<1> QED
  BY <1>5, <1>6, <1>7, <1>8 DEF CInv

\* A new event is owed calls that are about to be made.
LEMMA EmitCalls == ASSUME IInv, CInv, Emit PROVE CInv'
<1>1. /\ Emitting /\ producer # NoProducer
      /\ cursor' = Len(events) + 1 /\ consumer' = 1 /\ pc' = "dispatch"
      /\ m' = m /\ g' = g /\ producer' = producer /\ calls' = calls /\ consumed' = consumed
      /\ pipeline' = pipeline /\ ph' = ph
  BY DEF Emit
<1>2. pc = "in_full"
  BY <1>1 DEF Emitting, IInv, EmissionGuarded
<1>3. pc \in Running /\ CallsSoFar
  BY <1>2 DEF Running, CInv
<1>4. Phase' = Phase /\ \A k : Decl(k)' = Decl(k)
  BY <1>1 DEF Phase, Decl
<1>5. PICK e : e.producer = producer /\ events' = Append(events, e) /\ e \in Event
  <2>1. PICK n \in Names : \E id \in Registry[n].emits : \E target \in Gals :
          /\ Registry[n].id = producer
          /\ events' = Append(events, [producer |-> producer, id |-> id, target |-> target])
    BY DEF Emit
  <2>2. PICK id \in Registry[n].emits, target \in Gals :
          events' = Append(events, [producer |-> producer, id |-> id, target |-> target])
    BY <2>1
  <2>3. Registry[n].emits \subseteq Nat \ {0} /\ Registry[n].id \in Nat
    BY RegistryAssumption DEF Declaration
  <2>4. [producer |-> producer, id |-> id, target |-> target] \in Event
    BY <1>1, <2>1, <2>2, <2>3 DEF Event
  <2> QED
    BY <2>2, <2>4
<1>6. /\ events \in Seq(Event) /\ events' \in Seq(Event) /\ Len(events) \in Nat
      /\ Len(events') = Len(events) + 1 /\ events'[Len(events) + 1] = e
      /\ \A i \in 1 .. Len(events) : events'[i] = events[i]
      /\ DOMAIN events = 1 .. Len(events) /\ DOMAIN events' = 1 .. Len(events) + 1
  <2>1. events \in Seq(Event) /\ Len(events) \in Nat /\ DOMAIN events = 1 .. Len(events)
    BY <1>3, RunningNumbers
  <2> QED
    BY <1>5, <2>1
<1>7. ASSUME NEW mode \in Modes, NEW k \in Nat, NEW on \in Nat
      PROVE  Made(mode, k, on)' <=> Made(mode, k, on)
  <2>1. CASE mode = PerEvent
    <3>1. CASE on \in DOMAIN events
      <4>1. on \in 1 .. Len(events) /\ on \in DOMAIN events' /\ events'[on] = events[on]
        BY <1>6, <3>1
      <4>2. Owed(mode, k, on)' <=> Owed(mode, k, on)
        BY <1>4, <2>1, <3>1, <4>1 DEF Owed, FullHalo, PerEvent, ByGalaxy
      <4>3. on < cursor'
        BY <1>1, <1>6, <4>1
      <4> QED
        BY <1>1, <1>2, <2>1, <4>2, <4>3 DEF Made, FullHalo, PerEvent, ByGalaxy
    <3>2. CASE on \notin DOMAIN events
      <4>1. ~Made(mode, k, on)
        BY <2>1, <3>2 DEF Made, Owed
      <4>2. ~(on < cursor') \/ on = 0
        BY <1>1, <1>6, <3>2
      <4>3. Owed(mode, k, on)' => k \in DOMAIN Phase /\ on \in DOMAIN events'
        BY <1>4, <2>1 DEF Owed
      <4>4. Owed(mode, k, on)' => k >= 1 /\ on # 0
        BY <1>3, <1>6, <4>3, RunningNumbers
      <4>5. ~Made(mode, k, on)'
        BY <1>1, <2>1, <4>2, <4>4 DEF Made
      <4> QED
        BY <4>1, <4>5
    <3> QED
      BY <3>1, <3>2
  <2>2. CASE mode # PerEvent
    <3>1. Owed(mode, k, on)' <=> Owed(mode, k, on)
      BY <1>1, <1>4, <2>2 DEF Owed
    <3> QED
      BY <1>1, <1>2, <2>2, <3>1 DEF Made
  <2> QED
    BY <2>1, <2>2
<1>8. CallsSoFar'
  <2>1. EventsStay
    BY <1>6 DEF EventsStay
  <2> QED
    BY <1>1, <1>3, <1>4, <1>7, <2>1, QuietStep
<1>9. CallerIsLast'
  BY <1>1, <1>2, <1>3, <1>4 DEF CInv, CallerIsLast
<1>10. EmitterKnown'
  <2>1. producer = Decl(m).id
    BY <1>1, <1>2, <1>3 DEF CInv, EmitterKnown
  <2> QED
    BY <1>1, <1>4, <1>5, <1>6, <2>1 DEF EmitterKnown
<1>11. CallUnderWay'
  BY <1>1 DEF CallUnderWay
<1> QED
  BY <1>8, <1>9, <1>10, <1>11 DEF CInv

\* A subscriber is called on the event that the last full-halo module emitted.
LEMMA CallConsumerCalls == ASSUME IInv, CInv, CallConsumer PROVE CInv'
<1>1. /\ pc = "dispatch" /\ cursor <= Len(events) /\ consumer <= Len(Phase)
      /\ Subscribed(Phase, consumer, events[cursor])
      /\ calls' = Append(calls, Call(PerEvent, consumer, cursor)) /\ pc' = "in_event"
      /\ cursor' = cursor /\ consumer' = consumer /\ m' = m /\ g' = g /\ producer' = producer
      /\ events' = events /\ consumed' = consumed
      /\ pipeline' = pipeline /\ ph' = ph
  BY DEF CallConsumer, Dispatching
<1>2. pc \in Running /\ CallsSoFar
  BY <1>1 DEF Running, CInv
<1>3. Phase' = Phase /\ \A k : Decl(k)' = Decl(k)
  BY <1>1 DEF Phase, Decl
<1>4. \A mode, k, on : Owed(mode, k, on)' <=> Owed(mode, k, on)
  BY <1>1, <1>3, OwedStays
<1>5. /\ consumer \in DOMAIN Phase /\ consumer \in Nat /\ cursor \in Nat
      /\ cursor \in DOMAIN events /\ PerEvent \in Modes /\ events \in Seq(Event)
  <2>1. cursor >= 1
    BY <1>1 DEF IInv, DispatchInTurn
  <2> QED
    BY <1>1, <1>2, <2>1, RunningNumbers DEF Modes
<1>6. Owed(PerEvent, consumer, cursor)
  BY <1>1, <1>5 DEF Owed, Subscribed, Decl, FullHalo, PerEvent, ByGalaxy
<1>7. ASSUME NEW mode \in Modes, NEW k \in Nat, NEW on \in Nat
      PROVE  Made(mode, k, on)' <=>
                 Made(mode, k, on) \/ (mode = PerEvent /\ k = consumer /\ on = cursor)
  BY <1>1, <1>4, <1>5, <1>6 DEF Made, FullHalo, PerEvent, ByGalaxy
<1>8. ASSUME NEW mode \in Modes, NEW k \in Nat, NEW on \in Nat, Made(mode, k, on)
      PROVE  ComesBefore(Call(mode, k, on), Call(PerEvent, consumer, cursor))
  <2>1. mode # ByGalaxy /\ (mode = PerEvent => on < cursor \/ (on = cursor /\ k < consumer))
    BY <1>1, <1>8 DEF Made
  <2> QED
    BY <2>1 DEF ComesBefore, Call
<1>9. LastCaller(cursor)
  <2>1. events[cursor].producer = Decl(m).id
    BY <1>1, <1>2, <1>5 DEF CInv, EmitterKnown
  <2>2. PICK i \in 1 .. Len(calls) :
          /\ calls[i].mode = FullHalo /\ calls[i].entry = m
          /\ \A l \in (i + 1) .. Len(calls) : calls[l].mode = PerEvent
    BY <1>1, <1>2 DEF CInv, CallerIsLast
  <2> QED
    BY <2>1, <2>2 DEF LastCaller
<1>10. CallsSoFar'
  BY <1>1, <1>2, <1>3, <1>5, <1>7, <1>8, <1>9, CallStep
<1>11. CallerIsLast'
  <2>1. PICK d : d = Call(PerEvent, consumer, cursor)
    OBVIOUS
  <2>2. d \in ACall /\ d.mode = PerEvent
    BY <1>5, <2>1, CallIsTyped
  <2>3. PICK t : t = Append(calls, d)
    OBVIOUS
  <2>4. calls \in Seq(ACall)
    BY <1>2 DEF CallsSoFar
  <2>5. /\ Len(t) = Len(calls) + 1 /\ Len(calls) \in Nat /\ t[Len(calls) + 1] = d
        /\ \A i \in 1 .. Len(calls) : t[i] = calls[i]
    BY <2>2, <2>3, <2>4
  <2>6. PICK i \in 1 .. Len(calls) :
          /\ calls[i].mode = FullHalo /\ calls[i].entry = m
          /\ \A l \in (i + 1) .. Len(calls) : calls[l].mode = PerEvent
    BY <1>1, <1>2 DEF CInv, CallerIsLast
  <2>7. ASSUME NEW l \in (i + 1) .. Len(t) PROVE t[l].mode = PerEvent
    <3>1. CASE l = Len(calls) + 1
      BY <2>2, <2>5, <3>1
    <3>2. CASE l # Len(calls) + 1
      <4>1. l \in (i + 1) .. Len(calls) /\ l \in 1 .. Len(calls)
        BY <2>5, <3>2
      <4> QED
        BY <2>5, <2>6, <4>1
    <3> QED
      BY <3>1, <3>2
  <2>8. i \in 1 .. Len(t) /\ t[i].mode = FullHalo /\ t[i].entry = m
    BY <2>5, <2>6
  <2>9. calls' = t
    BY <1>1, <2>1, <2>3
  <2>10. m \in DOMAIN Phase /\ Phase[m].mode = FullHalo
    BY <1>1, <1>2 DEF CInv, CallerIsLast
  <2> QED
    BY <1>1, <1>3, <2>7, <2>8, <2>9, <2>10 DEF CallerIsLast
<1>12. EmitterKnown'
  BY <1>1, <1>2, <1>3 DEF CInv, EmitterKnown
<1>13. CallUnderWay'
  BY <1>1, <1>4, <1>6 DEF CallUnderWay
<1> QED
  BY <1>10, <1>11, <1>12, <1>13 DEF CInv

\* A by-galaxy module is called on a galaxy that was not consumed.
LEMMA CallByGalaxyCalls == ASSUME IInv, CInv, CallByGalaxy PROVE CInv'
<1>1. /\ pc = "galaxies" /\ g < NumGals /\ g \notin consumed /\ m <= Len(Phase)
      /\ Phase[m].mode = ByGalaxy
      /\ calls' = Append(calls, Call(ByGalaxy, m, g)) /\ pc' = "in_galaxy"
      /\ m' = m /\ g' = g /\ events' = events /\ consumed' = consumed
      /\ pipeline' = pipeline /\ ph' = ph
  BY DEF CallByGalaxy, GalaxyLoop, Evolves
<1>2. pc \in Running /\ CallsSoFar
  BY <1>1 DEF Running, CInv
<1>3. Phase' = Phase
  BY <1>1 DEF Phase
<1>4. \A mode, k, on : Owed(mode, k, on)' <=> Owed(mode, k, on)
  BY <1>1, <1>3, OwedStays
<1>5. m \in DOMAIN Phase /\ m \in Nat /\ g \in Gals /\ g \in Nat
      /\ ByGalaxy \in Modes /\ events \in Seq(Event)
  BY <1>1, <1>2, RunningNumbers DEF Modes, Gals
<1>6. Owed(ByGalaxy, m, g)
  BY <1>1, <1>5 DEF Owed, FullHalo, PerEvent, ByGalaxy
<1>7. ASSUME NEW mode \in Modes, NEW k \in Nat, NEW on \in Nat
      PROVE  Made(mode, k, on)' <=> Made(mode, k, on) \/ (mode = ByGalaxy /\ k = m /\ on = g)
  BY <1>1, <1>4, <1>5, <1>6 DEF Made, FullHalo, PerEvent, ByGalaxy
<1>8. ASSUME NEW mode \in Modes, NEW k \in Nat, NEW on \in Nat, Made(mode, k, on)
      PROVE  ComesBefore(Call(mode, k, on), Call(ByGalaxy, m, g))
  <2>1. mode = ByGalaxy => on < g \/ (on = g /\ k < m)
    BY <1>1, <1>8 DEF Made
  <2> QED
    BY <2>1 DEF ComesBefore, Call
<1>9. ByGalaxy # PerEvent
  BY DEF ByGalaxy, PerEvent
<1>10. CallsSoFar'
  BY <1>1, <1>2, <1>3, <1>5, <1>7, <1>8, <1>9, CallStep
<1>11. CallerIsLast' /\ EmitterKnown'
  BY <1>1 DEF CallerIsLast, EmitterKnown
<1>12. CallUnderWay'
  BY <1>1, <1>4, <1>6 DEF CallUnderWay
<1> QED
  BY <1>10, <1>11, <1>12 DEF CInv

\* A phase begins with no calls, and owes none yet.
LEMMA BeginPhaseCalls == ASSUME IInv, BeginPhase PROVE CInv'
<1>1. /\ pc' = "full" /\ m' = 1 /\ g' = 0 /\ events' = <<>> /\ calls' = <<>>
      /\ pipeline' = pipeline /\ ph' = ph
  BY DEF BeginPhase
<1>2. DOMAIN events' = {} /\ Len(calls') = 0 /\ DOMAIN calls' = {} /\ calls' \in Seq(ACall)
  BY <1>1
<1>3. ph \in 1 .. Len(pipeline) /\ pipeline \in Seq(Seq(Entry)) /\ Phase' = Phase
  BY <1>1, Counted DEF BeginPhase, IInv, EventsInTurn, TypeOK, InPhase, Phase
<1>4. Phase \in Seq(Entry)
  BY <1>3, ElementOfSeq DEF Phase
<1>5. DOMAIN Phase' = 1 .. Len(Phase) /\ Len(Phase) \in Nat
  BY <1>3, <1>4, LenProperties
<1>6. ASSUME NEW mode \in Modes, NEW k \in Nat, NEW on \in Nat
      PROVE  ~Made(mode, k, on)'
  <2>1. CASE mode = FullHalo
    BY <1>1, <1>5, <2>1 DEF Made, Owed
  <2>2. CASE mode = PerEvent
    BY <1>2, <2>2 DEF Made, Owed
  <2>3. CASE mode = ByGalaxy
    BY <1>1, <2>3 DEF Made
  <2> QED
    BY <2>1, <2>2, <2>3 DEF Modes
<1>7. CallsAreMade'
  BY <1>2, <1>6 DEF CallsAreMade, Called
<1>8. CallsInOrder' /\ HeardAtOnce'
  BY <1>2 DEF CallsInOrder, HeardAtOnce
<1>9. CallsSoFar'
  BY <1>2, <1>7, <1>8 DEF CallsSoFar
<1>10. CallerIsLast' /\ EmitterKnown' /\ CallUnderWay'
  BY <1>1 DEF CallerIsLast, EmitterKnown, CallUnderWay
<1> QED
  BY <1>9, <1>10 DEF CInv

\* Every step keeps what is known of the calls.
LEMMA CallsStep == IInv /\ CInv /\ [Next]_vars => CInv'
<1> SUFFICES ASSUME IInv, CInv, [Next]_vars PROVE CInv'
  OBVIOUS
<1>1. CASE Accept \/ Reject \/ SkipPhase \/ EndPhase \/ ModuleFails
  BY <1>1 DEF Accept, Reject, SkipPhase, EndPhase, ModuleFails, CInv, Running
<1>2. CASE UNCHANGED vars
  <2>1. /\ pipeline' = pipeline /\ ph' = ph /\ pc' = pc /\ m' = m /\ g' = g /\ events' = events
        /\ cursor' = cursor /\ consumer' = consumer /\ producer' = producer
        /\ consumed' = consumed /\ calls' = calls
    BY <1>2 DEF vars, dispatch, emission
  <2> SUFFICES ASSUME pc \in Running PROVE CInv'
    BY <2>1 DEF CInv
  <2>2. Phase' = Phase /\ \A k : Decl(k)' = Decl(k)
    BY <2>1 DEF Phase, Decl
  <2>3. \A mode, k, on : Owed(mode, k, on)' <=> Owed(mode, k, on)
    BY <2>1, <2>2, OwedStays
  <2>4. \A mode \in Modes : \A k, on \in Nat : Made(mode, k, on)' <=> Made(mode, k, on)
    BY <2>1, <2>3 DEF Made
  <2>5. EventsStay
    BY <2>1, RunningNumbers DEF EventsStay
  <2>6. CallsSoFar'
    BY <2>1, <2>2, <2>4, <2>5, QuietStep DEF CInv
  <2>7. CallerIsLast' /\ EmitterKnown'
    BY <2>1, <2>2 DEF CInv, CallerIsLast, EmitterKnown
  <2>8. CallUnderWay'
    BY <2>1, <2>3 DEF CInv, CallUnderWay
  <2> QED
    BY <2>6, <2>7, <2>8 DEF CInv
<1> QED
  BY <1>1, <1>2, BeginPhaseCalls, CallFullHaloCalls, NotFullHaloCalls, FullHaloReturnsCalls,
     ConsumeCalls, EmitCalls, CallConsumerCalls, NotSubscribedCalls, NextEventCalls,
     EndDispatchCalls, ConsumerReturnsCalls, StartGalaxiesCalls, CallByGalaxyCalls,
     NotByGalaxyCalls, NextGalaxyCalls, ByGalaxyReturnsCalls DEF Next

\* When the last galaxy is done, all that was owed is made.
LEMMA AllOwedIsMade ==
    ASSUME IInv, CInv, pc = "galaxies", g = NumGals
    PROVE  ToSet(calls) = PromisedCalls
<1>1. pc \in Running /\ CallsSoFar
  BY DEF Running, CInv
<1>2. calls \in Seq(ACall) /\ DOMAIN calls = 1 .. Len(calls)
  BY <1>1, LenProperties DEF CallsSoFar
<1>3. ASSUME NEW mode \in Modes, NEW k \in Nat, NEW on \in Nat
      PROVE  Made(mode, k, on) <=> Owed(mode, k, on)
  <2>1. Owed(mode, k, on) /\ mode = ByGalaxy => on < g
    BY <1>1, OwedNumbers
  <2> QED
    BY <2>1 DEF Made
<1>4. ASSUME NEW c \in ToSet(calls) PROVE c \in PromisedCalls
  <2>1. PICK i \in 1 .. Len(calls) : calls[i] = c
    BY <1>2 DEF ToSet
  <2>2. c \in ACall
    BY <1>2, <2>1, ElementOfSeq
  <2>3. PICK mode, k, on : mode = c.mode /\ k = c.entry /\ on = c.on
    OBVIOUS
  <2>4. mode \in Modes /\ k \in Nat /\ on \in Nat /\ c = Call(mode, k, on)
    BY <2>2, <2>3, CallIsNamed
  <2>5. Called(calls, mode, k, on)
    BY <2>1, <2>4 DEF Called
  <2>6. Owed(mode, k, on)
    BY <1>1, <1>3, <2>4, <2>5 DEF CallsSoFar, CallsAreMade
  <2>7. k \in DOMAIN Phase /\ on \in Gals \cup 0 .. Len(events)
    <3>1. k \in DOMAIN Phase /\ (mode = ByGalaxy => on \in Gals)
      BY <2>6 DEF Owed
    <3>2. mode = FullHalo => on \in 0 .. Len(events)
      BY <1>1, <2>4, <2>6, OwedNumbers, RunningNumbers
    <3>3. mode = PerEvent => on \in 0 .. Len(events)
      BY <1>1, <2>4, <2>6, OwedNumbers, RunningNumbers
    <3> QED
      BY <2>4, <3>1, <3>2, <3>3 DEF Modes
  <2>8. c \in [mode : Modes, entry : DOMAIN Phase, on : Gals \cup 0 .. Len(events)]
    BY <2>4, <2>7 DEF Call
  <2> QED
    BY <2>3, <2>6, <2>8 DEF PromisedCalls
<1>5. ASSUME NEW c \in PromisedCalls PROVE c \in ToSet(calls)
  <2>1. /\ c \in [mode : Modes, entry : DOMAIN Phase, on : Gals \cup 0 .. Len(events)]
        /\ Owed(c.mode, c.entry, c.on)
    BY DEF PromisedCalls
  <2>2. PICK mode, k, on : mode = c.mode /\ k = c.entry /\ on = c.on
    OBVIOUS
  <2>3. mode \in Modes /\ c = Call(mode, k, on)
    BY <2>1, <2>2 DEF Call
  <2>4. Owed(mode, k, on)
    BY <2>1, <2>2
  <2>5. k \in Nat /\ on \in Nat
    BY <1>1, <2>3, <2>4, OwedNumbers
  <2>6. Called(calls, mode, k, on)
    BY <1>1, <1>3, <2>3, <2>4, <2>5 DEF CallsSoFar, CallsAreMade
  <2> QED
    BY <1>2, <2>3, <2>6 DEF Called, ToSet
<1> QED
  BY <1>4, <1>5

\* execute_phase() calls whom the configuration promises, each once, in the
\* promised order, and every event at once (docs/DEVELOPER-GUIDE.md:391): for
\* every registry and configuration, a module configured twice included.
THEOREM CallsKeepThePromise == Spec => []CallsAsPromised
<1>1. Init => IInv /\ CInv
  BY InitHolds DEF Init, CInv, Running
<1>2. IInv /\ CInv /\ [Next]_vars => IInv' /\ CInv'
  BY StepHolds, CallsStep
<1>3. IInv /\ CInv => CallsAsPromised
  <2> SUFFICES ASSUME IInv, CInv, pc = "galaxies", g = NumGals
               PROVE  ToSet(calls) = PromisedCalls /\ CallsInOrder /\ HeardAtOnce
    BY DEF CallsAsPromised
  <2>1. CallsSoFar
    BY DEF CInv, Running
  <2> QED
    BY <2>1, AllOwedIsMade DEF CallsSoFar
<1> QED
  BY <1>1, <1>2, <1>3, PTL DEF Spec
-----------------------------------------------------------------------------
(* The generated files.                                                      *)

InputsOf(gen) == IF gen = "properties" THEN PropertyInput ELSE ModuleInput

\* Metadata that generator gen has loaded and found valid.
Validated(gen, met) ==
    /\ met \in InputsOf(gen)
    /\ gen = "properties" => Accepted(Metadata(met))
    /\ gen = "modules" => UniqueNames(ModulesAt(met)) /\ ValidEvents(ModulesAt(met))

\* The files of generator gen are those of one generation, from metadata met with
\* hash h.
Generation(gen, met, h) ==
    \A f \in Range(FilesOf(gen)) : file[f] = [from |-> met, hashed |-> h, state |-> "whole"]
OneGeneration(gen) ==
    \E met, h \in InputsOf(gen) :
        Validated(gen, met) /\ Generation(gen, met, h) /\ saved[gen] \in {None, h}
Untouched(gen) == saved[gen] = None /\ \A f \in Range(FilesOf(gen)) : file[f] = None

\* Unless the last generation that began was not finished, the files are those of
\* one, and the saved hash is its hash or was cleaned.
FilesBelong == \A gen \in Generators : torn[gen] \/ Untouched(gen) \/ OneGeneration(gen)

\* A module file, torn or whole, was made from metadata that passed validation.
SourcesAreValid ==
    \A f \in Range(ModuleFiles) : file[f] = None \/ Validated("modules", file[f].from)

\* Generator gen is about to write its file n (all are written if there is none):
\* it has loaded and hashed its metadata, and the files before it are of them.
Loaded(gen) == Validated(gen, from) /\ want[gen] \in InputsOf(gen)
Written(gen, n) ==
    /\ Loaded(gen)
    /\ n \in 1 .. Len(FilesOf(gen)) + 1
    /\ \A j \in 1 .. n - 1 : file[FilesOf(gen)[j]] = Content(gen, "whole")
InProgress ==
    /\ at = "load" => want["properties"] \in PropertyInput
    /\ at = "write" => Written("properties", next) /\ next <= Len(PropertyFiles)
    /\ at = "save"  => Written("properties", Len(PropertyFiles) + 1)
    /\ at = "hash"  => Validated("modules", from)
    /\ at = "write modules" => Written("modules", next) /\ next <= Len(ModuleFiles)
    /\ at = "save modules"  => Written("modules", Len(ModuleFiles) + 1)
    /\ at \in {"go on", "save anyway"} => Loaded("modules") /\ torn["modules"]
    /\ at = "go on" => next \in 1 .. Len(ModuleFiles)

\* The saved hashes are those of the command's metadata once its generators are done.
HashesAreSaved ==
    /\ at \in {"modules", "hash", "write modules", "save modules", "compile", "built"} =>
          Matches("properties", saved["properties"], want["properties"])
    /\ at \in {"compile", "built"} =>
          /\ want["modules"] \in ModuleInput
          /\ Matches("modules", saved["modules"], want["modules"])

\* A verdict is about the files as they are.
VerdictsStand == /\ at = "passed" => ChecksPass
                 /\ at = "failed" => ~ChecksPass

FileContent == {None} \cup [from : Readings, hashed : Readings,
                            state : {"whole", "empty", "cut"}]
MakeTypeOK ==
    /\ yaml \in [Generators -> {0} \cup DOMAIN PropertyEdits \cup DOMAIN ModuleEdits]
    /\ yaml["properties"] \in {0} \cup DOMAIN PropertyEdits
    /\ yaml["modules"] \in {0} \cup DOMAIN ModuleEdits
    /\ at # "idle" => cmd.sel \in Selections
    /\ want \in [Generators -> Readings \cup {None}]
    /\ saved \in [Generators -> Readings \cup {None}]
    /\ file \in [Files -> FileContent]
    /\ torn \in [Generators -> BOOLEAN]

MakeInv == /\ MakeTypeOK /\ FilesBelong /\ SourcesAreValid /\ InProgress
           /\ HashesAreSaved /\ VerdictsStand

\* No file has two generators.
LEMMA FilesApart ==
    /\ \A f \in Range(PropertyFiles) : f \notin Range(ModuleFiles)
    /\ Range(PropertyFiles) \subseteq Files /\ Range(ModuleFiles) \subseteq Files
    /\ Len(PropertyFiles) = 15
    /\ Range(PropertyFiles) = {PropertyFiles[j] : j \in 1 .. 15}
    /\ "property_ranges.json" \in Range(PropertyFiles)
    /\ Len(ModuleFiles) = 3
    /\ Range(ModuleFiles) = {ModuleFiles[j] : j \in 1 .. 3}
    /\ Range(ModuleFiles) = {"event_contracts.h", "module_init.c", "module_sources.txt"}
<1>1. Len(ModuleFiles) = 3 /\ DOMAIN ModuleFiles = 1 .. 3
  BY DEF ModuleFiles
<1>2. Range(ModuleFiles) = {ModuleFiles[j] : j \in 1 .. 3}
  BY <1>1 DEF Range
<1>3. Range(ModuleFiles) = {"event_contracts.h", "module_init.c", "module_sources.txt"}
  <2>1. /\ ModuleFiles[1] = "event_contracts.h" /\ ModuleFiles[2] = "module_init.c"
        /\ ModuleFiles[3] = "module_sources.txt"
    BY DEF ModuleFiles
  <2> QED
    BY <1>2, <2>1
<1>4. Len(PropertyFiles) = 15 /\ DOMAIN PropertyFiles = 1 .. 15
  BY DEF PropertyFiles
<1>5. Range(PropertyFiles) = {PropertyFiles[j] : j \in 1 .. 15}
  BY <1>4 DEF Range
<1>6. PropertyFiles[15] = "property_ranges.json"
  BY DEF PropertyFiles
<1>7. ASSUME NEW j \in 1 .. 15
      PROVE  PropertyFiles[j] \notin {"event_contracts.h", "module_init.c", "module_sources.txt"}
  BY DEF PropertyFiles
<1> QED
  BY <1>1, <1>2, <1>3, <1>4, <1>5, <1>6, <1>7 DEF Files

\* What a generator reads is such metadata.
LEMMA InputsAreRecords ==
    ASSUME MakeTypeOK, NEW sel \in Selections
    PROVE  /\ PropertyInputs(sel) \in PropertyInput /\ ModuleInputs(sel) \in ModuleInput
           /\ PropertyInputs(sel).test = sel.test
<1>1. /\ sel.model \in DOMAIN ModulesOf /\ sel.sim \in DOMAIN CatalogOf /\ sel.test \in BOOLEAN
  BY GeneratedCodeAssumption
<1>2. /\ yaml["properties"] \in {0} \cup DOMAIN PropertyEdits
      /\ yaml["modules"] \in {0} \cup DOMAIN ModuleEdits
  BY DEF MakeTypeOK
<1> QED
  BY <1>1, <1>2 DEF PropertyInputs, ModuleInputs, PropertyInput, ModuleInput

\* The invariant holds where nothing was ever generated.
LEMMA MakeInvInit == MakeInit => MakeInv
<1> SUFFICES ASSUME MakeInit PROVE MakeInv
  OBVIOUS
<1>1. /\ yaml = [gen \in Generators |-> 0] /\ at = "idle" /\ want = Nothing /\ saved = Nothing
      /\ file = [f \in Files |-> None] /\ torn = [gen \in Generators |-> FALSE]
  BY DEF MakeInit
<1>2. MakeTypeOK
  BY <1>1 DEF MakeTypeOK, Nothing, Generators, FileContent
<1>3. \A gen \in Generators : saved[gen] = None
  BY <1>1 DEF Nothing
<1>4. \A f \in Files : file[f] = None
  BY <1>1
<1>5. \A gen \in Generators : Range(FilesOf(gen)) \subseteq Files
  BY FilesApart DEF FilesOf
<1>6. FilesBelong
  BY <1>3, <1>4, <1>5 DEF FilesBelong, Untouched
<1>7. SourcesAreValid
  BY <1>4, FilesApart DEF SourcesAreValid
<1> QED
  BY <1>1, <1>2, <1>6, <1>7 DEF MakeInv, InProgress, HashesAreSaved, VerdictsStand

-----------------------------------------------------------------------------
(* The steps.                                                                *)

\* Both file lists, by generator.
LEMMA GeneratorsFiles ==
    /\ FilesOf("properties") = PropertyFiles /\ FilesOf("modules") = ModuleFiles
    /\ \A gen \in Generators :
          /\ Len(FilesOf(gen)) \in Nat \ {0}
          /\ Range(FilesOf(gen)) = {FilesOf(gen)[j] : j \in 1 .. Len(FilesOf(gen))}
          /\ Range(FilesOf(gen)) \subseteq Files
          /\ InputsOf(gen) \subseteq Readings
          /\ \A i \in Generators \ {gen} : \A f \in Range(FilesOf(gen)) : f \notin Range(FilesOf(i))
<1>1. FilesOf("properties") = PropertyFiles /\ FilesOf("modules") = ModuleFiles
  BY DEF FilesOf
<1>2. Generators = {"properties", "modules"}
  BY DEF Generators
<1>3. InputsOf("properties") \subseteq Readings /\ InputsOf("modules") \subseteq Readings
  BY DEF InputsOf, Readings
<1>4. \A f \in Range(ModuleFiles) : f \notin Range(PropertyFiles)
  BY FilesApart
<1>5. ASSUME NEW gen \in Generators
      PROVE  /\ Len(FilesOf(gen)) \in Nat \ {0}
             /\ Range(FilesOf(gen)) = {FilesOf(gen)[j] : j \in 1 .. Len(FilesOf(gen))}
             /\ Range(FilesOf(gen)) \subseteq Files
             /\ InputsOf(gen) \subseteq Readings
             /\ \A i \in Generators \ {gen} :
                   \A f \in Range(FilesOf(gen)) : f \notin Range(FilesOf(i))
  <2>1. CASE gen = "properties"
    <3>1. \A i \in Generators \ {gen} : i = "modules"
      BY <2>1, <1>2
    <3>2. FilesOf(gen) = PropertyFiles /\ InputsOf(gen) \subseteq Readings
      BY <2>1, <1>1, <1>3
    <3>3. /\ Len(FilesOf(gen)) \in Nat \ {0}
          /\ Range(FilesOf(gen)) = {FilesOf(gen)[j] : j \in 1 .. Len(FilesOf(gen))}
          /\ Range(FilesOf(gen)) \subseteq Files
      BY <3>2, FilesApart
    <3>4. \A i \in Generators \ {gen} : \A f \in Range(FilesOf(gen)) : f \notin Range(FilesOf(i))
      BY <3>1, <3>2, <1>1, <1>4
    <3> QED
      BY <3>2, <3>3, <3>4
  <2>2. CASE gen = "modules"
    <3>1. \A i \in Generators \ {gen} : i = "properties"
      BY <2>2, <1>2
    <3>2. FilesOf(gen) = ModuleFiles /\ InputsOf(gen) \subseteq Readings
      BY <2>2, <1>1, <1>3
    <3>3. /\ Len(FilesOf(gen)) \in Nat \ {0}
          /\ Range(FilesOf(gen)) = {FilesOf(gen)[j] : j \in 1 .. Len(FilesOf(gen))}
          /\ Range(FilesOf(gen)) \subseteq Files
      BY <3>2, FilesApart
    <3>4. \A i \in Generators \ {gen} : \A f \in Range(FilesOf(gen)) : f \notin Range(FilesOf(i))
      BY <3>1, <3>2, <1>1, <1>4
    <3> QED
      BY <3>2, <3>3, <3>4
  <2> QED
    BY <2>1, <2>2, <1>2
<1> QED
  BY <1>1, <1>5

\* Nothing is lost where no file, no hash and no mark changes.
LEMMA FilesStay ==
    ASSUME FilesBelong, SourcesAreValid, UNCHANGED <<file, saved, torn>>
    PROVE  FilesBelong' /\ SourcesAreValid'
<1>1. \A gen \in Generators : Untouched(gen)' = Untouched(gen)
  BY DEF Untouched
<1>2. \A gen \in Generators : OneGeneration(gen)' = OneGeneration(gen)
  BY DEF OneGeneration, Generation
<1>3. FilesBelong'
  BY <1>1, <1>2 DEF FilesBelong
<1>4. SourcesAreValid'
  BY DEF SourcesAreValid
<1> QED
  BY <1>3, <1>4

\* A generator writes its file n, whole or not.
LEMMA FileIsWritten ==
    ASSUME MakeTypeOK, FilesBelong, SourcesAreValid,
           NEW gen \in Generators, NEW n \in 1 .. Len(FilesOf(gen)), Loaded(gen),
           NEW state \in {"whole", "empty", "cut"},
           file' = [file EXCEPT ![FilesOf(gen)[n]] = Content(gen, state)],
           torn' = [torn EXCEPT ![gen] = TRUE], saved' = saved
    PROVE  /\ FilesBelong' /\ SourcesAreValid'
           /\ file' \in [Files -> FileContent] /\ torn' \in [Generators -> BOOLEAN]
           /\ state = "whole" /\ Written(gen, n) =>
                 \A j \in 1 .. n : file'[FilesOf(gen)[j]] = Content(gen, "whole")
<1> DEFINE f == FilesOf(gen)[n]
<1>0. f \in Range(FilesOf(gen)) /\ f \in Files
  BY GeneratorsFiles
<1>1. file \in [Files -> FileContent] /\ torn \in [Generators -> BOOLEAN]
  BY DEF MakeTypeOK
<1>2. Validated(gen, from) /\ from \in Readings /\ want[gen] \in Readings
  <2>1. Validated(gen, from) /\ from \in InputsOf(gen) /\ want[gen] \in InputsOf(gen)
    BY DEF Loaded, Validated
  <2> QED
    BY <2>1, GeneratorsFiles
<1>3. Content(gen, state) \in FileContent /\ Content(gen, state).from = from
  BY <1>2 DEF Content, FileContent
<1>4. file' \in [Files -> FileContent] /\ torn' \in [Generators -> BOOLEAN]
  BY <1>1, <1>3
<1>5. file'[f] = Content(gen, state) /\ \A e \in Files : e # f => file'[e] = file[e]
  BY <1>0, <1>1
<1>6. torn'[gen] /\ \A i \in Generators \ {gen} : torn'[i] = torn[i]
  BY <1>1
<1>7. ASSUME NEW i \in Generators \ {gen}
      PROVE  Untouched(i)' = Untouched(i) /\ OneGeneration(i)' = OneGeneration(i)
  <2>1. \A e \in Range(FilesOf(i)) : file'[e] = file[e]
    BY <1>0, <1>5, GeneratorsFiles
  <2>2. Untouched(i)' = Untouched(i)
    BY <2>1 DEF Untouched
  <2>3. \A met, h : Generation(i, met, h)' = Generation(i, met, h)
    BY <2>1 DEF Generation
  <2>4. OneGeneration(i)' = OneGeneration(i)
    BY <2>3 DEF OneGeneration
  <2> QED
    BY <2>2, <2>4
<1>8. FilesBelong'
  BY <1>6, <1>7 DEF FilesBelong
<1>9. ASSUME NEW e \in Range(ModuleFiles)
      PROVE  file'[e] = None \/ Validated("modules", file'[e].from)
  <2>1. CASE e # f
    <3>1. file'[e] = file[e]
      BY <2>1, <1>5, FilesApart
    <3> QED
      BY <3>1 DEF SourcesAreValid
  <2>2. CASE e = f
    <3>1. gen = "modules"
      BY <2>2, <1>0, FilesApart, GeneratorsFiles DEF Generators
    <3>2. file'[e].from = from
      BY <2>2, <1>3, <1>5
    <3> QED
      BY <3>1, <3>2, <1>2
  <2> QED
    BY <2>1, <2>2
<1>10. SourcesAreValid'
  BY <1>9 DEF SourcesAreValid
<1>11. ASSUME state = "whole", Written(gen, n), NEW j \in 1 .. n
       PROVE  file'[FilesOf(gen)[j]] = Content(gen, "whole")
  <2>1. n \in Nat /\ Len(FilesOf(gen)) \in Nat
    BY GeneratorsFiles
  <2>2. j \in 1 .. Len(FilesOf(gen))
    BY <2>1
  <2>3. FilesOf(gen)[j] \in Files
    BY <2>2, GeneratorsFiles
  <2>4. CASE FilesOf(gen)[j] = f
    BY <2>4, <1>5, <1>11
  <2>5. CASE FilesOf(gen)[j] # f
    <3>1. j \in 1 .. n - 1
      BY <2>5, <2>1
    <3>2. file[FilesOf(gen)[j]] = Content(gen, "whole")
      BY <3>1, <1>11 DEF Written
    <3> QED
      BY <2>3, <2>5, <3>2, <1>5
  <2> QED
    BY <2>4, <2>5
<1> QED
  BY <1>4, <1>8, <1>10, <1>11

\* A generator saves its hash behind its last file.
LEMMA HashIsSaved ==
    ASSUME MakeTypeOK, FilesBelong, SourcesAreValid,
           NEW gen \in Generators, Written(gen, Len(FilesOf(gen)) + 1),
           saved' = [saved EXCEPT ![gen] = want[gen]],
           torn' = [torn EXCEPT ![gen] = FALSE], file' = file
    PROVE  /\ FilesBelong' /\ SourcesAreValid'
           /\ saved' \in [Generators -> Readings \cup {None}]
           /\ torn' \in [Generators -> BOOLEAN]
           /\ saved'[gen] = want[gen]
           /\ \A i \in Generators \ {gen} : saved'[i] = saved[i]
           /\ Matches(gen, want[gen], want[gen])
<1>1. /\ saved \in [Generators -> Readings \cup {None}] /\ torn \in [Generators -> BOOLEAN]
      /\ want \in [Generators -> Readings \cup {None}]
  BY DEF MakeTypeOK
<1>2. /\ saved' \in [Generators -> Readings \cup {None}] /\ torn' \in [Generators -> BOOLEAN]
      /\ saved'[gen] = want[gen] /\ \A i \in Generators \ {gen} : saved'[i] = saved[i]
      /\ \A i \in Generators \ {gen} : torn'[i] = torn[i]
  BY <1>1
<1>3. Validated(gen, from) /\ from \in InputsOf(gen) /\ want[gen] \in InputsOf(gen)
  BY DEF Written, Loaded, Validated
<1>4. \A j \in 1 .. Len(FilesOf(gen)) : file[FilesOf(gen)[j]] = Content(gen, "whole")
  <2>1. Len(FilesOf(gen)) \in Nat
    BY GeneratorsFiles
  <2>2. (Len(FilesOf(gen)) + 1) - 1 = Len(FilesOf(gen))
    BY <2>1
  <2> QED
    BY <2>2 DEF Written
<1>5. \A f \in Range(FilesOf(gen)) :
         file[f] = [from |-> from, hashed |-> want[gen], state |-> "whole"]
  BY <1>4, GeneratorsFiles DEF Content
<1>6. OneGeneration(gen)'
  <2>1. \A f \in Range(FilesOf(gen)) :
           file'[f] = [from |-> from, hashed |-> want[gen], state |-> "whole"]
    BY <1>5
  <2> QED
    BY <2>1, <1>2, <1>3 DEF OneGeneration, Generation
<1>7. ASSUME NEW i \in Generators \ {gen}
      PROVE  Untouched(i)' = Untouched(i) /\ OneGeneration(i)' = OneGeneration(i)
  BY <1>2 DEF Untouched, OneGeneration, Generation
<1>8. FilesBelong'
  BY <1>2, <1>6, <1>7 DEF FilesBelong
<1>9. SourcesAreValid'
  BY DEF SourcesAreValid
<1>10. Matches(gen, want[gen], want[gen])
  <2>1. want[gen] # None
    BY <1>3, GeneratorsFiles, GeneratedCodeAssumption
  <2> QED
    BY <2>1 DEF Matches
<1> QED
  BY <1>2, <1>8, <1>9, <1>10

\* A command that starts reads and writes nothing yet.
LEMMA StartHolds ==
    ASSUME MakeInv, NEW kind \in {"build", "check"}, NEW sel \in Selections, Start(kind, sel)
    PROVE  MakeInv'
<1>1. /\ at' \in {"check", "properties"} /\ cmd'.sel = sel
      /\ UNCHANGED <<yaml, next, from, want, file, saved, torn>>
  BY DEF Start
<1>2. FilesBelong' /\ SourcesAreValid'
  BY <1>1, FilesStay DEF MakeInv
<1>3. MakeTypeOK'
  BY <1>1 DEF MakeInv, MakeTypeOK
<1> QED
  BY <1>1, <1>2, <1>3 DEF MakeInv, InProgress, HashesAreSaved, VerdictsStand

\* Without saved hashes the files are still those of one generation.
LEMMA CleanHolds == MakeInv /\ Clean => MakeInv'
<1> SUFFICES ASSUME MakeInv, Clean PROVE MakeInv'
  OBVIOUS
<1>1. at = "idle" /\ saved' = Nothing /\ UNCHANGED <<yaml, cmd, at, next, from, want, file, torn>>
  BY DEF Clean
<1>2. \A gen \in Generators : saved'[gen] = None
  BY <1>1 DEF Nothing
<1>3. \A gen \in Generators : Untouched(gen) => Untouched(gen)'
  BY <1>1, <1>2 DEF Untouched
<1>4. \A gen \in Generators : OneGeneration(gen) => OneGeneration(gen)'
  <2>1. \A gen, met, h : Generation(gen, met, h)' = Generation(gen, met, h)
    BY <1>1 DEF Generation
  <2> QED
    BY <2>1, <1>2 DEF OneGeneration
<1>5. FilesBelong'
  BY <1>1, <1>3, <1>4 DEF MakeInv, FilesBelong
<1>6. SourcesAreValid'
  BY <1>1 DEF MakeInv, SourcesAreValid
<1>7. MakeTypeOK'
  BY <1>1 DEF MakeInv, MakeTypeOK, Nothing
<1> QED
  BY <1>1, <1>5, <1>6, <1>7 DEF MakeInv, InProgress, HashesAreSaved, VerdictsStand

\* An edit changes the metadata and none of the files made of it.
LEMMA EditHolds ==
    ASSUME MakeInv, NEW gen \in Generators, NEW edits, Edit(gen, edits),
           edits = IF gen = "properties" THEN PropertyEdits ELSE ModuleEdits
    PROVE  MakeInv'
<1>1. /\ at \in {"idle", "load", "modules", "hash"}
      /\ UNCHANGED <<cmd, at, next, from, want, file, saved, torn>>
  BY DEF Edit
<1>2. PICK e \in {0} \cup DOMAIN edits : yaml' = [yaml EXCEPT ![gen] = e]
  BY DEF Edit
<1>3. FilesBelong' /\ SourcesAreValid'
  BY <1>1, FilesStay DEF MakeInv
<1>4. MakeTypeOK'
  <2>1. /\ yaml' \in [Generators -> {0} \cup DOMAIN PropertyEdits \cup DOMAIN ModuleEdits]
        /\ yaml'["properties"] \in {0} \cup DOMAIN PropertyEdits
        /\ yaml'["modules"] \in {0} \cup DOMAIN ModuleEdits
    BY <1>2 DEF MakeInv, MakeTypeOK, Generators
  <2> QED
    BY <2>1, <1>1 DEF MakeInv, MakeTypeOK
<1>5. InProgress'
  BY <1>1 DEF MakeInv, InProgress, Validated
<1>6. HashesAreSaved'
  BY <1>1 DEF MakeInv, HashesAreSaved, Matches
<1> QED
  BY <1>1, <1>3, <1>4, <1>5, <1>6 DEF MakeInv, VerdictsStand

\* A known hash sends the generator on with the files it saved that hash for.
LEMMA HashPropertiesHolds == MakeInv /\ HashProperties => MakeInv'
<1> SUFFICES ASSUME MakeInv, HashProperties PROVE MakeInv'
  OBVIOUS
<1> DEFINE in == PropertyInputs(cmd.sel)
<1>1. /\ at = "properties" /\ want' = [want EXCEPT !["properties"] = in]
      /\ at' = IF Matches("properties", saved["properties"], in) THEN "modules" ELSE "load"
      /\ UNCHANGED <<yaml, cmd, next, from, file, saved, torn>>
  BY DEF HashProperties
<1>2. cmd.sel \in Selections
  BY <1>1 DEF MakeInv, MakeTypeOK
<1>3. in \in PropertyInput
  BY <1>2, InputsAreRecords DEF MakeInv
<1>4. want' \in [Generators -> Readings \cup {None}] /\ want'["properties"] = in
  BY <1>1, <1>3 DEF MakeInv, MakeTypeOK, Readings, Generators
<1>5. FilesBelong' /\ SourcesAreValid'
  BY <1>1, FilesStay DEF MakeInv
<1>6. MakeTypeOK'
  BY <1>1, <1>2, <1>4 DEF MakeInv, MakeTypeOK
<1>7. InProgress'
  BY <1>1, <1>3, <1>4 DEF InProgress
<1>8. HashesAreSaved'
  BY <1>1, <1>4 DEF HashesAreSaved, Matches
<1>9. VerdictsStand'
  BY <1>1 DEF VerdictsStand
<1> QED
  BY <1>5, <1>6, <1>7, <1>8, <1>9 DEF MakeInv

\* What is written is metadata that was found valid.
LEMMA LoadPropertiesHolds == MakeInv /\ LoadProperties => MakeInv'
<1> SUFFICES ASSUME MakeInv, LoadProperties PROVE MakeInv'
  OBVIOUS
<1> DEFINE in == PropertyInputs(cmd.sel)
<1>1. /\ at = "load"
      /\ \/ Accepted(Metadata(in)) /\ at' = "write" /\ from' = in /\ next' = 1
         \/ at' = "refused" /\ UNCHANGED <<from, next>>
      /\ UNCHANGED <<yaml, cmd, want, file, saved, torn>>
  BY DEF LoadProperties
<1>2. cmd.sel \in Selections /\ want["properties"] \in PropertyInput
  BY <1>1 DEF MakeInv, MakeTypeOK, InProgress
<1>3. in \in PropertyInput
  BY <1>2, InputsAreRecords DEF MakeInv
<1>5. FilesBelong' /\ SourcesAreValid'
  BY <1>1, FilesStay DEF MakeInv
<1>6. MakeTypeOK'
  BY <1>1, <1>2 DEF MakeInv, MakeTypeOK
<1>7. InProgress'
  <2>1. CASE at' = "refused"
    BY <2>1 DEF InProgress
  <2>2. CASE Accepted(Metadata(in)) /\ at' = "write" /\ from' = in /\ next' = 1
    <3>1. Written("properties", 1)'
      BY <2>2, <1>1, <1>2, <1>3, FilesApart DEF Written, Loaded, Validated, InputsOf, FilesOf
    <3> QED
      BY <2>2, <3>1, FilesApart DEF InProgress
  <2> QED
    BY <2>1, <2>2, <1>1
<1> QED
  BY <1>1, <1>5, <1>6, <1>7 DEF MakeInv, HashesAreSaved, VerdictsStand

\* A file more is of the generation that runs; the mark says it is not done.
LEMMA WritePropertiesHolds == MakeInv /\ WriteProperties => MakeInv'
<1> SUFFICES ASSUME MakeInv, WriteProperties PROVE MakeInv'
  OBVIOUS
<1> DEFINE f == PropertyFiles[next]
<1>1. /\ at = "write" /\ UNCHANGED <<yaml, cmd, want, saved>>
      /\ \/ at' = "raised" /\ UNCHANGED <<file, torn>>
         \/ /\ file' = [file EXCEPT ![f] = Content("properties", "whole")]
            /\ torn' = [torn EXCEPT !["properties"] = TRUE]
            /\ at' = IF next = Len(PropertyFiles) THEN "save" ELSE "write"
            /\ next' = IF next = Len(PropertyFiles) THEN 0 ELSE next + 1
            /\ UNCHANGED from
  BY DEF WriteProperties
<1>2. cmd.sel \in Selections /\ Written("properties", next) /\ next <= 15
  BY <1>1, FilesApart DEF MakeInv, MakeTypeOK, InProgress
<1>3. CASE at' = "raised" /\ UNCHANGED <<file, torn>>
  <2>1. FilesBelong' /\ SourcesAreValid'
    BY <1>1, <1>3, FilesStay DEF MakeInv
  <2>2. MakeTypeOK'
    BY <1>1, <1>2, <1>3 DEF MakeInv, MakeTypeOK
  <2> QED
    BY <2>1, <2>2, <1>3 DEF MakeInv, InProgress, HashesAreSaved, VerdictsStand
<1>4. CASE /\ file' = [file EXCEPT ![f] = Content("properties", "whole")]
           /\ torn' = [torn EXCEPT !["properties"] = TRUE]
           /\ at' = IF next = Len(PropertyFiles) THEN "save" ELSE "write"
           /\ next' = IF next = Len(PropertyFiles) THEN 0 ELSE next + 1
           /\ UNCHANGED from
  <2>1. /\ FilesOf("properties") = PropertyFiles /\ "properties" \in Generators
        /\ next \in 1 .. 15 /\ Len(PropertyFiles) = 15
    BY <1>2, GeneratorsFiles, FilesApart, SMTT(30) DEF Generators, Written
  <2>2. /\ FilesBelong' /\ SourcesAreValid'
        /\ file' \in [Files -> FileContent] /\ torn' \in [Generators -> BOOLEAN]
        /\ \A j \in 1 .. next : file'[PropertyFiles[j]] = Content("properties", "whole")
    BY <1>1, <1>2, <1>4, <2>1, FileIsWritten DEF MakeInv, Written
  <2>3. MakeTypeOK'
    BY <1>1, <1>2, <2>2 DEF MakeInv, MakeTypeOK
  <2>4. Content("properties", "whole")' = Content("properties", "whole")
    BY <1>1, <1>4 DEF Content
  <2>5. PICK n \in Nat : n = next + 1
    BY <2>1
  <2>6. Written("properties", n)'
    <3>1. Validated("properties", from)' /\ want'["properties"] \in InputsOf("properties")
      BY <1>1, <1>2, <1>4 DEF Written, Loaded, Validated
    <3>0. Len(FilesOf("properties")) = 15
      BY <2>1
    <3>2. n \in 1 .. 16 /\ n - 1 = next
      BY <2>1, <2>5
    <3>3. \A j \in 1 .. n - 1 :
             file'[FilesOf("properties")[j]] = Content("properties", "whole")'
      BY <3>2, <2>1, <2>2, <2>4
    <3>4. n \in 1 .. Len(FilesOf("properties")) + 1
      <4>1. Len(FilesOf("properties")) + 1 = 16
        <5>1. \A k \in Nat : k = 15 => k + 1 = 16
          OBVIOUS
        <5>2. Len(FilesOf("properties")) \in Nat
          BY <2>1, GeneratorsFiles
        <5> QED
          BY <5>1, <5>2, <3>0
      <4> QED
        BY <4>1, <3>2
    <3> QED
      BY <3>1, <3>3, <3>4 DEF Written, Loaded
  <2>8. InProgress'
    <3>1. CASE n = 16
      <4>1. at' = "save"
        BY <3>1, <1>4, <2>1, <2>5
      <4>2. Written("properties", Len(PropertyFiles) + 1)'
        <5>1. n = Len(PropertyFiles) + 1
          BY <3>1, <2>1
        <5> QED
          BY <5>1, <2>6
      <4> QED
        BY <4>1, <4>2 DEF InProgress
    <3>2. CASE n # 16
      <4>1. at' = "write" /\ next' = n /\ n <= 15
        BY <3>2, <1>4, <2>1, <2>5
      <4>2. Written("properties", next)'
        BY <4>1, <2>6 DEF Written, Loaded
      <4> QED
        BY <4>1, <4>2, <2>1 DEF InProgress
    <3> QED
      BY <3>1, <3>2
  <2>7. HashesAreSaved' /\ VerdictsStand'
    <3>1. at' \in {"save", "write"}
      BY <1>4
    <3> QED
      BY <3>1 DEF HashesAreSaved, VerdictsStand
  <2> QED
    BY <2>2, <2>3, <2>7, <2>8 DEF MakeInv
<1> QED
  BY <1>1, <1>3, <1>4

\* All files are written: they are of one generation again, under its hash.
LEMMA SavePropertiesHolds == MakeInv /\ SaveProperties => MakeInv'
<1> SUFFICES ASSUME MakeInv, SaveProperties PROVE MakeInv'
  OBVIOUS
<1>1. /\ at = "save" /\ at' = "modules" /\ UNCHANGED <<yaml, cmd, want, file>>
      /\ saved' = [saved EXCEPT !["properties"] = want["properties"]]
      /\ torn' = [torn EXCEPT !["properties"] = FALSE]
  BY DEF SaveProperties
<1>2. cmd.sel \in Selections /\ Written("properties", Len(FilesOf("properties")) + 1)
  BY <1>1, GeneratorsFiles DEF MakeInv, MakeTypeOK, InProgress
<1>3. "properties" \in Generators
  BY DEF Generators
<1>4. /\ FilesBelong' /\ SourcesAreValid'
      /\ saved' \in [Generators -> Readings \cup {None}] /\ torn' \in [Generators -> BOOLEAN]
      /\ saved'["properties"] = want["properties"]
      /\ Matches("properties", want["properties"], want["properties"])
  BY <1>1, <1>2, <1>3, HashIsSaved DEF MakeInv
<1>5. MakeTypeOK'
  BY <1>1, <1>2, <1>4 DEF MakeInv, MakeTypeOK
<1>6. Matches("properties", saved'["properties"], want'["properties"])
  BY <1>1, <1>4
<1>7. HashesAreSaved'
  BY <1>1, <1>6 DEF HashesAreSaved, Matches
<1> QED
  BY <1>1, <1>4, <1>5, <1>7 DEF MakeInv, InProgress, VerdictsStand

\* The modules that are written were found valid.
LEMMA LoadModulesHolds == MakeInv /\ LoadModules => MakeInv'
<1> SUFFICES ASSUME MakeInv, LoadModules PROVE MakeInv'
  OBVIOUS
<1> DEFINE in == ModuleInputs(cmd.sel)
<1>1. /\ at = "modules" /\ UNCHANGED <<yaml, cmd, want, file, saved, torn>>
      /\ \/ /\ AcceptedModules(ModulesAt(in), ValidProperties(cmd.sel))
            /\ at' = "hash" /\ from' = in
         \/ at' = "refused"
  BY DEF LoadModules
<1>2. cmd.sel \in Selections
  BY <1>1 DEF MakeInv, MakeTypeOK
<1>3. in \in ModuleInput
  BY <1>2, InputsAreRecords DEF MakeInv
<1>4. FilesBelong' /\ SourcesAreValid'
  BY <1>1, FilesStay DEF MakeInv
<1>5. MakeTypeOK'
  BY <1>1, <1>2 DEF MakeInv, MakeTypeOK
<1>6. InProgress'
  <2>1. CASE at' = "refused"
    BY <2>1 DEF InProgress
  <2>2. CASE /\ AcceptedModules(ModulesAt(in), ValidProperties(cmd.sel))
             /\ at' = "hash" /\ from' = in
    <3>1. Validated("modules", in)
      BY <2>2, <1>3 DEF Validated, InputsOf, AcceptedModules
    <3>2. Validated("modules", from)'
      BY <2>2, <3>1 DEF Validated
    <3> QED
      BY <2>2, <3>2 DEF InProgress
  <2> QED
    BY <2>1, <2>2, <1>1
<1>7. HashesAreSaved'
  <2>1. Matches("properties", saved["properties"], want["properties"])
    BY <1>1 DEF MakeInv, HashesAreSaved
  <2>2. Matches("properties", saved["properties"], want["properties"])'
    BY <2>1, <1>1 DEF Matches
  <2> QED
    BY <2>2, <1>1 DEF HashesAreSaved
<1> QED
  BY <1>1, <1>4, <1>5, <1>6, <1>7 DEF MakeInv, VerdictsStand

\* The module generator passes on to the compiler if the hash is the saved one.
LEMMA HashModulesHolds == MakeInv /\ HashModules => MakeInv'
<1> SUFFICES ASSUME MakeInv, HashModules PROVE MakeInv'
  OBVIOUS
<1> DEFINE in == StillThere(ModuleInputs(cmd.sel))
<1>1. /\ at = "hash" /\ want' = [want EXCEPT !["modules"] = in]
      /\ \/ /\ Matches("modules", saved["modules"], in) /\ at' = "compile"
         \/ /\ at' = "write modules" /\ next' = 1 /\ UNCHANGED from
      /\ UNCHANGED <<yaml, cmd, file, saved, torn>>
  BY DEF HashModules
<1>2. cmd.sel \in Selections /\ Validated("modules", from)
  BY <1>1 DEF MakeInv, MakeTypeOK, InProgress
<1>3. in \in ModuleInput
  <2>1. ModuleInputs(cmd.sel) \in ModuleInput
    BY <1>2, InputsAreRecords DEF MakeInv
  <2> QED
    BY <2>1 DEF StillThere, ModuleInput
<1>4. /\ want' \in [Generators -> Readings \cup {None}] /\ want'["modules"] = in
      /\ want'["properties"] = want["properties"]
  BY <1>1, <1>3 DEF MakeInv, MakeTypeOK, Readings, Generators
<1>5. FilesBelong' /\ SourcesAreValid'
  BY <1>1, FilesStay DEF MakeInv
<1>6. MakeTypeOK'
  BY <1>1, <1>2, <1>4 DEF MakeInv, MakeTypeOK
<1>7. InProgress'
  <2>1. CASE at' = "compile"
    BY <2>1 DEF InProgress
  <2>2. CASE at' = "write modules" /\ next' = 1 /\ UNCHANGED from
    <3>1. Validated("modules", from)'
      BY <2>2, <1>2 DEF Validated
    <3>2. Len(FilesOf("modules")) = 3 /\ Len(ModuleFiles) = 3
      BY FilesApart, GeneratorsFiles
    <3>3. want'["modules"] \in InputsOf("modules")
      BY <1>3, <1>4 DEF InputsOf
    <3>4. Written("modules", 1)'
      <4>1. 1 \in 1 .. Len(FilesOf("modules")) + 1
        BY <3>2
      <4>2. \A j \in 1 .. 1 - 1 :
               file'[FilesOf("modules")[j]] = Content("modules", "whole")'
        OBVIOUS
      <4> QED
        BY <3>1, <3>3, <4>1, <4>2 DEF Written, Loaded
    <3>5. Written("modules", next)'
      BY <3>4, <2>2 DEF Written
    <3>6. next' <= Len(ModuleFiles)
      <4>1. \A k \in Nat : k = 3 => 1 <= k
        OBVIOUS
      <4> QED
        BY <4>1, <2>2, <3>2
    <3> QED
      BY <2>2, <3>5, <3>6 DEF InProgress
  <2> QED
    BY <2>1, <2>2, <1>1
<1>8. HashesAreSaved'
  <2>1. Matches("properties", saved["properties"], want["properties"])
    BY <1>1 DEF MakeInv, HashesAreSaved
  <2>2. Matches("properties", saved["properties"], want["properties"])'
    BY <2>1, <1>1, <1>4 DEF Matches
  <2>3. at' = "compile" => /\ want'["modules"] \in ModuleInput
                           /\ Matches("modules", saved["modules"], want["modules"])'
    BY <1>1, <1>3, <1>4 DEF Matches
  <2> QED
    BY <2>2, <2>3, <1>1 DEF HashesAreSaved
<1> QED
  BY <1>1, <1>5, <1>6, <1>7, <1>8 DEF MakeInv, VerdictsStand

\* A module file is written or not, and one could not be written.
GoesOn ==
    /\ at \in {"write modules", "go on"} /\ Onward(FALSE)
    /\ UNCHANGED <<yaml, cmd, from, want, saved>>
    /\ torn' = [torn EXCEPT !["modules"] = TRUE]
    /\ \/ UNCHANGED file
       \/ \E state \in {"whole", "empty", "cut"} :
             file' = [file EXCEPT ![ModuleFiles[next]] = Content("modules", state)]

\* A generator that could not write a module file leaves the mark, whatever it writes
\* after that.
LEMMA GoesOnHolds == MakeInv /\ GoesOn => MakeInv'
<1> SUFFICES ASSUME MakeInv, GoesOn PROVE MakeInv'
  OBVIOUS
<1>0. /\ at \in {"write modules", "go on"} /\ Onward(FALSE)
      /\ UNCHANGED <<yaml, cmd, from, want, saved>>
      /\ torn' = [torn EXCEPT !["modules"] = TRUE]
  BY DEF GoesOn
<1>1. /\ cmd.sel \in Selections /\ Loaded("modules")
      /\ FilesOf("modules") = ModuleFiles /\ Len(ModuleFiles) = 3
      /\ "modules" \in Generators /\ "properties" \in Generators
  BY <1>0, GeneratorsFiles, FilesApart DEF Generators, MakeInv, MakeTypeOK, InProgress, Written
<1>2. next \in 1 .. 3
  <2>1. CASE at = "write modules"
    <3>1. next \in 1 .. Len(FilesOf("modules")) + 1 /\ next <= Len(ModuleFiles)
      BY <2>1 DEF MakeInv, InProgress, Written
    <3> QED
      BY <3>1, <1>1
  <2>2. CASE at = "go on"
    <3>1. next \in 1 .. Len(ModuleFiles)
      BY <2>2 DEF MakeInv, InProgress
    <3> QED
      BY <3>1, <1>1
  <2> QED
    BY <2>1, <2>2, <1>0
<1>3. /\ at' \in {"go on", "save anyway"}
      /\ at' = "go on" => next' \in 1 .. Len(ModuleFiles)
  <2>1. /\ at' = IF next < 3 THEN "go on" ELSE "save anyway"
        /\ next' = IF next = 3 THEN 0 ELSE next + 1
    BY <1>0, <1>1 DEF Onward
  <2>2. next < 3 => next # 3 /\ next + 1 \in 1 .. 3
    BY <1>2
  <2> QED
    BY <2>1, <2>2, <1>1
<1>4. /\ FilesBelong' /\ SourcesAreValid'
      /\ file' \in [Files -> FileContent] /\ torn' \in [Generators -> BOOLEAN]
  <2>1. CASE UNCHANGED file
    <3>1. torn' \in [Generators -> BOOLEAN] /\ torn'["modules"] /\ torn'["properties"] = torn["properties"]
      BY <1>0, <1>1 DEF MakeInv, MakeTypeOK, Generators
    <3>2. \A gen : Untouched(gen)' = Untouched(gen) /\ OneGeneration(gen)' = OneGeneration(gen)
      BY <1>0, <2>1 DEF Untouched, OneGeneration, Generation
    <3>3. FilesBelong'
      BY <3>1, <3>2 DEF MakeInv, FilesBelong, Generators
    <3>4. SourcesAreValid'
      BY <1>0, <2>1 DEF MakeInv, SourcesAreValid, Validated
    <3> QED
      BY <2>1, <3>1, <3>3, <3>4 DEF MakeInv, MakeTypeOK
  <2>2. CASE \E state \in {"whole", "empty", "cut"} :
                file' = [file EXCEPT ![ModuleFiles[next]] = Content("modules", state)]
    <3>1. PICK state \in {"whole", "empty", "cut"} :
             file' = [file EXCEPT ![ModuleFiles[next]] = Content("modules", state)]
      BY <2>2
    <3> QED
      BY <3>1, <1>0, <1>1, <1>2, FileIsWritten DEF MakeInv
  <2> QED
    BY <2>1, <2>2 DEF GoesOn
<1>5. torn'["modules"] /\ Loaded("modules")'
  <2>1. torn'["modules"]
    BY <1>0, <1>1 DEF MakeInv, MakeTypeOK
  <2> QED
    BY <2>1, <1>0, <1>1 DEF Loaded, Validated
<1>6. InProgress'
  BY <1>3, <1>5 DEF InProgress
<1>7. MakeTypeOK'
  BY <1>0, <1>1, <1>4 DEF MakeInv, MakeTypeOK
<1>8. HashesAreSaved' /\ VerdictsStand'
  BY <1>3 DEF HashesAreSaved, VerdictsStand
<1> QED
  BY <1>4, <1>6, <1>7, <1>8 DEF MakeInv

\* A module file more, as for the properties.
WritesWell == WriteModules /\ at = "write modules"
LEMMA WriteWellHolds == MakeInv /\ WritesWell => MakeInv'
<1> SUFFICES ASSUME MakeInv, WritesWell PROVE MakeInv'
  OBVIOUS
<1>1. /\ at = "write modules" /\ UNCHANGED <<yaml, cmd, from, want, saved>>
      /\ file' = [file EXCEPT ![ModuleFiles[next]] = Content("modules", "whole")]
      /\ torn' = [torn EXCEPT !["modules"] = TRUE]
      /\ at' = IF next < Len(ModuleFiles) THEN "write modules" ELSE "save modules"
      /\ next' = IF next = Len(ModuleFiles) THEN 0 ELSE next + 1
  BY DEF WritesWell, WriteModules, Onward
<1>2. /\ cmd.sel \in Selections /\ Written("modules", next) /\ next <= 3
      /\ Loaded("modules")
      /\ Matches("properties", saved["properties"], want["properties"])
  BY <1>1, FilesApart DEF Written, MakeInv, MakeTypeOK, InProgress, HashesAreSaved
<1>3. /\ FilesOf("modules") = ModuleFiles /\ "modules" \in Generators
      /\ next \in 1 .. 3 /\ Len(ModuleFiles) = 3
  BY <1>2, GeneratorsFiles, FilesApart DEF Generators, Written
<1>4. /\ FilesBelong' /\ SourcesAreValid'
      /\ file' \in [Files -> FileContent] /\ torn' \in [Generators -> BOOLEAN]
      /\ \A j \in 1 .. next : file'[ModuleFiles[j]] = Content("modules", "whole")
  BY <1>1, <1>2, <1>3, FileIsWritten DEF MakeInv
<1>5. MakeTypeOK'
  BY <1>1, <1>2, <1>4 DEF MakeInv, MakeTypeOK
<1>6. Content("modules", "whole")' = Content("modules", "whole")
  BY <1>1 DEF Content
<1>7. PICK n \in Nat : n = next + 1
  BY <1>3
<1>0. /\ n = 4 => at' = "save modules"
      /\ n # 4 => at' = "write modules" /\ next' = n /\ n <= 3
  <2>1. /\ at' = IF next < 3 THEN "write modules" ELSE "save modules"
        /\ next' = IF next = 3 THEN 0 ELSE next + 1
    BY <1>1, <1>3
  <2>2. (n = 4 <=> next = 3) /\ (n # 4 <=> next < 3) /\ (n # 4 => n <= 3)
    BY <1>3, <1>7
  <2> QED
    BY <2>1, <2>2, <1>7
<1>8. Written("modules", n)'
  <2>1. Validated("modules", from)' /\ want'["modules"] \in InputsOf("modules")
    BY <1>1, <1>2 DEF Loaded, Validated
  <2>2. Len(FilesOf("modules")) = 3
    BY <1>3
  <2>3. n \in 1 .. 4 /\ n - 1 = next
    BY <1>3, <1>7
  <2>4. \A j \in 1 .. n - 1 : file'[FilesOf("modules")[j]] = Content("modules", "whole")'
    BY <2>3, <1>3, <1>4, <1>6
  <2> QED
    BY <2>1, <2>2, <2>3, <2>4 DEF Written, Loaded
<1>9. InProgress'
  <2>1. CASE n = 4
    <3>1. at' = "save modules"
      BY <2>1, <1>0
    <3>2. n = Len(ModuleFiles) + 1
      BY <2>1, <1>3
    <3>3. Written("modules", Len(ModuleFiles) + 1)'
      BY <3>2, <1>8
    <3> QED
      BY <3>1, <3>3 DEF InProgress
  <2>2. CASE n # 4
    <3>1. at' = "write modules" /\ next' = n /\ n <= 3
      BY <2>2, <1>0
    <3>2. Written("modules", next)'
      BY <3>1, <1>8 DEF Written
    <3> QED
      BY <3>1, <3>2, <1>3 DEF InProgress
  <2> QED
    BY <2>1, <2>2
<1>10. HashesAreSaved' /\ VerdictsStand'
  <2>1. at' \in {"save modules", "write modules"}
    BY <1>1
  <2>2. Matches("properties", saved["properties"], want["properties"])'
    BY <1>1, <1>2 DEF Matches
  <2> QED
    BY <2>1, <2>2 DEF HashesAreSaved, VerdictsStand
<1> QED
  BY <1>4, <1>5, <1>9, <1>10 DEF MakeInv

LEMMA WriteModulesHolds == MakeInv /\ WriteModules => MakeInv'
<1> SUFFICES ASSUME MakeInv, WriteModules, at = "go on" PROVE MakeInv'
  BY WriteWellHolds DEF WriteModules, WritesWell
<1>1. /\ Onward(at = "write modules") /\ UNCHANGED <<yaml, cmd, from, want, saved>>
      /\ file' = [file EXCEPT ![ModuleFiles[next]] = Content("modules", "whole")]
      /\ torn' = [torn EXCEPT !["modules"] = TRUE]
  BY DEF WriteModules
<1>2. Onward(FALSE)
  BY <1>1 DEF Onward
<1> QED
  BY <1>1, <1>2, GoesOnHolds DEF GoesOn

LEMMA MissModulesHolds == MakeInv /\ MissModules => MakeInv'
  BY GoesOnHolds DEF MissModules, GoesOn

\* The module files are of one generation again.
LEMMA SaveWellHolds == MakeInv /\ SaveModules /\ at = "save modules" => MakeInv'
<1> SUFFICES ASSUME MakeInv, SaveModules, at = "save modules" PROVE MakeInv'
  OBVIOUS
<1>1. /\ at = "save modules" /\ at' = "compile" /\ UNCHANGED <<yaml, cmd, want, file>>
      /\ saved' = [saved EXCEPT !["modules"] = want["modules"]]
      /\ torn' = [torn EXCEPT !["modules"] = FALSE]
  BY DEF SaveModules
<1>2. /\ cmd.sel \in Selections /\ Written("modules", Len(FilesOf("modules")) + 1)
      /\ Matches("properties", saved["properties"], want["properties"])
  BY <1>1, GeneratorsFiles DEF MakeInv, MakeTypeOK, InProgress, HashesAreSaved
<1>3. "modules" \in Generators /\ "properties" \in Generators \ {"modules"}
  BY DEF Generators
<1>4. /\ FilesBelong' /\ SourcesAreValid'
      /\ saved' \in [Generators -> Readings \cup {None}] /\ torn' \in [Generators -> BOOLEAN]
      /\ saved'["modules"] = want["modules"] /\ saved'["properties"] = saved["properties"]
      /\ Matches("modules", want["modules"], want["modules"])
  BY <1>1, <1>2, <1>3, HashIsSaved DEF MakeInv
<1>5. MakeTypeOK'
  BY <1>1, <1>2, <1>4 DEF MakeInv, MakeTypeOK
<1>6. /\ Matches("modules", saved["modules"], want["modules"])'
      /\ Matches("properties", saved["properties"], want["properties"])'
      /\ want'["modules"] \in ModuleInput
  BY <1>1, <1>2, <1>4 DEF Matches, Written, Loaded, InputsOf
<1>7. HashesAreSaved'
  BY <1>1, <1>6 DEF HashesAreSaved
<1> QED
  BY <1>1, <1>4, <1>5, <1>7 DEF MakeInv, InProgress, VerdictsStand

\* The hash of a generation that lacks a file is saved with the mark.
LEMMA SaveModulesHolds == MakeInv /\ SaveModules => MakeInv'
<1> SUFFICES ASSUME MakeInv, SaveModules, at = "save anyway" PROVE MakeInv'
  BY SaveWellHolds DEF SaveModules
<1>1. /\ at' = "raised" /\ UNCHANGED <<yaml, cmd, want, file>>
      /\ saved' = [saved EXCEPT !["modules"] = want["modules"]]
      /\ torn' = [torn EXCEPT !["modules"] = TRUE]
  BY DEF SaveModules
<1>2. cmd.sel \in Selections /\ want["modules"] \in ModuleInput
  BY DEF MakeInv, MakeTypeOK, InProgress, Loaded, InputsOf
<1>3. /\ saved' \in [Generators -> Readings \cup {None}] /\ torn' \in [Generators -> BOOLEAN]
      /\ saved'["properties"] = saved["properties"] /\ torn'["modules"]
      /\ torn'["properties"] = torn["properties"]
  BY <1>1, <1>2 DEF MakeInv, MakeTypeOK, Readings, Generators
<1>4. /\ Untouched("properties")' = Untouched("properties")
      /\ OneGeneration("properties")' = OneGeneration("properties")
  BY <1>1, <1>3 DEF Untouched, OneGeneration, Generation
<1>5. FilesBelong' /\ SourcesAreValid'
  BY <1>1, <1>3, <1>4 DEF MakeInv, FilesBelong, SourcesAreValid, Generators
<1>6. MakeTypeOK'
  BY <1>1, <1>2, <1>3 DEF MakeInv, MakeTypeOK
<1> QED
  BY <1>1, <1>5, <1>6 DEF MakeInv, InProgress, HashesAreSaved, VerdictsStand

\* The compiler changes no file and no hash.
LEMMA CompileHolds == MakeInv /\ Compile => MakeInv'
<1> SUFFICES ASSUME MakeInv, Compile PROVE MakeInv'
  OBVIOUS
<1>1. /\ at = "compile" /\ at' \in {"built", "broken"}
      /\ UNCHANGED <<yaml, cmd, next, from, want, file, saved, torn>>
  BY DEF Compile
<1>2. FilesBelong' /\ SourcesAreValid'
  BY <1>1, FilesStay DEF MakeInv
<1>3. MakeTypeOK'
  BY <1>1 DEF MakeInv, MakeTypeOK
<1>4. HashesAreSaved'
  BY <1>1 DEF MakeInv, HashesAreSaved, Matches
<1> QED
  BY <1>1, <1>2, <1>3, <1>4 DEF MakeInv, InProgress, VerdictsStand

\* The verdict of make check-generated is that of the files as they are.
LEMMA CheckHolds == MakeInv /\ Check => MakeInv'
<1> SUFFICES ASSUME MakeInv, Check PROVE MakeInv'
  OBVIOUS
<1>1. /\ at = "check" /\ at' = IF ChecksPass THEN "passed" ELSE "failed"
      /\ UNCHANGED <<yaml, cmd, next, from, want, file, saved, torn>>
  BY DEF Check
<1>2. FilesBelong' /\ SourcesAreValid'
  BY <1>1, FilesStay DEF MakeInv
<1>3. MakeTypeOK'
  BY <1>1 DEF MakeInv, MakeTypeOK
<1>4. ChecksPass' = ChecksPass
  BY <1>1 DEF ChecksPass, HashMatches, Matches, PropertyInputs, ModuleInputs
<1>5. VerdictsStand'
  BY <1>1, <1>4 DEF VerdictsStand
<1>6. at' \in {"passed", "failed"}
  BY <1>1
<1> QED
  BY <1>2, <1>3, <1>5, <1>6 DEF MakeInv, InProgress, HashesAreSaved

\* A kill leaves the mark if it tore a file, and no half-made claim.
LEMMA KillHolds == MakeInv /\ Kill => MakeInv'
<1> SUFFICES ASSUME MakeInv, Kill PROVE MakeInv'
  OBVIOUS
<1>1. at' = "idle" /\ want' = Nothing /\ UNCHANGED <<yaml, saved>>
  BY DEF Kill, Stop
<1>2. want' \in [Generators -> Readings \cup {None}]
  BY <1>1 DEF Nothing
<1>3. /\ FilesBelong' /\ SourcesAreValid'
      /\ file' \in [Files -> FileContent] /\ torn' \in [Generators -> BOOLEAN]
  <2>1. CASE UNCHANGED <<file, torn>>
    BY <2>1, <1>1, FilesStay DEF MakeInv, MakeTypeOK
  <2>2. CASE \E f \in Writing : \E state \in {"empty", "cut"} :
                LET gen == IF at = "write" THEN "properties" ELSE "modules"
                IN  /\ file' = [file EXCEPT ![f] = Content(gen, state)]
                    /\ torn' = [torn EXCEPT ![gen] = TRUE]
    <3>1. PICK f \in Writing, state \in {"empty", "cut"}, gen \in Generators :
             /\ gen = IF at = "write" THEN "properties" ELSE "modules"
             /\ file' = [file EXCEPT ![f] = Content(gen, state)]
             /\ torn' = [torn EXCEPT ![gen] = TRUE]
      BY <2>2 DEF Generators
    <3>2. /\ Loaded(gen) /\ next \in 1 .. Len(FilesOf(gen)) /\ f = FilesOf(gen)[next]
      <4>1. CASE at = "write"
        BY <4>1, <3>1, GeneratorsFiles DEF Writing, MakeInv, InProgress, Written
      <4>2. CASE at \in {"write modules", "go on"}
        <5>1. at # "write"
          BY <4>2
        <5>2. gen = "modules"
          BY <5>1, <3>1
        <5>3. Writing = {ModuleFiles[next]}
          BY <4>2, <5>1, Zenon DEF Writing
        <5>4. f = ModuleFiles[next]
          BY <5>3, <3>1
        <5>5. FilesOf("modules") = ModuleFiles
          BY DEF FilesOf
        <5>6. Loaded("modules") /\ next \in 1 .. Len(ModuleFiles)
          <6>1. CASE at = "write modules"
            <7>1. Written("modules", next) /\ next <= Len(ModuleFiles)
              BY <6>1 DEF MakeInv, InProgress
            <7>2. Loaded("modules") /\ next \in 1 .. Len(FilesOf("modules")) + 1
              BY <7>1 DEF Written
            <7>3. Len(ModuleFiles) \in Nat
              BY GeneratorsFiles DEF Generators
            <7> QED
              BY <7>1, <7>2, <7>3, <5>5
          <6>2. CASE at = "go on"
            BY <6>2 DEF MakeInv, InProgress
          <6> QED
            BY <4>2, <6>1, <6>2
        <5> QED
          BY <5>2, <5>4, <5>5, <5>6
      <4>3. at \in {"write", "write modules", "go on"}
        BY <3>1, Zenon DEF Writing
      <4> QED
        BY <4>1, <4>2, <4>3
    <3> QED
      BY <3>1, <3>2, <1>1, FileIsWritten DEF MakeInv
  <2> QED
    BY <2>1, <2>2 DEF Kill
<1>4. MakeTypeOK'
  BY <1>1, <1>2, <1>3 DEF MakeInv, MakeTypeOK
<1> QED
  BY <1>1, <1>3, <1>4 DEF MakeInv, InProgress, HashesAreSaved, VerdictsStand

\* A command that ends takes nothing with it.
LEMMA ReturnHolds == MakeInv /\ Return => MakeInv'
<1> SUFFICES ASSUME MakeInv, Return PROVE MakeInv'
  OBVIOUS
<1>1. at' = "idle" /\ want' = Nothing /\ UNCHANGED <<yaml, file, saved, torn>>
  BY DEF Return, Stop
<1>2. FilesBelong' /\ SourcesAreValid'
  BY <1>1, FilesStay DEF MakeInv
<1>3. MakeTypeOK'
  BY <1>1 DEF MakeInv, MakeTypeOK, Nothing
<1> QED
  BY <1>1, <1>2, <1>3 DEF MakeInv, InProgress, HashesAreSaved, VerdictsStand

\* Every step keeps the invariant.
LEMMA MakeStepHolds == MakeInv /\ [MakeNext]_makeVars => MakeInv'
<1> SUFFICES ASSUME MakeInv, [MakeNext]_makeVars PROVE MakeInv'
  OBVIOUS
<1>1. CASE \E sel \in Selections : \E kind \in {"build", "check"} : Start(kind, sel)
  BY <1>1, StartHolds
<1>2. CASE Edit("properties", PropertyEdits)
  BY <1>2, EditHolds DEF Generators
<1>3. CASE Edit("modules", ModuleEdits)
  BY <1>3, EditHolds DEF Generators
<1>4. CASE UNCHANGED makeVars
  <2>1. UNCHANGED <<yaml, cmd, at, next, from, want, file, saved, torn>>
    BY <1>4 DEF makeVars
  <2>2. FilesBelong' /\ SourcesAreValid'
    BY <2>1, FilesStay DEF MakeInv
  <2>3. MakeTypeOK'
    BY <2>1 DEF MakeInv, MakeTypeOK
  <2>4. InProgress'
    <3>1. \A gen \in Generators, n \in Nat : Written(gen, n)' = Written(gen, n)
      BY <2>1 DEF Written, Loaded, Validated, Content
    <3> QED
      BY <2>1, <3>1 DEF MakeInv, InProgress, Validated, Written, Loaded, Content
  <2>5. HashesAreSaved'
    BY <2>1 DEF MakeInv, HashesAreSaved, Matches
  <2>6. ChecksPass' = ChecksPass
    BY <2>1 DEF ChecksPass, HashMatches, Matches, PropertyInputs, ModuleInputs
  <2>7. VerdictsStand'
    BY <2>1, <2>6 DEF MakeInv, VerdictsStand
  <2> QED
    BY <2>2, <2>3, <2>4, <2>5, <2>7 DEF MakeInv
<1> QED
  BY <1>1, <1>2, <1>3, <1>4, CleanHolds, HashPropertiesHolds, LoadPropertiesHolds,
     WritePropertiesHolds, SavePropertiesHolds, LoadModulesHolds, HashModulesHolds,
     WriteModulesHolds, MissModulesHolds, SaveModulesHolds, CompileHolds, CheckHolds, KillHolds, ReturnHolds
     DEF MakeNext

-----------------------------------------------------------------------------
(* What the hash tells of the modules.                                       *)

\* The modules of any metadata are finitely many modules.
LEMMA ModulesAreFinite ==
    ASSUME NEW in \in ModuleInput
    PROVE  ModulesAt(in) \subseteq Module /\ IsFiniteSet(ModulesAt(in))
<1>1. /\ in.model \in DOMAIN ModulesOf /\ in.edit \in {0} \cup DOMAIN ModuleEdits
  BY DEF ModuleInput
<1>2. ModulesOf[in.model] \subseteq Module /\ IsFiniteSet(ModulesOf[in.model])
  BY <1>1, GeneratedCodeAssumption
<1>3. in.edit # 0 => ModuleEdits[in.edit] \in Module
  BY <1>1, GeneratedCodeAssumption, ElementOfSeq
<1> DEFINE E == IF in.edit = 0 THEN {} ELSE {ModuleEdits[in.edit]}
           T == IF in.test THEN TestModules ELSE {}
<1>4. E \subseteq Module /\ IsFiniteSet(E)
  BY <1>3, FS_EmptySet, FS_Singleton
<1>5. T \subseteq Module /\ IsFiniteSet(T)
  BY GeneratedCodeAssumption, FS_EmptySet
<1>6. ModulesAt(in) = (ModulesOf[in.model] \cup E) \cup T
  BY DEF ModulesAt
<1> HIDE DEF E, T
<1>7. IsFiniteSet(ModulesOf[in.model] \cup E)
  BY <1>2, <1>4, FS_Union
<1>8. IsFiniteSet((ModulesOf[in.model] \cup E) \cup T)
  BY <1>5, <1>7, FS_Union
<1> QED
  BY <1>2, <1>4, <1>5, <1>6, <1>8

\* Two modules whose metadata differs in nothing but the directory.
SameText(met, n) ==
    /\ met.name = n.name /\ met.pattern = n.pattern /\ met.utility = n.utility
    /\ met.modes = n.modes /\ met.emits = n.emits /\ met.consumes = n.consumes
    /\ met.sources = n.sources

\* Sets of modules with the same texts, taken both ways.
LEMMA TextsAreSame ==
    ASSUME NEW met \in Module, NEW n \in Module, ModuleText(met) = ModuleText(n)
    PROVE  SameText(met, n)
<1>1. ASSUME NEW x \in Module
      PROVE  /\ ModuleText(x).name = x.name /\ ModuleText(x).pattern = x.pattern
             /\ ModuleText(x).utility = x.utility /\ ModuleText(x).modes = x.modes
             /\ ModuleText(x).emits = x.emits /\ ModuleText(x).consumes = x.consumes
             /\ ModuleText(x).sources = x.sources
  BY DEF Module, ModuleText
<1> QED
  BY <1>1 DEF SameText

\* Metadata with the texts of valid metadata has them once each.
LEMMA HashTellsTexts ==
    ASSUME NEW A \in SUBSET Module, NEW B \in SUBSET Module, IsFiniteSet(A), IsFiniteSet(B),
           UniqueNames(A), Texts(A) = Texts(B)
    PROVE  /\ UniqueNames(B)
           /\ \A a \in A : \E b \in B : SameText(a, b)
           /\ \A b \in B : \E a \in A : SameText(a, b)
<1> DEFINE OfText(M, t) == {met \in M : ModuleText(met) = t}
           TA == {ModuleText(met) : met \in A}
           TB == {ModuleText(met) : met \in B}
<1>1. TA = TB
  <2>1. DOMAIN Texts(A) = TA /\ DOMAIN Texts(B) = TB
    BY DEF Texts
  <2> QED
    BY <2>1
<1>2. \A a \in A : \E b \in B : ModuleText(a) = ModuleText(b)
  BY <1>1
<1>3. \A b \in B : \E a \in A : ModuleText(a) = ModuleText(b)
  BY <1>1
<1>4. ASSUME NEW a \in A, NEW b \in B, ModuleText(a) = ModuleText(b) PROVE SameText(a, b)
  BY <1>4, TextsAreSame
<1>5. ASSUME NEW t \in TA PROVE Cardinality(OfText(A, t)) = Cardinality(OfText(B, t))
  <2>1. Texts(A)[t] = Cardinality(OfText(A, t)) /\ Texts(B)[t] = Cardinality(OfText(B, t))
    BY <1>1 DEF Texts
  <2> QED
    BY <2>1
<1>6. ASSUME NEW b \in B, NEW c \in B, b.name = c.name PROVE b = c
  <2>1. PICK a \in A : ModuleText(a) = ModuleText(b)
    BY <1>3
  <2>2. PICK d \in A : ModuleText(d) = ModuleText(c)
    BY <1>3
  <2>3. a.name = d.name
    <3>1. SameText(a, b) /\ SameText(d, c)
      BY <2>1, <2>2, <1>4
    <3> QED
      BY <3>1, <1>6 DEF SameText
  <2>4. a = d
    BY <2>3 DEF UniqueNames
  <2> DEFINE t == ModuleText(a)
  <2>5. t \in TA /\ b \in OfText(B, t) /\ c \in OfText(B, t)
    BY <2>1, <2>2, <2>4
  <2>6. OfText(A, t) = {a}
    <3>1. ASSUME NEW x \in A, ModuleText(x) = t PROVE x = a
      <4>1. x.name = a.name
        BY <3>1, TextsAreSame DEF SameText
      <4> QED
        BY <4>1 DEF UniqueNames
    <3> QED
      BY <3>1
  <2>7. Cardinality(OfText(B, t)) = 1
    BY <1>5, <2>5, <2>6, FS_Singleton
  <2>8. PICK S : S = OfText(B, t)
    OBVIOUS
  <2>9. IsFiniteSet(S) /\ Cardinality(S) = 1 /\ b \in S /\ c \in S
    <3>1. S \subseteq B
      BY <2>8
    <3> QED
      BY <2>5, <2>7, <2>8, <3>1, FS_Subset
  <2>10. \E x : S = {x}
    BY <2>9, FS_Singleton
  <2> QED
    BY <2>9, <2>10
<1>7. UniqueNames(B)
  BY <1>6 DEF UniqueNames
<1> QED
  BY <1>2, <1>3, <1>4, <1>7

\* A module is the one of its name.
LEMMA NamedIsIt ==
    ASSUME NEW M, UniqueNames(M), NEW met \in M
    PROVE  Named(M, met.name) = met
<1>1. \E x \in M : x.name = met.name
  OBVIOUS
<1>2. Named(M, met.name) \in M /\ Named(M, met.name).name = met.name
  BY <1>1 DEF Named
<1> QED
  BY <1>2 DEF UniqueNames

\* The files do not depend on anything but the texts.
LEMMA TextsMakeFiles ==
    ASSUME NEW A \in SUBSET Module, NEW B \in SUBSET Module, UniqueNames(A), UniqueNames(B),
           \A a \in A : \E b \in B : SameText(a, b),
           \A b \in B : \E a \in A : SameText(a, b)
    PROVE  /\ EventContracts(A) = EventContracts(B) /\ ModuleInit(A) = ModuleInit(B)
           /\ {s[2] : s \in ModuleSources(A)} = {s[2] : s \in ModuleSources(B)}
<1>1. Producers(A) = Producers(B)
  BY DEF Producers, SameText
<1>2. ProducerIds(A) = ProducerIds(B)
  BY <1>1 DEF ProducerIds
<1>3. \A x : x \in Emitted(A) <=> \E a \in A : \E e \in Range(a.emits) : x = <<a.name, e>>
  BY DEF Emitted
<1>4. \A x : x \in Emitted(B) <=> \E b \in B : \E e \in Range(b.emits) : x = <<b.name, e>>
  BY DEF Emitted
<1>5. ASSUME NEW x \in Emitted(A)
      PROVE  x \in Emitted(B) /\ Named(A, x[1]).emits = Named(B, x[1]).emits
  <2>1. PICK a \in A : \E e \in Range(a.emits) : x = <<a.name, e>>
    BY <1>3
  <2>2. PICK b \in B : SameText(a, b)
    OBVIOUS
  <2>3. a.name = b.name /\ a.emits = b.emits
    BY <2>2 DEF SameText
  <2>4. x \in Emitted(B)
    BY <2>1, <2>3, <1>4
  <2>5. Named(A, a.name) = a /\ Named(B, b.name) = b
    BY NamedIsIt
  <2>6. x[1] = a.name
    BY <2>1
  <2> QED
    BY <2>3, <2>4, <2>5, <2>6
<1>6. ASSUME NEW x \in Emitted(B) PROVE x \in Emitted(A)
  <2>1. PICK b \in B : \E e \in Range(b.emits) : x = <<b.name, e>>
    BY <1>4
  <2>2. PICK a \in A : SameText(a, b)
    OBVIOUS
  <2>3. a.name = b.name /\ a.emits = b.emits
    BY <2>2 DEF SameText
  <2> QED
    BY <2>1, <2>3, <1>3
<1>7. Emitted(A) = Emitted(B)
  BY <1>5, <1>6
<1>8. EventIds(A) = EventIds(B)
  <2>1. \A x \in Emitted(A) : Numbered(Named(A, x[1]).emits, x[2])
                                = Numbered(Named(B, x[1]).emits, x[2])
    BY <1>5
  <2> QED
    BY <2>1, <1>7, Zenon DEF EventIds
<1>9. EventContracts(A) = EventContracts(B)
  BY <1>2, <1>8 DEF EventContracts
<1>10. ASSUME NEW a \in A, NEW b \in B, SameText(a, b)
       PROVE  /\ ModuleStruct(A, a) = ModuleStruct(B, b) /\ SourcesOf(a) = SourcesOf(b)
              /\ a \in Runtime(A) <=> b \in Runtime(B)
  <2>1. /\ a.name = b.name /\ a.modes = b.modes /\ a.consumes = b.consumes
        /\ a.emits = b.emits /\ a.utility = b.utility /\ a.sources = b.sources
        /\ a.pattern = b.pattern
    BY <1>10 DEF SameText
  <2>2. ModuleStruct(A, a) = ModuleStruct(B, b)
    BY <2>1, <1>1, <1>2, Zenon DEF ModuleStruct
  <2>3. SourcesOf(a) = SourcesOf(b)
    BY <2>1, Zenon DEF SourcesOf
  <2> QED
    BY <2>1, <2>2, <2>3 DEF Runtime
<1>11. Runtime(A) \subseteq A /\ Runtime(B) \subseteq B
  BY DEF Runtime
<1>12. ModuleInit(A) = ModuleInit(B)
  BY <1>10, <1>11 DEF ModuleInit
<1>13. {s[2] : s \in ModuleSources(A)} = {s[2] : s \in ModuleSources(B)}
  <2>1. ASSUME NEW M
        PROVE  {s[2] : s \in ModuleSources(M)}
                 = UNION {Range(SourcesOf(met)) : met \in Runtime(M)}
    <3>1. \A p : p \in ModuleSources(M)
                   <=> \E met \in Runtime(M) : \E s \in Range(SourcesOf(met)) : p = <<met.dir, s>>
      BY DEF ModuleSources
    <3>2. \A met, s : <<met.dir, s>>[2] = s
      OBVIOUS
    <3>3. \A x : x \in {s[2] : s \in ModuleSources(M)}
                   <=> \E met \in Runtime(M) : x \in Range(SourcesOf(met))
      <4>1. ASSUME NEW met \in Runtime(M), NEW x \in Range(SourcesOf(met))
            PROVE  \E s \in ModuleSources(M) : x = s[2]
        <5>1. <<met.dir, x>> \in ModuleSources(M) /\ x = <<met.dir, x>>[2]
          BY <3>1, <3>2
        <5> QED
          BY <5>1
      <4>2. ASSUME NEW s \in ModuleSources(M)
            PROVE  \E met \in Runtime(M) : s[2] \in Range(SourcesOf(met))
        BY <3>1, <3>2
      <4> QED
        BY <4>1, <4>2
    <3> QED
      BY <3>3
  <2>2. {Range(SourcesOf(met)) : met \in Runtime(A)} = {Range(SourcesOf(met)) : met \in Runtime(B)}
    BY <1>10, <1>11
  <2> QED
    BY <2>1, <2>2
<1> QED
  BY <1>9, <1>12, <1>13

\* Different names have different places, counted from 1.
LEMMA PlaceIsOwn ==
    ASSUME NEW names \in SUBSET Range(ModuleNames), NEW n \in names, NEW o \in names
    PROVE  Place(names, n) \in Nat \ {0} /\ (Place(names, n) = Place(names, o) => n = o)
<1> DEFINE D(i) == {k \in 1 .. i : ModuleNames[k] \in names}
<1>1. ModuleNames \in Seq(STRING) /\ DOMAIN ModuleNames = 1 .. Len(ModuleNames)
      /\ Len(ModuleNames) \in Nat
  BY NamesAssumption
<1>2. ASSUME NEW x \in names
      PROVE  /\ Numbered(ModuleNames, x) \in 1 .. Len(ModuleNames)
             /\ ModuleNames[Numbered(ModuleNames, x)] = x
             /\ Place(names, x) = Cardinality(D(Numbered(ModuleNames, x)))
  <2>1. \E i \in DOMAIN ModuleNames : ModuleNames[i] = x
    BY DEF Range
  <2>2. /\ Numbered(ModuleNames, x) \in DOMAIN ModuleNames
        /\ ModuleNames[Numbered(ModuleNames, x)] = x
    BY <2>1 DEF Numbered
  <2> QED
    BY <2>2, <1>1 DEF Place
<1>3. ASSUME NEW i \in Nat PROVE IsFiniteSet(D(i)) /\ Cardinality(D(i)) \in Nat
  <2>1. IsFiniteSet(1 .. i)
    BY FS_Interval
  <2>2. IsFiniteSet(D(i))
    BY <2>1, FS_Subset
  <2> QED
    BY <2>2, FS_CardinalityType
<1>4. ASSUME NEW i \in 1 .. Len(ModuleNames), NEW j \in 1 .. Len(ModuleNames), i < j,
             ModuleNames[j] \in names
      PROVE  Cardinality(D(i)) # Cardinality(D(j))
  <2>1. D(i) \subseteq D(j) /\ j \in D(j) /\ j \notin D(i)
    BY <1>4, <1>1
  <2>2. IsFiniteSet(D(j)) /\ D(i) # D(j)
    BY <1>3, <1>1, <2>1
  <2> HIDE DEF D
  <2> QED
    BY <2>1, <2>2, FS_Subset
<1>5. Place(names, n) # 0
  <2>1. PICK i \in 1 .. Len(ModuleNames) : i = Numbered(ModuleNames, n)
    BY <1>2
  <2>2. i \in D(i) /\ IsFiniteSet(D(i))
    BY <1>1, <1>2, <1>3, <2>1, SMTT(30)
  <2>3. Cardinality(D(i)) # 0
    BY <2>2, FS_EmptySet
  <2> QED
    BY <1>2, <2>1, <2>3
<1>6. Place(names, n) \in Nat
  <2>1. PICK i \in 1 .. Len(ModuleNames) : i = Numbered(ModuleNames, n)
    BY <1>2
  <2>2. i \in Nat
    BY <1>1
  <2> QED
    BY <1>2, <1>3, <2>1, <2>2
<1>7. ASSUME Place(names, n) = Place(names, o) PROVE n = o
  <2>1. PICK i \in 1 .. Len(ModuleNames), j \in 1 .. Len(ModuleNames) :
           i = Numbered(ModuleNames, n) /\ j = Numbered(ModuleNames, o)
    BY <1>2
  <2>2. /\ ModuleNames[i] = n /\ ModuleNames[j] = o
        /\ Cardinality(D(i)) = Cardinality(D(j))
    BY <1>2, <1>7, <2>1
  <2> HIDE DEF D
  <2>3. ~(i < j) /\ ~(j < i)
    BY <1>4, <2>2
  <2>4. i = j
    BY <2>3, <1>1
  <2> QED
    BY <2>2, <2>4
<1> QED
  BY <1>5, <1>6, <1>7

\* A valid set of modules is connected as it declares.
LEMMA ValidModulesHear ==
    ASSUME NEW M \in SUBSET Module, UniqueNames(M), ValidEvents(M)
    PROVE  HearsAsDeclared(M, M, M)
<1>1. {<<s.name, s.subscriptions>> : s \in ModuleInit(M)}
         = {<<met.name, met.consumes>> : met \in Runtime(M)}
  <2>1. \A met : /\ ModuleStruct(M, met).name = met.name
                 /\ ModuleStruct(M, met).subscriptions = met.consumes
    BY DEF ModuleStruct
  <2> QED
    BY <2>1 DEF ModuleInit
<1>2. Producers(M) \subseteq Range(ModuleNames)
  BY DEF Producers, Module
<1>3. ASSUME NEW met \in Runtime(M), NEW pair \in Range(met.consumes)
      PROVE  HeardFrom(M, M, pair) = IF Named(M, pair[1]).utility THEN {} ELSE {pair}
  <2>1. met \in M /\ met.consumes \in Seq(STRING \X STRING)
    BY DEF Runtime, Module
  <2>2. pair \in STRING \X STRING /\ met.consumes # << >>
    BY <2>1 DEF Range
  <2>3. pair[1] \in Producers(M) /\ pair[2] \in Range(Named(M, pair[1]).emits)
    BY <2>1, <2>2 DEF ValidEvents
  <2>4. PICK p \in M : p.name = pair[1] /\ p.emits # << >>
    BY <2>3 DEF Producers
  <2>5. Named(M, pair[1]) = p /\ pair[2] \in Range(p.emits)
    BY <2>3, <2>4, NamedIsIt
  <2>6. pair = <<p.name, pair[2]>>
    BY <2>2, <2>4
  <2>7. pair \in Emitted(M)
    BY <2>5, <2>6 DEF Emitted
  <2>8. \A e \in Emitted(M) :
           EventIds(M)[e] = Numbered(Named(M, e[1]).emits, e[2])
    BY DEF EventIds
  <2>9. \A n \in Producers(M) : ProducerIds(M)[n] = Place(Producers(M), n)
    BY DEF ProducerIds
  <2>10. \A e : e \in HeardFrom(M, M, pair) <=>
            /\ e \in Emitted(M)
            /\ \E q \in Runtime(M) :
                  /\ ModuleStruct(M, q).module_id = ProducerIds(M)[pair[1]]
                  /\ e[1] = q.name /\ e \in Range(ModuleStruct(M, q).emitted)
                  /\ EventIds(M)[e] = EventIds(M)[pair]
    <3>1. /\ EventContracts(M).events = EventIds(M) /\ EventContracts(M).ids = ProducerIds(M)
          /\ DOMAIN EventIds(M) = Emitted(M)
      BY DEF EventContracts, EventIds
    <3>2. \A e : e \in HeardFrom(M, M, pair) <=>
             /\ e \in Emitted(M)
             /\ \E s \in ModuleInit(M) :
                   /\ s.module_id = ProducerIds(M)[pair[1]]
                   /\ e[1] = s.name /\ e \in Range(s.emitted)
                   /\ EventIds(M)[e] = EventIds(M)[pair]
      BY <3>1 DEF HeardFrom
    <3>3. \A s : s \in ModuleInit(M) <=> \E q \in Runtime(M) : s = ModuleStruct(M, q)
      BY DEF ModuleInit
    <3>4. \A q : ModuleStruct(M, q).name = q.name
      BY DEF ModuleStruct
    <3> QED
      BY <3>2, <3>3, <3>4
  \* Only the producer has its number, and only this event of it has its number.
  <2>11. ASSUME NEW e \in HeardFrom(M, M, pair) PROVE e = pair /\ p \in Runtime(M)
    <3>1. PICK q \in Runtime(M) :
             /\ ModuleStruct(M, q).module_id = ProducerIds(M)[pair[1]]
             /\ e[1] = q.name /\ e \in Range(ModuleStruct(M, q).emitted)
             /\ EventIds(M)[e] = EventIds(M)[pair]
      BY <2>10
    <3>2. e \in Emitted(M) /\ q \in M
      BY <2>10 DEF Runtime
    <3>3. ModuleStruct(M, q).module_id
             = IF q.name \in Producers(M) THEN ProducerIds(M)[q.name] ELSE 0
      BY DEF ModuleStruct
    <3>4. ProducerIds(M)[pair[1]] \in Nat \ {0}
      BY <2>3, <2>9, <1>2, PlaceIsOwn
    <3>5. q.name \in Producers(M)
      BY <3>1, <3>3, <3>4
    <3>6. Place(Producers(M), q.name) = Place(Producers(M), pair[1])
      BY <3>1, <3>3, <3>5, <2>3, <2>9
    <3>7. q.name = pair[1]
      BY <3>5, <3>6, <2>3, <1>2, PlaceIsOwn
    <3>8. q = p
      BY <3>2, <3>7, <2>4 DEF UniqueNames
    <3>9. PICK i \in DOMAIN q.emits : e = <<q.name, q.emits[i]>>
      BY <3>1 DEF ModuleStruct, Range
    <3>10. Numbered(q.emits, e[2]) = Numbered(q.emits, pair[2])
      <4>1. Named(M, e[1]) = q /\ Named(M, pair[1]) = q
        BY <3>1, <3>2, <3>8, <2>5, NamedIsIt
      <4> QED
        BY <4>1, <3>1, <3>2, <2>7, <2>8
    <3>11. q.emits[Numbered(q.emits, e[2])] = e[2]
      <4>1. \E j \in DOMAIN q.emits : q.emits[j] = e[2]
        BY <3>9
      <4> QED
        BY <4>1 DEF Numbered
    <3>12. q.emits[Numbered(q.emits, pair[2])] = pair[2]
      <4>1. \E j \in DOMAIN q.emits : q.emits[j] = pair[2]
        BY <2>5, <3>8 DEF Range
      <4> QED
        BY <4>1 DEF Numbered
    <3>13. e[2] = pair[2]
      BY <3>10, <3>11, <3>12
    <3>14. e = <<q.name, e[2]>>
      BY <3>9
    <3> QED
      BY <3>8, <3>13, <3>14, <2>6
  <2>12. ASSUME p \in Runtime(M) PROVE pair \in HeardFrom(M, M, pair)
    <3>1. ModuleStruct(M, p).module_id = ProducerIds(M)[pair[1]]
      BY <2>3, <2>4 DEF ModuleStruct
    <3>2. PICK i \in DOMAIN p.emits : p.emits[i] = pair[2]
      BY <2>5 DEF Range
    <3>3. /\ DOMAIN ModuleStruct(M, p).emitted = DOMAIN p.emits
          /\ ModuleStruct(M, p).emitted[i] = <<p.name, p.emits[i]>>
      BY DEF ModuleStruct
    <3>4. pair \in Range(ModuleStruct(M, p).emitted)
      BY <3>2, <3>3, <2>6 DEF Range
    <3> QED
      BY <3>1, <3>4, <2>4, <2>7, <2>10, <2>12
  <2>13. p \in Runtime(M) <=> ~p.utility
    BY DEF Runtime
  <2> QED
    BY <2>5, <2>11, <2>12, <2>13
<1> QED
  BY <1>1, <1>3 DEF HearsAsDeclared

-----------------------------------------------------------------------------
(* The theorems.                                                             *)

\* The invariant holds in every behaviour.
LEMMA MakeInvHolds == MakeSpec => []MakeInv
<1>1. MakeInit => MakeInv
  BY MakeInvInit
<1>2. MakeInv /\ [MakeNext]_makeVars => MakeInv'
  BY MakeStepHolds
<1> QED
  BY <1>1, <1>2, PTL DEF MakeSpec

\* Equal hashes, of either kind, are of equal texts.
LEMMA HashesTellTexts ==
    ASSUME NEW A, NEW B, NEW p, NEW q, Hashed(A, p) = Hashed(B, q)
    PROVE  Texts(A) = Texts(B)
<1>1. Hashed(A, p).texts = Texts(A) /\ Hashed(B, q).texts = Texts(B)
  BY DEF Hashed
<1> QED
  BY <1>1

\* For modules called what they are called on disk the two hashes are one.
LEMMA ChecksHashIsGenerators ==
    ASSUME NEW M, NamedAsOnDisk(M)
    PROVE  compute_module_metadata_hash(M) = compute_metadata_hash(M)
<1>1. ByStem(M) = ByName(M)
  <2>1. \A p \in M \X M : p[1].stem = p[1].name /\ p[2].stem = p[2].name
    BY DEF NamedAsOnDisk
  <2> QED
    BY <2>1 DEF ByStem, ByName
<1> QED
  BY <1>1 DEF compute_module_metadata_hash, compute_metadata_hash

\* Module files from valid metadata with the texts of other metadata are those the
\* other would give.
LEMMA SameTextsSameFile ==
    ASSUME NEW f \in Range(ModuleFiles), Validated("modules", file[f].from),
           NEW in \in ModuleInput, Texts(ModulesAt(file[f].from)) = Texts(ModulesAt(in))
    PROVE  MadeFrom(f, in)
<1> DEFINE A == ModulesAt(file[f].from)
           B == ModulesAt(in)
<1>1. A \in SUBSET Module /\ B \in SUBSET Module /\ IsFiniteSet(A) /\ IsFiniteSet(B) /\ UniqueNames(A)
  BY ModulesAreFinite DEF Validated, InputsOf
<1>2. Texts(A) = Texts(B)
  OBVIOUS
<1> HIDE DEF A, B
<1>3. /\ UniqueNames(B)
      /\ \A a \in A : \E b \in B : SameText(a, b)
      /\ \A b \in B : \E a \in A : SameText(a, b)
  BY <1>1, <1>2, HashTellsTexts
<1>4. /\ EventContracts(A) = EventContracts(B) /\ ModuleInit(A) = ModuleInit(B)
      /\ {s[2] : s \in ModuleSources(A)} = {s[2] : s \in ModuleSources(B)}
  BY <1>1, <1>3, TextsMakeFiles
<1>5. A = ModulesAt(file[f].from) /\ B = ModulesAt(in)
  BY DEF A, B
<1>6. f \notin Range(PropertyFiles)
  BY FilesApart
<1>7. f \in {"event_contracts.h", "module_init.c", "module_sources.txt"}
  BY FilesApart
<1>8. CASE f = "event_contracts.h"
  BY <1>4, <1>5, <1>6, <1>8 DEF MadeFrom, ModuleSource
<1>9. CASE f = "module_init.c"
  BY <1>4, <1>5, <1>6, <1>9 DEF MadeFrom, ModuleSource
<1>10. CASE f = "module_sources.txt"
  BY <1>4, <1>5, <1>6, <1>10 DEF MadeFrom, ModuleSource
<1> QED
  BY <1>7, <1>8, <1>9, <1>10

\* A build of finished generations has the files of the metadata it hashed last.
LEMMA InvGivesBuild == MakeInv => BuildIsSelected
<1> SUFFICES ASSUME MakeInv, at = "built", NEW gen \in Generators, ~torn[gen],
                    NEW f \in Range(FilesOf(gen)), ~Raced(gen, f)
             PROVE  MadeFrom(f, want[gen])
  BY DEF BuildIsSelected
<1>1. Matches(gen, saved[gen], want[gen])
  BY DEF MakeInv, HashesAreSaved, Generators
<1>2. saved[gen] # None /\ Hash(gen, saved[gen]) = Hash(gen, want[gen])
  BY <1>1 DEF Matches
<1>3. OneGeneration(gen)
  BY <1>2 DEF MakeInv, FilesBelong, Untouched
<1>4. PICK met \in InputsOf(gen), h \in InputsOf(gen) :
         Validated(gen, met) /\ Generation(gen, met, h) /\ saved[gen] \in {None, h}
  BY <1>3 DEF OneGeneration
<1>5. file[f] = [from |-> met, hashed |-> h, state |-> "whole"]
  BY <1>4 DEF Generation
<1>6. file[f].from = met /\ file[f].hashed = h /\ saved[gen] = h
  BY <1>2, <1>4, <1>5
<1>7. Hash(gen, met) = Hash(gen, want[gen])
  BY <1>2, <1>6 DEF Raced
<1>8. CASE gen = "properties"
  <2>1. met = want[gen]
    BY <1>7, <1>8 DEF Hash, compute_yaml_hash
  <2>2. f \in Range(PropertyFiles)
    BY <1>8, GeneratorsFiles
  <2> QED
    BY <1>6, <2>1, <2>2 DEF MadeFrom
<1>9. CASE gen = "modules"
  <2>1. f \in Range(ModuleFiles) /\ Validated("modules", file[f].from)
    BY <1>4, <1>6, <1>9, GeneratorsFiles
  <2>2. want[gen] \in ModuleInput
    BY <1>9 DEF MakeInv, HashesAreSaved
  <2>3. Texts(ModulesAt(met)) = Texts(ModulesAt(want[gen]))
    BY <1>7, <1>9, HashesTellTexts DEF Hash, compute_metadata_hash
  <2> QED
    BY <2>1, <2>2, <2>3, <1>6, SameTextsSameFile
<1> QED
  BY <1>8, <1>9 DEF Generators

\* The check of a command reads its metadata.
LEMMA SelectionIsRead ==
    ASSUME MakeInv, at # "idle"
    PROVE  /\ PropertyInputs(cmd.sel) \in PropertyInput /\ ModuleInputs(cmd.sel) \in ModuleInput
           /\ PropertyInputs(cmd.sel).test = cmd.sel.test /\ cmd.sel.test \in BOOLEAN
<1>1. cmd.sel \in Selections
  BY DEF MakeInv, MakeTypeOK
<1> QED
  BY <1>1, InputsAreRecords, GeneratedCodeAssumption DEF MakeInv

\* A check that passes vouches for the files it reads.
LEMMA InvGivesPassed ==
    ASSUME MakeInv, at = "passed"
    PROVE  /\ \A f \in Range(PropertyFiles) :
                 \/ Raced("properties", f)
                 \/ MadeFrom(f, [PropertyInputs(cmd.sel) EXCEPT !.test = FALSE])
           /\ \/ Raced("modules", "event_contracts.h")
              \/ MadeFrom("event_contracts.h", ModuleInputs(cmd.sel))
<1>1. ChecksPass
  BY DEF MakeInv, VerdictsStand
<1>2. ASSUME NEW f \in Range(PropertyFiles), ~Raced("properties", f)
      PROVE  MadeFrom(f, [PropertyInputs(cmd.sel) EXCEPT !.test = FALSE])
  <2>1. HashMatches(f)
    BY <1>1 DEF ChecksPass, CheckedFiles
  <2>2. file[f].hashed = [PropertyInputs(cmd.sel) EXCEPT !.test = FALSE]
    BY <2>1 DEF HashMatches, compute_yaml_hash, compute_property_yaml_hash
  <2>3. file[f].from = file[f].hashed
    BY <1>2 DEF Raced, Hash, compute_yaml_hash
  <2> QED
    BY <2>2, <2>3 DEF MadeFrom
<1>3. ASSUME ~Raced("modules", "event_contracts.h")
      PROVE  MadeFrom("event_contracts.h", ModuleInputs(cmd.sel))
  <2>1. /\ "event_contracts.h" \in Range(ModuleFiles)
        /\ "event_contracts.h" \notin Range(PropertyFiles)
        /\ "event_contracts.h" \in CheckedFiles
    BY FilesApart DEF CheckedFiles
  <2>2. HashMatches("event_contracts.h") /\ file["event_contracts.h"] # None
    BY <1>1, <2>1 DEF ChecksPass
  <2> DEFINE M == ModulesAt(ModuleInputs(cmd.sel))
             F == ModulesAt(file["event_contracts.h"].from)
  <2>3. compute_metadata_hash(F) = compute_module_metadata_hash(M)
    BY <2>1, <2>2, <1>3 DEF HashMatches, Raced, Hash
  <2>4. Texts(F) = Texts(M)
    <3> HIDE DEF M, F
    <3> QED
      BY <2>3, HashesTellTexts DEF compute_metadata_hash, compute_module_metadata_hash
  <2>5. Validated("modules", file["event_contracts.h"].from)
    BY <2>1, <2>2 DEF MakeInv, SourcesAreValid
  <2> QED
    BY <2>1, <2>4, <2>5, SelectionIsRead, SameTextsSameFile
<1> QED
  BY <1>2, <1>3

\* A check fails only for a reason the property names.
LEMMA InvGivesFailed ==
    ASSUME MakeInv, at = "failed", ~cmd.sel.test, ModulesAt(ModuleInputs(cmd.sel)) # {},
           NamedAsOnDisk(ModulesAt(ModuleInputs(cmd.sel))),
           \A gen \in Generators : ~torn[gen],
           Matches("properties", saved["properties"], PropertyInputs(cmd.sel)),
           Matches("modules", saved["modules"], ModuleInputs(cmd.sel))
    PROVE  FALSE
<1>1. ~ChecksPass
  BY DEF MakeInv, VerdictsStand
<1>2. ASSUME NEW gen \in Generators, saved[gen] # None, NEW f \in Range(FilesOf(gen))
      PROVE  file[f] # None /\ file[f].state = "whole" /\ file[f].hashed = saved[gen]
  <2>1. OneGeneration(gen)
    BY <1>2 DEF MakeInv, FilesBelong, Untouched
  <2>2. PICK met \in InputsOf(gen), h \in InputsOf(gen) :
           Validated(gen, met) /\ Generation(gen, met, h) /\ saved[gen] \in {None, h}
    BY <2>1 DEF OneGeneration
  <2>3. file[f] = [from |-> met, hashed |-> h, state |-> "whole"] /\ saved[gen] = h
    BY <1>2, <2>2 DEF Generation
  <2>4. file[f] \in [from : Readings, hashed : Readings, state : {"whole", "empty", "cut"}]
    <3>1. InputsOf(gen) \subseteq Readings
      BY GeneratorsFiles
    <3>2. met \in Readings /\ h \in Readings
      BY <3>1, <2>2
    <3> QED
      BY <2>3, <3>2
  <2> QED
    BY <2>3, <2>4, GeneratedCodeAssumption
<1>3. /\ saved["properties"] # None /\ saved["properties"] = PropertyInputs(cmd.sel)
      /\ saved["modules"] # None
      /\ Hash("modules", saved["modules"]) = Hash("modules", ModuleInputs(cmd.sel))
  BY DEF Matches, Hash, compute_yaml_hash
<1>4. "properties" \in Generators /\ "modules" \in Generators
  BY DEF Generators
<1>5. ASSUME NEW f \in Range(PropertyFiles)
      PROVE  file[f] # None /\ file[f].state = "whole" /\ HashMatches(f)
  <2>1. file[f] # None /\ file[f].state = "whole" /\ file[f].hashed = PropertyInputs(cmd.sel)
    BY <1>2, <1>3, <1>4, GeneratorsFiles
  <2>2. [PropertyInputs(cmd.sel) EXCEPT !.test = FALSE] = PropertyInputs(cmd.sel)
    BY SelectionIsRead DEF PropertyInput
  <2> QED
    BY <2>1, <2>2 DEF HashMatches, compute_yaml_hash, compute_property_yaml_hash
<1>6. /\ file["event_contracts.h"] # None /\ file["event_contracts.h"].state = "whole"
      /\ HashMatches("event_contracts.h")
  <2>1. "event_contracts.h" \in Range(ModuleFiles) /\ "event_contracts.h" \notin Range(PropertyFiles)
    BY FilesApart
  <2>2. /\ file["event_contracts.h"] # None /\ file["event_contracts.h"].state = "whole"
        /\ file["event_contracts.h"].hashed = saved["modules"]
    BY <2>1, <1>2, <1>3, <1>4, GeneratorsFiles
  <2>3. compute_metadata_hash(ModulesAt(saved["modules"]))
            = compute_module_metadata_hash(ModulesAt(ModuleInputs(cmd.sel)))
    BY <1>3, ChecksHashIsGenerators DEF Hash
  <2> QED
    BY <2>1, <2>2, <2>3 DEF HashMatches
<1>7. ChecksPass
  BY <1>5, <1>6, FilesApart DEF ChecksPass, CheckedFiles
<1> QED
  BY <1>1, <1>7

\* Both module files are of one valid registry, so their numbers agree.
LEMMA InvGivesHeard == MakeInv => HeardAsDeclared
<1> SUFFICES ASSUME MakeInv, at = "built", ~torn["modules"]
             PROVE  HearsAsDeclared(ModuleSource("event_contracts.h"),
                        ModuleSource("module_init.c"), ModuleSource("module_init.c"))
  BY DEF HeardAsDeclared
<1>1. saved["modules"] # None
  BY DEF MakeInv, HashesAreSaved, Matches
<1>2. OneGeneration("modules")
  BY <1>1 DEF MakeInv, FilesBelong, Untouched, Generators
<1>3. PICK met \in ModuleInput, h \in ModuleInput :
          Validated("modules", met) /\ Generation("modules", met, h)
  BY <1>2 DEF OneGeneration, InputsOf
<1>4. file["event_contracts.h"].from = met /\ file["module_init.c"].from = met
  BY <1>3, FilesApart, GeneratorsFiles DEF Generation
<1> DEFINE M == ModulesAt(met)
<1>5. M \in SUBSET Module /\ UniqueNames(M) /\ ValidEvents(M)
  BY <1>3, ModulesAreFinite DEF Validated
<1>6. HearsAsDeclared(M, M, M)
  BY <1>5, ValidModulesHear
<1> QED
  BY <1>4, <1>6 DEF ModuleSource

-----------------------------------------------------------------------------
(* The metadata of the properties.                                           *)

\* The metadata of a selection is typed.
LEMMA MetadataIsTyped ==
    ASSUME NEW in \in PropertyInput
    PROVE  /\ Metadata(in).core \in Seq(Property) /\ Metadata(in).catalog \in Seq(Property)
           /\ Metadata(in).galaxy \in Seq(Property)
           /\ RolesArePlain(Range(Metadata(in).catalog))
<1>1. /\ in.sim \in DOMAIN CatalogOf /\ in.model \in DOMAIN GalaxyOf
      /\ in.edit \in {0} \cup DOMAIN PropertyEdits
  BY MetadataAssumption DEF PropertyInput
<1>2. /\ Core \in Seq(Property) /\ CatalogOf[in.sim] \in Seq(Property)
      /\ RolesArePlain(Range(CatalogOf[in.sim]))
      /\ GalaxyOf[in.model] \in Seq(Property) /\ TestProperties \in Seq(Property)
  BY <1>1, MetadataAssumption
<1>3. ASSUME NEW category
      PROVE  Added(in.edit, category) \in Seq(Property)
  <2>1. in.edit # 0 => PropertyEdits[in.edit].property \in Property
    BY <1>1, MetadataAssumption
  <2> QED
    BY <2>1 DEF Added
<1>4. RolesArePlain(Range(Added(in.edit, "halo")))
  <2>1. CASE in.edit # 0 /\ PropertyEdits[in.edit].category = "halo"
    <3>1. Added(in.edit, "halo") = <<PropertyEdits[in.edit].property>>
      BY <2>1 DEF Added
    <3>2. RolesArePlain({PropertyEdits[in.edit].property})
      BY <2>1, <1>1, MetadataAssumption
    <3>3. Range(<<PropertyEdits[in.edit].property>>) = {PropertyEdits[in.edit].property}
      BY DEF Range
    <3> QED
      BY <3>1, <3>2, <3>3
  <2>2. CASE ~(in.edit # 0 /\ PropertyEdits[in.edit].category = "halo")
    <3>1. Added(in.edit, "halo") = << >>
      BY <2>2 DEF Added
    <3> QED
      BY <3>1 DEF RolesArePlain, Range
  <2> QED
    BY <2>1, <2>2
<1> DEFINE A == CatalogOf[in.sim]
           B == Added(in.edit, "halo")
<1>5. A \o B \in Seq(Property)
  BY <1>2, <1>3
<1>6. Range(A \o B) = Range(A) \cup Range(B)
  BY <1>2, <1>3, RangeConcatenation
<1>7. RolesArePlain(Range(A \o B))
  BY <1>2, <1>4, <1>6 DEF RolesArePlain
<1>8. (GalaxyOf[in.model] \o Added(in.edit, "galaxy"))
          \o (IF in.test THEN TestProperties ELSE << >>) \in Seq(Property)
  BY <1>2, <1>3
<1> QED
  BY <1>2, <1>5, <1>7, <1>8 DEF Metadata

\* What Kept has of typed properties.
LEMMA KeptProperties ==
    ASSUME NEW s \in Seq(Property), NEW K
    PROVE  /\ Kept(s, K) \in Seq(Property)
           /\ Range(Kept(s, K)) = {s[k] : k \in K \cap DOMAIN s}
<1>1. PICK loc : KeptAs(loc, s, K, Kept(s, K)) /\ Kept(s, K) \in Seq(Property)
  BY KeptFacts
<1>2. DOMAIN s = 1 .. Len(s) /\ DOMAIN Kept(s, K) = 1 .. Len(Kept(s, K))
  BY <1>1
<1>3. ASSUME NEW x \in Range(Kept(s, K)) PROVE x \in {s[k] : k \in K \cap DOMAIN s}
  <2>1. PICK i \in 1 .. Len(Kept(s, K)) : x = Kept(s, K)[i]
    BY <1>2 DEF Range
  <2>2. loc[i] \in K /\ loc[i] \in 1 .. Len(s) /\ x = s[loc[i]]
    BY <1>1, <2>1 DEF KeptAs
  <2> QED
    BY <2>2, <1>2
<1>4. ASSUME NEW k \in K \cap DOMAIN s PROVE s[k] \in Range(Kept(s, K))
  <2>1. PICK i \in 1 .. Len(Kept(s, K)) : loc[i] = k
    BY <1>1, <1>2 DEF KeptAs
  <2>2. Kept(s, K)[i] = s[k]
    BY <1>1, <2>1 DEF KeptAs
  <2> QED
    BY <2>1, <2>2, <1>2 DEF Range
<1> QED
  BY <1>1, <1>3, <1>4

\* No two places have properties of one name.
NamesDiffer(s) == \A i, j \in DOMAIN s : s[i].name = s[j].name => i = j

\* Picking properties keeps their names apart.
LEMMA KeptNamesDiffer ==
    ASSUME NEW s \in Seq(Property), NEW K,
           \A i, j \in K \cap DOMAIN s : s[i].name = s[j].name => i = j
    PROVE  NamesDiffer(Kept(s, K))
<1>1. PICK loc : KeptAs(loc, s, K, Kept(s, K)) /\ Kept(s, K) \in Seq(Property)
  BY KeptFacts
<1>2. DOMAIN s = 1 .. Len(s) /\ DOMAIN Kept(s, K) = 1 .. Len(Kept(s, K))
  BY <1>1
<1>3. ASSUME NEW x \in 1 .. Len(Kept(s, K)), NEW y \in 1 .. Len(Kept(s, K)),
             Kept(s, K)[x].name = Kept(s, K)[y].name
      PROVE  x = y
  <2>1. /\ loc[x] \in K \cap DOMAIN s /\ Kept(s, K)[x] = s[loc[x]]
        /\ loc[y] \in K \cap DOMAIN s /\ Kept(s, K)[y] = s[loc[y]]
    BY <1>1, <1>2 DEF KeptAs
  <2>2. loc[x] = loc[y]
    BY <1>3, <2>1
  <2> QED
    BY <1>1, <2>2 DEF KeptAs
<1> QED
  BY <1>2, <1>3 DEF NamesDiffer

\* A merged list has no name twice.
LEMMA MergeNamesDiffer ==
    ASSUME NEW s \in Seq(Property)
    PROVE  Merge(s) \in Seq(Property) /\ NamesDiffer(Merge(s))
<1> DEFINE K == {i \in DOMAIN s : \A j \in 1 .. i - 1 : s[j].name # s[i].name}
<1>1. Merge(s) = Kept(s, K)
  BY DEF Merge
<1>2. DOMAIN s = 1 .. Len(s) /\ Len(s) \in Nat
  OBVIOUS
<1>3. ASSUME NEW i \in K, NEW j \in K, s[i].name = s[j].name PROVE i = j
  <2>1. i \in 1 .. Len(s) /\ j \in 1 .. Len(s)
    BY <1>2
  <2>2. ~(i < j)
    <3>1. i < j => i \in 1 .. j - 1
      BY <2>1
    <3> QED
      BY <3>1, <1>3
  <2>3. ~(j < i)
    <3>1. j < i => j \in 1 .. i - 1
      BY <2>1
    <3> QED
      BY <3>1, <1>3
  <2> QED
    BY <2>1, <2>2, <2>3
<1> HIDE DEF K
<1> QED
  BY <1>1, <1>3, KeptProperties, KeptNamesDiffer

\* The merged lists of a selection are typed and have no name twice.
LEMMA MergedProperties ==
    ASSUME NEW met, met.core \in Seq(Property), met.catalog \in Seq(Property),
           met.galaxy \in Seq(Property)
    PROVE  /\ HaloProps(met) \in Seq(Property) /\ NamesDiffer(HaloProps(met))
           /\ GalaxyProps(met) \in Seq(Property) /\ NamesDiffer(GalaxyProps(met))
<1>1. CopiedFields(met.catalog) \in Seq(Property)
  BY KeptProperties DEF CopiedFields
<1>2. MergedHalo(met) \in Seq(Property)
  BY <1>1 DEF MergedHalo
<1> QED
  BY <1>2, MergeNamesDiffer DEF HaloProps, GalaxyProps

-----------------------------------------------------------------------------
(* Units.                                                                    *)

Dims  == {"dimensionless", "mass", "length", "velocity", "time", "luminosity"}
Units == [dim : Dims, scale : Int, h : {"none", "carried", "free"}]

\* Every unit of the registry is one, and only "index" has no dimension.
LEMMA RegistryUnits ==
    ASSUME NEW u \in DOMAIN UNIT_REGISTRY
    PROVE  /\ UNIT_REGISTRY[u] \in Units
           /\ UNIT_REGISTRY[u].dim = "dimensionless" => u = "index"
           /\ u = "index" => UNIT_REGISTRY[u].dim = "dimensionless"
<1>1. u \in {"index", "1e10 Msun/h", "Msun", "Mpc/h", "km/s", "Myr", "erg/s"}
  BY DEF UNIT_REGISTRY
<1>2. CASE u = "index"
  <2>1. UNIT_REGISTRY[u] = [dim |-> "dimensionless", scale |-> 0, h |-> "none"]
    BY <1>2 DEF UNIT_REGISTRY
  <2> QED
    BY <2>1, <1>2 DEF Units, Dims
<1>3. CASE u = "1e10 Msun/h"
  <2>1. UNIT_REGISTRY[u] = [dim |-> "mass", scale |-> 10, h |-> "carried"]
    BY <1>3 DEF UNIT_REGISTRY
  <2>2. UNIT_REGISTRY[u] \in Units /\ UNIT_REGISTRY[u].dim = "mass"
    BY <2>1 DEF Units, Dims
  <2> QED
    BY <2>2, <1>3
<1>4. CASE u = "Msun"
  <2>1. UNIT_REGISTRY[u] = [dim |-> "mass", scale |-> 0, h |-> "free"]
    BY <1>4 DEF UNIT_REGISTRY
  <2> QED
    BY <2>1, <1>4 DEF Units, Dims
<1>5. CASE u = "Mpc/h"
  <2>1. UNIT_REGISTRY[u] = [dim |-> "length", scale |-> 6, h |-> "carried"]
    BY <1>5 DEF UNIT_REGISTRY
  <2> QED
    BY <2>1, <1>5 DEF Units, Dims
<1>6. CASE u = "km/s"
  <2>1. UNIT_REGISTRY[u] = [dim |-> "velocity", scale |-> 0, h |-> "none"]
    BY <1>6 DEF UNIT_REGISTRY
  <2> QED
    BY <2>1, <1>6 DEF Units, Dims
<1>7. CASE u = "Myr"
  <2>1. UNIT_REGISTRY[u] = [dim |-> "time", scale |-> 6, h |-> "free"]
    BY <1>7 DEF UNIT_REGISTRY
  <2> QED
    BY <2>1, <1>7 DEF Units, Dims
<1>8. CASE u = "erg/s"
  <2>1. UNIT_REGISTRY[u] = [dim |-> "luminosity", scale |-> 0, h |-> "none"]
    BY <1>8 DEF UNIT_REGISTRY
  <2> QED
    BY <2>1, <1>8 DEF Units, Dims
<1> QED
  BY <1>1, <1>2, <1>3, <1>4, <1>5, <1>6, <1>7, <1>8

\* The reference unit of a dimension is a unit of it.
LEMMA ReferenceUnits ==
    /\ DOMAIN Reference = {"mass", "length", "velocity", "time"}
    /\ \A d \in DOMAIN Reference : Reference[d] \in Units /\ Reference[d].dim = d
<1>1. DOMAIN Reference = {"mass", "length", "velocity", "time"}
  BY DEF Reference
<1>2. Reference["mass"] = [dim |-> "mass", scale |-> 10, h |-> "carried"]
  BY DEF Reference, UNIT_REGISTRY
<1>3. Reference["length"] = [dim |-> "length", scale |-> 6, h |-> "carried"]
  BY DEF Reference, UNIT_REGISTRY
<1>4. Reference["velocity"] = [dim |-> "velocity", scale |-> 0, h |-> "none"]
  BY DEF Reference, UNIT_REGISTRY
<1>5. Reference["time"] = [dim |-> "time", scale |-> 6, h |-> "carried"]
  BY DEF Reference
<1>6. ASSUME NEW d \in DOMAIN Reference PROVE Reference[d] \in Units /\ Reference[d].dim = d
  <2>1. CASE d = "mass"
    BY <2>1, <1>2 DEF Units, Dims
  <2>2. CASE d = "length"
    BY <2>2, <1>3 DEF Units, Dims
  <2>3. CASE d = "velocity"
    BY <2>3, <1>4 DEF Units, Dims
  <2>4. CASE d = "time"
    BY <2>4, <1>5 DEF Units, Dims
  <2> QED
    BY <1>1, <2>1, <2>2, <2>3, <2>4
<1> QED
  BY <1>1, <1>6

\* A value multiplied by the factor of a conversion is in the target unit.
LEMMA ConversionsReachTheirUnit ==
    ASSUME NEW s \in Units, NEW t \in Units, Convertible(s, t)
    PROVE  Times(s, Factor(s, t)) = t
<1> DEFINE c == Factor(s, t)
<1>1. c.scale = s.scale - t.scale /\ c.h = HFactor(t.h, s.h)
  BY DEF Factor
<1>2. /\ s = [dim |-> s.dim, scale |-> s.scale, h |-> s.h]
      /\ t = [dim |-> t.dim, scale |-> t.scale, h |-> t.h]
  BY DEF Units
<1>3. s.scale \in Int /\ t.scale \in Int
  BY DEF Units
<1>4. s.dim = t.dim
  BY DEF Convertible
<1>5. s.scale - c.scale = t.scale
  BY <1>1, <1>3
<1>6. (IF c.h = 0 THEN s.h ELSE IF c.h = 1 THEN
          (IF s.h = "free" THEN "carried" ELSE "too often")
       ELSE IF s.h = "carried" THEN "free" ELSE "too often") = t.h
  <2>1. CASE t.h = s.h
    BY <2>1, <1>1 DEF HFactor
  <2>2. CASE t.h # s.h
    <3>1. s.h \in {"carried", "free"} /\ t.h \in {"carried", "free"}
      BY <2>2 DEF Convertible, HDependent
    <3>2. CASE t.h = "carried"
      <4>1. c.h = 1 /\ s.h = "free"
        BY <2>2, <3>1, <3>2, <1>1 DEF HFactor
      <4> QED
        BY <4>1, <3>2
    <3>3. CASE t.h = "free"
      <4>1. c.h = -1 /\ s.h = "carried"
        BY <2>2, <3>1, <3>3, <1>1 DEF HFactor
      <4> QED
        BY <4>1, <3>3
    <3> QED
      BY <3>1, <3>2, <3>3
  <2> QED
    BY <2>1, <2>2
<1> HIDE DEF c
<1>7. Times(s, c) = [s EXCEPT !.scale = t.scale, !.h = t.h]
  <2>1. Times(s, c) = [s EXCEPT !.scale = s.scale - c.scale,
                  !.h = IF c.h = 0 THEN s.h ELSE IF c.h = 1 THEN
                           (IF s.h = "free" THEN "carried" ELSE "too often")
                        ELSE IF s.h = "carried" THEN "free" ELSE "too often"]
    BY Zenon DEF Times
  <2> QED
    BY <2>1, <1>5, <1>6
<1>8. Times(s, c) = [dim |-> t.dim, scale |-> t.scale, h |-> t.h]
  BY <1>7, <1>4 DEF Units
<1> QED
  BY <1>8, <1>2 DEF c

\* The factor one leaves a unit as it is.
LEMMA OneChangesNothing ==
    ASSUME NEW u \in Units
    PROVE  Times(u, One) = u
<1>1. u = [dim |-> u.dim, scale |-> u.scale, h |-> u.h] /\ u.scale \in Int
  BY DEF Units
<1>2. One.scale = 0 /\ One.h = 0
  BY DEF One
<1>3. u.scale - One.scale = u.scale
  BY <1>1, <1>2
<1>4. Times(u, One) = [u EXCEPT !.scale = u.scale, !.h = u.h]
  BY <1>2, <1>3 DEF Times, Units
<1> QED
  BY <1>1, <1>4 DEF Units

\* The internal unit of a property is of its dimension.
LEMMA InternalUnits ==
    ASSUME NEW p \in Property
    PROVE  /\ UnitOf(p) \in Units /\ InternalUnit(p) \in Units
           /\ InternalUnit(p).dim = UnitOf(p).dim
<1>1. UnitOf(p) \in Units
  BY RegistryUnits DEF UnitOf, Property
<1> QED
  BY <1>1, ReferenceUnits DEF InternalUnit

\* A value in the internal unit is written in the unit of the metadata.
LEMMA WrittenInItsUnit ==
    ASSUME NEW p \in Property, p.output, p.manual = "-", UnitOf(p).dim # "time",
           Converted(p) => Convertible(InternalUnit(p), UnitOf(p))
    PROVE  Times(InternalUnit(p), OutputFactor(p)) = UnitOf(p)
<1>1. CASE Converted(p)
  BY <1>1, InternalUnits, ConversionsReachTheirUnit DEF OutputFactor
<1>2. CASE ~Converted(p)
  <2>1. UnitOf(p).dim \notin DOMAIN Reference
    BY <1>2 DEF Converted
  <2>2. InternalUnit(p) = UnitOf(p) /\ OutputFactor(p) = One
    BY <2>1, <1>2 DEF InternalUnit, OutputFactor
  <2> QED
    BY <2>2, InternalUnits, OneChangesNothing
<1> QED
  BY <1>1, <1>2

-----------------------------------------------------------------------------
(* The record.                                                               *)

\* Typed metadata of a catalog with plain roles that the generator accepts.
Sound(met) ==
    /\ met.core \in Seq(Property) /\ met.catalog \in Seq(Property) /\ met.galaxy \in Seq(Property)
    /\ RolesArePlain(Range(met.catalog))
    /\ Accepted(met)

\* Every file of the record was made from met.
MadeOf(fs, met) ==
    /\ fs["property_defs.h"] = met /\ fs["tree_property_accessors.h"] = met
    /\ fs["copy_to_output.inc"] = met /\ fs["hdf5_field_count.inc"] = met
    /\ fs["hdf5_field_definitions.inc"] = met /\ fs["hdf5_field_metadata.inc"] = met
    /\ fs["output_schema_writer.inc"] = met /\ fs["property_ranges.json"] = met

\* The names of a list are as many as its properties.
LEMMA NamesOfList ==
    ASSUME NEW s \in Seq(Property)
    PROVE  /\ NamesOf(s) \in Seq(STRING) /\ Len(NamesOf(s)) = Len(s)
           /\ Range(NamesOf(s)) = NameSet(s)
           /\ DOMAIN NamesOf(s) = DOMAIN s
           /\ \A i \in DOMAIN s : NamesOf(s)[i] = s[i].name
<1>1. DOMAIN s = 1 .. Len(s) /\ Len(s) \in Nat /\ \A i \in 1 .. Len(s) : s[i] \in Property
  BY ElementOfSeq
<1>2. NamesOf(s) = [i \in 1 .. Len(s) |-> s[i].name]
  BY <1>1 DEF NamesOf
<1>3. \A i \in 1 .. Len(s) : s[i].name \in STRING
  BY <1>1 DEF Property
<1>4. NamesOf(s) \in [1 .. Len(s) -> STRING]
  BY <1>2, <1>3
<1>5. NamesOf(s) \in Seq(STRING) /\ Len(NamesOf(s)) = Len(s)
  BY <1>1, <1>4
<1>6. DOMAIN NamesOf(s) = 1 .. Len(s) /\ \A i \in 1 .. Len(s) : NamesOf(s)[i] = s[i].name
  BY <1>2
<1>7. Range(NamesOf(s)) = NameSet(s)
  <2>1. ASSUME NEW x \in Range(NamesOf(s)) PROVE x \in NameSet(s)
    <3>1. PICK i \in 1 .. Len(s) : x = s[i].name
      BY <1>6 DEF Range
    <3>2. s[i] \in Range(s)
      BY <1>1 DEF Range
    <3> QED
      BY <3>1, <3>2 DEF NameSet
  <2>2. ASSUME NEW x \in NameSet(s) PROVE x \in Range(NamesOf(s))
    <3>1. PICK p \in Range(s) : x = p.name
      BY DEF NameSet
    <3>2. PICK i \in 1 .. Len(s) : p = s[i]
      BY <1>1 DEF Range
    <3> QED
      BY <3>1, <3>2, <1>6 DEF Range
  <2> QED
    BY <2>1, <2>2
<1> QED
  BY <1>1, <1>5, <1>6, <1>7

\* Two properties of a list without repeated names are one if their names are.
LEMMA NameTells ==
    ASSUME NEW s \in Seq(Property), NamesDiffer(s), NEW p \in Range(s), NEW q \in Range(s),
           p.name = q.name
    PROVE  p = q
<1>1. PICK i \in DOMAIN s : p = s[i]
  BY DEF Range
<1>2. PICK j \in DOMAIN s : q = s[j]
  BY DEF Range
<1> QED
  BY <1>1, <1>2 DEF NamesDiffer

\* Lists without a common name have no name twice when they are put together.
LEMMA JoinedNamesDiffer ==
    ASSUME NEW s \in Seq(Property), NEW t \in Seq(Property),
           NamesDiffer(s), NamesDiffer(t), NameSet(s) \cap NameSet(t) = {}
    PROVE  NamesDiffer(s \o t)
<1>1. /\ Len(s) \in Nat /\ Len(t) \in Nat /\ DOMAIN s = 1 .. Len(s) /\ DOMAIN t = 1 .. Len(t)
      /\ DOMAIN (s \o t) = 1 .. Len(s) + Len(t)
  OBVIOUS
<1>2. \A i \in 1 .. Len(s) : (s \o t)[i] = s[i] /\ s[i].name \in NameSet(s)
  <2>1. \A i \in 1 .. Len(s) : (s \o t)[i] = s[i]
    OBVIOUS
  <2>2. \A i \in 1 .. Len(s) : s[i].name \in NameSet(s)
    BY <1>1 DEF NameSet, Range
  <2> QED
    BY <2>1, <2>2
<1>3. \A i \in 1 .. Len(s) + Len(t) : i \notin 1 .. Len(s) =>
          /\ i - Len(s) \in 1 .. Len(t) /\ (s \o t)[i] = t[i - Len(s)]
          /\ t[i - Len(s)].name \in NameSet(t)
  <2>1. ASSUME NEW i \in 1 .. Len(s) + Len(t), i \notin 1 .. Len(s)
        PROVE  i - Len(s) \in 1 .. Len(t) /\ (s \o t)[i] = t[i - Len(s)]
    <3>1. i \in Int /\ i > Len(s) /\ i <= Len(s) + Len(t)
      BY <1>1, <2>1
    <3> QED
      BY <3>1, <1>1
  <2>2. \A k \in 1 .. Len(t) : t[k].name \in NameSet(t)
    BY <1>1 DEF NameSet, Range
  <2> QED
    BY <2>1, <2>2
<1>4. ASSUME NEW i \in 1 .. Len(s) + Len(t), NEW j \in 1 .. Len(s) + Len(t),
             (s \o t)[i].name = (s \o t)[j].name
      PROVE  i = j
  <2>1. CASE i \in 1 .. Len(s) /\ j \in 1 .. Len(s)
    BY <2>1, <1>1, <1>2, <1>4 DEF NamesDiffer
  <2>2. CASE i \notin 1 .. Len(s) /\ j \notin 1 .. Len(s)
    <3>1. i - Len(s) = j - Len(s)
      BY <2>2, <1>1, <1>3, <1>4 DEF NamesDiffer
    <3> QED
      BY <3>1, <1>1
  <2>3. CASE i \in 1 .. Len(s) /\ j \notin 1 .. Len(s)
    BY <2>3, <1>2, <1>3, <1>4
  <2>4. CASE i \notin 1 .. Len(s) /\ j \in 1 .. Len(s)
    BY <2>4, <1>2, <1>3, <1>4
  <2> QED
    BY <2>1, <2>2, <2>3, <2>4
<1> QED
  BY <1>1, <1>4 DEF NamesDiffer

\* What is written and what copy_to_output assigns, as sets.
LEMMA OutputsAre ==
    ASSUME NEW s \in Seq(Property)
    PROVE  Outputs(s) \in Seq(Property) /\ Range(Outputs(s)) = {p \in Range(s) : p.output}
<1>1. /\ Outputs(s) \in Seq(Property)
      /\ Range(Outputs(s)) = {s[k] : k \in {i \in DOMAIN s : s[i].output} \cap DOMAIN s}
  BY KeptProperties DEF Outputs
<1> QED
  BY <1>1 DEF Range

\* The fields copy_to_output assigns, and that it assigns each once.
LEMMA CopiedAre ==
    ASSUME NEW met, Sound(met)
    PROVE  /\ HaloCopied(met) \in Seq(Property) /\ NamesDiffer(HaloCopied(met))
           /\ Range(HaloCopied(met)) =
                  {p \in Range(HaloProps(met)) : /\ p.output
                      /\ Get(p.source, "copy_direct") \notin {"custom", "galaxy_property"}}
           /\ GalaxyCopied(met) \in Seq(Property) /\ NamesDiffer(GalaxyCopied(met))
           /\ Range(GalaxyCopied(met)) =
                  {p \in Range(GalaxyProps(met)) : /\ p.output
                      /\ Get(p.source, "galaxy_property") = "galaxy_property"}
<1> DEFINE H == HaloProps(met)
           G == GalaxyProps(met)
           I == {i \in DOMAIN H : H[i].output
                   /\ Get(H[i].source, "copy_direct") \notin {"custom", "galaxy_property"}}
           J == {i \in DOMAIN G : G[i].output
                   /\ Get(G[i].source, "galaxy_property") = "galaxy_property"}
<1>1. H \in Seq(Property) /\ NamesDiffer(H) /\ G \in Seq(Property) /\ NamesDiffer(G)
  BY MergedProperties DEF Sound
<1>2. HaloCopied(met) = Kept(H, I) /\ GalaxyCopied(met) = Kept(G, J)
  BY DEF HaloCopied, GalaxyCopied
<1>3. /\ \A i, j \in I \cap DOMAIN H : H[i].name = H[j].name => i = j
      /\ \A i, j \in J \cap DOMAIN G : G[i].name = G[j].name => i = j
  BY <1>1 DEF NamesDiffer
<1>4. /\ {H[k] : k \in I \cap DOMAIN H} =
             {p \in Range(H) : p.output
                 /\ Get(p.source, "copy_direct") \notin {"custom", "galaxy_property"}}
      /\ {G[k] : k \in J \cap DOMAIN G} =
             {p \in Range(G) : p.output
                 /\ Get(p.source, "galaxy_property") = "galaxy_property"}
  BY DEF Range
<1> HIDE DEF H, G, I, J
<1>5. /\ Kept(H, I) \in Seq(Property) /\ NamesDiffer(Kept(H, I))
      /\ Range(Kept(H, I)) = {H[k] : k \in I \cap DOMAIN H}
  BY <1>1, <1>3, KeptProperties, KeptNamesDiffer
<1>6. /\ Kept(G, J) \in Seq(Property) /\ NamesDiffer(Kept(G, J))
      /\ Range(Kept(G, J)) = {G[k] : k \in J \cap DOMAIN G}
  BY <1>1, <1>3, KeptProperties, KeptNamesDiffer
<1> QED
  BY <1>2, <1>4, <1>5, <1>6 DEF H, G

\* The table, its metadata, the schema and the manifest describe the record.
LEMMA RecordIsDescribed ==
    ASSUME NEW met, Sound(met), NEW fs, MadeOf(fs, met)
    PROVE  DescribesRecord(fs)
<1> DEFINE A == Outputs(HaloProps(met))
           B == Outputs(GalaxyProps(met))
<1>1. A \in Seq(Property) /\ B \in Seq(Property)
  BY MergedProperties, OutputsAre DEF Sound
<1>2. A \o B \in Seq(Property) /\ Len(A \o B) = Len(A) + Len(B)
  BY <1>1
<1>3. HaloOutputStruct(met) = A \o B /\ Hdf5Count(met) = Len(A) + Len(B)
  BY DEF HaloOutputStruct, Hdf5Count
<1>4. /\ Hdf5Definitions(met) = A \o B /\ Hdf5Metadata(met) = A \o B /\ SchemaFields(met) = A \o B
      /\ ManifestNames(met) = NameSet(A \o B)
  BY DEF Hdf5Definitions, Hdf5Metadata, SchemaFields, ManifestNames
<1>5. Len(NamesOf(A \o B)) = Len(A) + Len(B) /\ Range(NamesOf(A \o B)) = NameSet(A \o B)
  BY <1>2, NamesOfList
<1> HIDE DEF A, B
<1> QED
  BY <1>3, <1>4, <1>5 DEF DescribesRecord, MadeOf

\* Every field of the record is assigned once, apart from those left to others.
LEMMA RecordIsAssigned ==
    ASSUME NEW met, Sound(met), NEW fs, MadeOf(fs, met)
    PROVE  AssignsRecord(fs)
<1> DEFINE H == HaloProps(met)
           G == GalaxyProps(met)
           OH == Outputs(H)
           OG == Outputs(G)
           CH == HaloCopied(met)
           CG == GalaxyCopied(met)
           leftH == {q \in Range(OH) : q.source \in {"custom", "galaxy_property"}}
           leftG == {q \in Range(OG) : q.source \notin {"-", "galaxy_property"}}
           left == {p.name : p \in leftH} \cup {p.name : p \in leftG}
<1>1. /\ H \in Seq(Property) /\ NamesDiffer(H) /\ G \in Seq(Property) /\ NamesDiffer(G)
      /\ NameSet(H) \cap NameSet(G) = {}
  BY MergedProperties DEF Sound, Accepted
<1>2. /\ OH \in Seq(Property) /\ Range(OH) = {p \in Range(H) : p.output}
      /\ OG \in Seq(Property) /\ Range(OG) = {p \in Range(G) : p.output}
  BY <1>1, OutputsAre
<1>3. /\ CH \in Seq(Property) /\ NamesDiffer(CH) /\ CG \in Seq(Property) /\ NamesDiffer(CG)
      /\ Range(CH) = {p \in Range(H) : p.output
                         /\ Get(p.source, "copy_direct") \notin {"custom", "galaxy_property"}}
      /\ Range(CG) = {p \in Range(G) : p.output
                         /\ Get(p.source, "galaxy_property") = "galaxy_property"}
  BY CopiedAre
<1>4. HaloOutputStruct(met) = OH \o OG
  BY DEF HaloOutputStruct
<1> HIDE DEF H, G, OH, OG, CH, CG
<1>5. Range(CH) = Range(OH) \ leftH
  BY <1>2, <1>3 DEF Get
<1>6. Range(CG) = Range(OG) \ leftG
  BY <1>2, <1>3 DEF Get
<1>7. Range(OH \o OG) = Range(OH) \cup Range(OG) /\ Range(CH \o CG) = Range(CH) \cup Range(CG)
  BY <1>2, <1>3, RangeConcatenation
<1>8. ASSUME NEW p \in Range(H), NEW q \in Range(H), p.name = q.name PROVE p = q
  BY <1>1, <1>8, NameTells
<1>9. ASSUME NEW p \in Range(G), NEW q \in Range(G), p.name = q.name PROVE p = q
  BY <1>1, <1>9, NameTells
<1>10. ASSUME NEW p \in Range(H), NEW q \in Range(G) PROVE p.name # q.name
  BY <1>1 DEF NameSet
<1>11. ASSUME NEW n \in NameSet(CH \o CG) PROVE n \in NameSet(OH \o OG) \ left
  <2>1. PICK p \in Range(CH) \cup Range(CG) : n = p.name
    BY <1>7 DEF NameSet
  <2>2. p \in Range(OH \o OG)
    BY <1>5, <1>6, <1>7
  <2>3. n \in NameSet(OH \o OG)
    BY <2>1, <2>2 DEF NameSet
  <2>4. ASSUME NEW q \in leftH PROVE q.name # n
    <3>1. q \in Range(H) /\ q \notin Range(CH)
      BY <1>2, <1>5
    <3>2. CASE p \in Range(CH)
      <4>1. p \in Range(H)
        BY <3>2, <1>3
      <4> QED
        BY <3>1, <3>2, <4>1, <2>1, <1>8
    <3>3. CASE p \in Range(CG)
      <4>1. p \in Range(G)
        BY <3>3, <1>3
      <4> QED
        BY <3>1, <4>1, <2>1, <1>10
    <3> QED
      BY <3>2, <3>3
  <2>5. ASSUME NEW q \in leftG PROVE q.name # n
    <3>1. q \in Range(G) /\ q \notin Range(CG)
      BY <1>2, <1>6
    <3>2. CASE p \in Range(CH)
      <4>1. p \in Range(H)
        BY <3>2, <1>3
      <4> QED
        BY <3>1, <4>1, <2>1, <1>10
    <3>3. CASE p \in Range(CG)
      <4>1. p \in Range(G)
        BY <3>3, <1>3
      <4> QED
        BY <3>1, <3>3, <4>1, <2>1, <1>9
    <3> QED
      BY <3>2, <3>3
  <2>6. n \notin left
    BY <2>4, <2>5
  <2> QED
    BY <2>3, <2>6
<1>12. ASSUME NEW n \in NameSet(OH \o OG) \ left PROVE n \in NameSet(CH \o CG)
  <2>1. PICK p \in Range(OH) \cup Range(OG) : n = p.name
    BY <1>7 DEF NameSet
  <2>2. p \notin leftH /\ p \notin leftG
    BY <2>1, <1>12
  <2>3. p \in Range(CH \o CG)
    BY <2>1, <2>2, <1>5, <1>6, <1>7
  <2> QED
    BY <2>1, <2>3 DEF NameSet
<1>13. CH \o CG \in Seq(Property) /\ NamesDiffer(CH \o CG)
  <2>1. NameSet(CH) \cap NameSet(CG) = {}
    BY <1>3, <1>10 DEF NameSet
  <2> QED
    BY <2>1, <1>3, JoinedNamesDiffer
<1>14. /\ Range(NamesOf(CH \o CG)) = NameSet(CH \o CG)
       /\ \A i, j \in DOMAIN NamesOf(CH \o CG) :
              NamesOf(CH \o CG)[i] = NamesOf(CH \o CG)[j] => i = j
  BY <1>13, NamesOfList DEF NamesDiffer
<1>15. Range(NamesOf(CH \o CG)) = NameSet(HaloOutputStruct(met)) \ left
  BY <1>4, <1>11, <1>12, <1>14
<1> HIDE DEF left
<1>16. left = {p.name : p \in {q \in Range(Outputs(HaloProps(met))) :
                                   q.source \in {"custom", "galaxy_property"}}}
              \cup {p.name : p \in {q \in Range(Outputs(GalaxyProps(met))) :
                                   q.source \notin {"-", "galaxy_property"}}}
  BY DEF left, OH, OG, H, G
<1>17. /\ Range(NamesOf(HaloCopied(met) \o GalaxyCopied(met))) = NameSet(HaloOutputStruct(met)) \ left
       /\ \A i, j \in DOMAIN NamesOf(HaloCopied(met) \o GalaxyCopied(met)) :
              NamesOf(HaloCopied(met) \o GalaxyCopied(met))[i]
                  = NamesOf(HaloCopied(met) \o GalaxyCopied(met))[j] => i = j
  BY <1>14, <1>15 DEF CH, CG
<1>18. fs["property_defs.h"] = met /\ fs["copy_to_output.inc"] = met
  BY DEF MadeOf
<1> QED
  BY <1>16, <1>17, <1>18 DEF AssignsRecord

\* A role has one provider, and it is of the catalog.
LEMMA ProviderIsOwn ==
    ASSUME NEW met, Sound(met), NEW r \in Roles
    PROVE  /\ Provider(met, r) \in Range(met.catalog) /\ Provider(met, r) \in Property
           /\ Provider(met, r).role = r
           /\ \A f \in Range(met.catalog) : f.role = r => f = Provider(met, r)
<1> DEFINE C == met.catalog
           at_r == {i \in DOMAIN C : C[i].role = r}
<1>1. C \in Seq(Property) /\ DOMAIN C = 1 .. Len(C) /\ Len(C) \in Nat
  BY DEF Sound
<1>2. Cardinality(at_r) = 1
  BY DEF Sound, Accepted, ValidCatalog
<1>3. IsFiniteSet(at_r)
  <2>1. IsFiniteSet(1 .. Len(C))
    BY <1>1, FS_Interval
  <2> QED
    BY <1>1, <2>1, FS_Subset
<1>4. PICK k : at_r = {k}
  BY <1>2, <1>3, FS_Singleton
<1>5. k \in DOMAIN C /\ C[k].role = r
  BY <1>4
<1>6. ASSUME NEW f \in Range(C), f.role = r PROVE f = C[k]
  <2>1. PICK i \in DOMAIN C : f = C[i]
    BY DEF Range
  <2>2. i \in at_r
    BY <2>1, <1>6
  <2> QED
    BY <2>1, <2>2, <1>4
<1>7. C[k] \in Range(C) /\ C[k] \in Property
  BY <1>1, <1>5 DEF Range
<1>8. Provider(met, r) = CHOOSE f \in Range(C) : f.role = r
  BY DEF Provider
<1> HIDE DEF C
<1>9. Provider(met, r) = C[k]
  BY <1>5, <1>6, <1>7, <1>8
<1> QED
  BY <1>5, <1>6, <1>7, <1>9 DEF C

\* A copied property is stored in its internal unit, whatever the unit of the
\* catalog field it is read from.
LEMMA ReadInInternalUnit ==
    ASSUME NEW met, Sound(met), NEW p \in Range(HaloProps(met)), p.init \in FromTree
    PROVE  Times(UnitOf(GetterField(met, p.name)), GetterFactor(met, p.name)) = InternalUnit(p)
<1> DEFINE n == p.name
           H == HaloProps(met)
           f == CatalogSource(met, p)
<1>1. H \in Seq(Property) /\ NamesDiffer(H) /\ met.catalog \in Seq(Property)
  BY MergedProperties DEF Sound
<1>2. p \in Property
  BY <1>1, ElementOfSeq DEF Range
<1>3. Convertible(UnitOf(f), InternalUnit(p)) /\ n \in NameSet(met.catalog) \cup Roles
  BY DEF Sound, Accepted, ValidCopies
<1>4. InternalUnit(p) \in Units /\ InternalUnit(p).dim = UnitOf(p).dim /\ UnitOf(p) \in Units
  BY <1>2, InternalUnits
<1>5. f \in Range(met.catalog) /\ (n \in Roles => f = Provider(met, n))
  <2>1. CASE n \in NameSet(met.catalog)
    <3>1. f = CHOOSE gen \in Range(met.catalog) : gen.name = n
      BY <2>1 DEF CatalogSource
    <3>2. \E gen \in Range(met.catalog) : gen.name = n
      BY <2>1 DEF NameSet
    <3> HIDE DEF f
    <3>3. f \in Range(met.catalog) /\ f.name = n
      BY <3>1, <3>2
    <3>4. ASSUME n \in Roles PROVE f = Provider(met, n)
      <4>1. f.role = n
        BY <3>3, <3>4 DEF Sound, RolesArePlain
      <4> QED
        BY <3>3, <3>4, <4>1, ProviderIsOwn
    <3> QED
      BY <3>3, <3>4
  <2>2. CASE n \notin NameSet(met.catalog)
    <3>1. n \in Roles /\ f = Provider(met, n)
      BY <2>2, <1>3 DEF CatalogSource
    <3> QED
      BY <3>1, ProviderIsOwn
  <2> QED
    BY <2>1, <2>2
<1>6. f \in Property /\ UnitOf(f) \in Units
  <2>1. f \in Property
    BY <1>1, <1>5, ElementOfSeq DEF Range
  <2> QED
    BY <2>1, InternalUnits
<1> HIDE DEF f
<1>7. CASE n \notin Roles
  <2>1. \A q \in Range(H) : q.name = n => q = p
    BY <1>1, NameTells
  <2>2. (CHOOSE q \in Range(H) : q.name = n) = p
    BY <2>1
  <2>3. GetterField(met, n) = f
    BY <1>7, <2>2 DEF GetterField, f
  <2>4. GetterFactor(met, n) = Factor(UnitOf(f), InternalUnit(p))
    <3>1. n # "HaloMass"
      BY <1>7 DEF Roles
    <3> QED
      BY <1>7, <2>2, <3>1 DEF GetterFactor, f
  <2> QED
    BY <2>3, <2>4, <1>3, <1>4, <1>6, ConversionsReachTheirUnit
<1>8. CASE n = "HaloMass"
  <2>1. n \in Roles /\ f = Provider(met, n)
    BY <1>8, <1>5 DEF Roles
  <2>2. GetterField(met, n) = f /\ GetterFactor(met, n) = Factor(UnitOf(f), Reference["mass"])
    BY <1>8, <2>1 DEF GetterField, GetterFactor
  <2>3. Convertible(UnitOf(f), Reference["mass"])
    BY <1>8, <2>1 DEF Sound, Accepted, ValidCatalog
  <2>4. Reference["mass"] \in Units /\ Reference["mass"].dim = "mass" /\ "mass" \in DOMAIN Reference
    BY ReferenceUnits
  <2>5. UnitOf(p).dim = "mass"
    BY <2>3, <2>4, <1>3, <1>4 DEF Convertible
  <2>6. InternalUnit(p) = Reference["mass"]
    BY <2>4, <2>5 DEF InternalUnit
  <2> QED
    BY <2>2, <2>3, <2>4, <2>6, <1>6, ConversionsReachTheirUnit
<1>9. CASE n \in {"SnapNum", "Len"}
  <2>1. n \in Roles /\ f = Provider(met, n) /\ n # "HaloMass"
    BY <1>9, <1>5 DEF Roles
  <2>2. GetterField(met, n) = f /\ GetterFactor(met, n) = One
    BY <2>1 DEF GetterField, GetterFactor
  <2>3. f.role = n
    BY <2>1, ProviderIsOwn
  <2>4. f.units = "index"
    BY <2>3, <1>5, <1>9 DEF Sound, RolesArePlain
  <2>5. f.units \in DOMAIN UNIT_REGISTRY /\ p.units \in DOMAIN UNIT_REGISTRY
    BY <1>2, <1>6 DEF Property
  <2>6. UnitOf(f).dim = "dimensionless"
    BY <2>4, <2>5, RegistryUnits DEF UnitOf
  <2>7. UnitOf(p).dim = "dimensionless"
    BY <2>6, <1>3, <1>4 DEF Convertible
  <2>8. p.units = "index"
    BY <2>5, <2>7, RegistryUnits DEF UnitOf
  <2>9. UnitOf(f) = UnitOf(p)
    BY <2>4, <2>8 DEF UnitOf
  <2>10. InternalUnit(p) = UnitOf(p)
    BY <2>7, ReferenceUnits DEF InternalUnit
  <2>11. Times(UnitOf(p), One) = UnitOf(p)
    BY <1>4, OneChangesNothing
  <2> QED
    BY <2>2, <2>9, <2>10, <2>11
<1> QED
  BY <1>7, <1>8, <1>9 DEF Roles

\* What is copied to the output is in the unit of the metadata.
LEMMA UnitsAreKept ==
    ASSUME NEW met, Sound(met), NEW fs, MadeOf(fs, met)
    PROVE  KeepsUnits(fs)
<1> DEFINE Stored(p) == IF p.init \in FromTree
                      THEN Times(UnitOf(GetterField(met, p.name)), GetterFactor(met, p.name))
                      ELSE InternalUnit(p)
           WrittenIn(p, stored) == p.manual = "-" /\ UnitOf(p).dim # "time" =>
                                     Times(stored, OutputFactor(p)) = UnitOf(p)
<1>1. /\ HaloProps(met) \in Seq(Property) /\ GalaxyProps(met) \in Seq(Property)
      /\ ValidOutputs(HaloProps(met)) /\ ValidOutputs(GalaxyProps(met))
  BY MergedProperties DEF Sound, Accepted
<1>2. ASSUME NEW p \in Range(HaloCopied(met)) PROVE WrittenIn(p, Stored(p))
  <2>1. p \in Range(HaloProps(met)) /\ p.output
    BY CopiedAre
  <2>2. p \in Property
    BY <1>1, <2>1, ElementOfSeq DEF Range
  <2>3. Stored(p) = InternalUnit(p)
    BY <2>1, ReadInInternalUnit
  <2>4. Converted(p) => Convertible(InternalUnit(p), UnitOf(p))
    BY <1>1, <2>1 DEF ValidOutputs
  <2>5. WrittenIn(p, InternalUnit(p))
    BY <2>1, <2>2, <2>4, WrittenInItsUnit
  <2> HIDE DEF Stored, WrittenIn
  <2> QED
    BY <2>3, <2>5
<1>3. ASSUME NEW p \in Range(GalaxyCopied(met)) PROVE WrittenIn(p, InternalUnit(p))
  <2>1. p \in Range(GalaxyProps(met)) /\ p.output
    BY CopiedAre
  <2>2. p \in Property
    BY <1>1, <2>1, ElementOfSeq DEF Range
  <2>3. Converted(p) => Convertible(InternalUnit(p), UnitOf(p))
    BY <1>1, <2>1 DEF ValidOutputs
  <2> QED
    BY <2>1, <2>2, <2>3, WrittenInItsUnit
<1>4. fs["tree_property_accessors.h"] = met /\ fs["copy_to_output.inc"] = met
  BY DEF MadeOf
<1> QED
  BY <1>2, <1>3, <1>4 DEF KeepsUnits
\* Metadata that generator "properties" found valid is sound.
LEMMA ValidatedIsSound ==
    ASSUME NEW met \in PropertyInput, Validated("properties", met)
    PROVE  Sound(Metadata(met))
  BY MetadataIsTyped DEF Sound, Validated

\* The files the record is described by are files of the property generator.
LEMMA RecordFiles ==
    {"property_defs.h", "tree_property_accessors.h", "copy_to_output.inc",
     "hdf5_field_count.inc", "hdf5_field_definitions.inc", "hdf5_field_metadata.inc",
     "output_schema_writer.inc", "property_ranges.json"} \subseteq Range(PropertyFiles)
<1>1. /\ PropertyFiles[1] = "property_defs.h" /\ PropertyFiles[5] = "tree_property_accessors.h"
      /\ PropertyFiles[10] = "copy_to_output.inc" /\ PropertyFiles[11] = "hdf5_field_count.inc"
      /\ PropertyFiles[12] = "hdf5_field_definitions.inc"
      /\ PropertyFiles[13] = "hdf5_field_metadata.inc"
      /\ PropertyFiles[14] = "output_schema_writer.inc"
      /\ PropertyFiles[15] = "property_ranges.json"
  BY DEF PropertyFiles
<1>2. \A j \in 1 .. 15 : PropertyFiles[j] \in Range(PropertyFiles)
  BY FilesApart
<1> QED
  BY <1>1, <1>2

\* The files of one generation are all of its metadata, and that was accepted.
LEMMA InvGivesRecord == MakeInv => RecordAgrees
<1> SUFFICES ASSUME MakeInv, at = "built", ~torn["properties"]
             PROVE  /\ DescribesRecord(PropertySources)
                    /\ AssignsRecord(PropertySources)
                    /\ KeepsUnits(PropertySources)
  BY DEF RecordAgrees
<1>1. saved["properties"] # None
  BY DEF MakeInv, HashesAreSaved, Matches
<1>2. OneGeneration("properties")
  BY <1>1 DEF MakeInv, FilesBelong, Untouched, Generators
<1>3. PICK met \in PropertyInput, h \in PropertyInput :
          Validated("properties", met) /\ Generation("properties", met, h)
  BY <1>2 DEF OneGeneration, InputsOf
<1>4. \A f \in Range(PropertyFiles) : file[f].from = met
  BY <1>3, GeneratorsFiles DEF Generation
<1>5. \A f \in Range(PropertyFiles) : PropertySources[f] = Metadata(met)
  BY <1>4 DEF PropertySources
<1>6. MadeOf(PropertySources, Metadata(met))
  BY <1>5, RecordFiles DEF MadeOf
<1> QED
  BY <1>3, <1>6, ValidatedIsSound, RecordIsDescribed, RecordIsAssigned, UnitsAreKept

-----------------------------------------------------------------------------
\* Whatever was selected, edited, killed and built before, make builds with generated
\* files of the selection and its metadata, unless the last generation was not
\* finished or an edit raced it: equal hashes mean equal files, the smart generators'
\* reason to write nothing.
THEOREM BuildsAreSelected == MakeSpec => []BuildIsSelected
  BY MakeInvHolds, InvGivesBuild, PTL

\* A passing make check-generated vouches for the files it reads, and for finished
\* generations of the production build it does pass, though it computes both hashes
\* with code of its own, provided the modules are called what they are on disk.
THEOREM ChecksAreHonest == MakeSpec => []CheckIsHonest
<1>1. MakeInv => CheckIsHonest
  BY InvGivesPassed, InvGivesFailed DEF CheckIsHonest
<1> QED
  BY <1>1, MakeInvHolds, PTL

\* The numbers of event_contracts.h and module_init.c connect each registered
\* consumer with exactly the events its metadata subscribes to.
THEOREM EventsAreHeardAsDeclared == MakeSpec => []HeardAsDeclared
  BY MakeInvHolds, InvGivesHeard, PTL
\* In a build from finished generations the record on disk, the HDF5 table, the
\* schema and the manifest agree, every field is assigned once, and its values are
\* in the unit the metadata declares, whatever the catalog has: what the generator
\* validates is enough for what its templates write.
THEOREM RecordsAgree == MakeSpec => []RecordAgrees
  BY MakeInvHolds, InvGivesRecord, PTL
=============================================================================
