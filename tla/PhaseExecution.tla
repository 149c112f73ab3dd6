--------------------------- MODULE PhaseExecution ---------------------------
(***************************************************************************)
(* The engine that runs the configured physics over one FoF group:         *)
(* module_system_init()'s checks of the configuration, the phases of       *)
(* execute_module_pipeline(), and within a phase the three kinds of        *)
(* modules: full-halo modules, which may emit events; per-event modules,   *)
(* which are called on events while their producer is still running; and   *)
(* by-galaxy modules.  A module itself is a black box: it may emit,        *)
(* consume galaxies (Type 3), succeed or fail.  A refused emission changes *)
(* nothing, so it is no step.                                              *)
(***************************************************************************)
EXTENDS Integers, Sequences, SequencesExt

CONSTANTS Names,       \* the registered modules
          Registry,    \* what each of them declares
          Configs,     \* what a parameter file may configure
          NumSubsteps, \* ctx->num_substeps
          NumGals,     \* ngal of the group
          MaxEvents    \* MAX_PHASE_EVENTS

FullHalo == "full_halo"
PerEvent == "per_event"
ByGalaxy == "by_galaxy"
Modes == {FullHalo, PerEvent, ByGalaxy}

NoProducer == 0        \* module_id of a module that declares no events

\* module_id, the event ids it emits, the <<producer id, event id>> pairs it
\* subscribes to, and the processing modes it supports.
Declaration == [id    : Nat,
                emits : SUBSET (Nat \ {0}),
                subs  : SUBSET (Nat \X Nat),
                modes : SUBSET Modes]

\* One line of a phase in the parameter file.
Entry == [name : Names, mode : Modes]

ASSUME RegistryAssumption ==
    /\ Registry \in [Names -> Declaration]
    /\ \A n \in Names : Registry[n].emits # {} => Registry[n].id # NoProducer

\* The three parts of the pipeline: pre_timestep, phases, post_timestep.
ASSUME ConfigsAssumption ==
    Configs \subseteq [pre : Seq(Entry), phases : Seq(Seq(Entry)), post : Seq(Entry)]

ASSUME SizesAssumption ==
    NumSubsteps \in Nat /\ NumGals \in Nat \ {0} /\ MaxEvents \in Nat

Gals == 0 .. (NumGals - 1)

NoEvent == 0

VARIABLES pipeline,        \* the phases in execution order, substep after substep
          ph,              \* the phase that runs or runs next
          pc,              \* what the engine is doing
          m,               \* the entry of the phase it has come to
          g,               \* the galaxy it has come to
          events,          \* phase_event_state.events[0 .. event_count)
          lastDispatched,  \* last_dispatched_event
          cursor,          \* event_index of dispatch_events_range()
          consumer,        \* the entry that loop has come to
          activeEvent,     \* ctx->active_event, as a position in events
          emissionAllowed, \* emission_allowed
          prior,           \* prior_emission_allowed
          producer,        \* current_producer_module_id
          consumed,        \* galaxies with Type 3
          calls            \* history: the process() calls of this phase, as
                           \* the mode, the entry and what it was called on

dispatch == <<events, lastDispatched, cursor, consumer, activeEvent, prior>>
emission == <<emissionAllowed, producer>>
vars == <<pipeline, ph, pc, m, g, dispatch, emission, consumed, calls>>

\* execute_module_pipeline(): once before, the named phases in every substep,
\* once after.
PhasesInOrder(config) ==
    <<config.pre>> \o FlattenSeq([step \in 1 .. NumSubsteps |-> config.phases])
                   \o <<config.post>>

Phase == pipeline[ph]
Decl(k) == Registry[Phase[k].name]

\* A process() call of entry k, on an event, on a galaxy, or on the whole halo (0).
Call(mode, k, on) == [mode |-> mode, entry |-> k, on |-> on]

-----------------------------------------------------------------------------
(* module_system_init() *)

\* validate_phase_processing_modes()
ModesSupported(phase) ==
    \A k \in DOMAIN phase : phase[k].mode \in Registry[phase[k].name].modes

\* validate_event_subscriptions(): a per-event module subscribes to something,
\* and to producers that are full-halo modules of the same phase.
SubscriptionsResolved(phase) ==
    \A k \in DOMAIN phase : phase[k].mode = PerEvent =>
        /\ Registry[phase[k].name].subs # {}
        /\ \A s \in Registry[phase[k].name].subs :
              \E j \in DOMAIN phase : /\ phase[j].mode = FullHalo
                                      /\ Registry[phase[j].name].id = s[1]

Init == /\ pipeline \in {PhasesInOrder(config) : config \in Configs}
        /\ pc = "validate"
        /\ ph = 1 /\ m = 1 /\ g = 0
        /\ events = <<>> /\ lastDispatched = 0
        /\ cursor = 0 /\ consumer = 1 /\ activeEvent = NoEvent
        /\ prior = FALSE /\ emissionAllowed = FALSE /\ producer = NoProducer
        /\ consumed = {}
        /\ calls = <<>>

Accept ==
    /\ pc = "validate"
    /\ \A k \in DOMAIN pipeline :
          ModesSupported(pipeline[k]) /\ SubscriptionsResolved(pipeline[k])
    /\ pc' = "between"
    /\ UNCHANGED <<pipeline, ph, m, g, dispatch, emission, consumed, calls>>

Reject ==
    /\ pc = "validate"
    /\ \E k \in DOMAIN pipeline :
          ~(ModesSupported(pipeline[k]) /\ SubscriptionsResolved(pipeline[k]))
    /\ pc' = "rejected"
    /\ UNCHANGED <<pipeline, ph, m, g, dispatch, emission, consumed, calls>>

-----------------------------------------------------------------------------
(* execute_phase() and its event state *)

\* begin_phase_event_dispatch()
BeginPhase ==
    /\ pc = "between"
    /\ ph <= Len(pipeline)
    /\ Phase # <<>>
    /\ events' = <<>> /\ lastDispatched' = 0 /\ activeEvent' = NoEvent
    /\ emissionAllowed' = FALSE /\ producer' = NoProducer
    /\ calls' = <<>>
    /\ pc' = "full" /\ m' = 1 /\ g' = 0
    /\ UNCHANGED <<pipeline, ph, cursor, consumer, prior, consumed>>

\* A phase without modules returns at once.
SkipPhase ==
    /\ pc = "between"
    /\ ph <= Len(pipeline)
    /\ Phase = <<>>
    /\ ph' = ph + 1
    /\ UNCHANGED <<pipeline, pc, m, g, dispatch, emission, consumed, calls>>

\* Calls the full-halo module of entry m, with emission allowed.
CallFullHalo ==
    /\ pc = "full"
    /\ m <= Len(Phase)
    /\ Phase[m].mode = FullHalo
    /\ activeEvent' = NoEvent
    /\ producer' = Decl(m).id
    /\ emissionAllowed' = TRUE
    /\ calls' = Append(calls, Call(FullHalo, m, 0))
    /\ pc' = "in_full"
    /\ UNCHANGED <<pipeline, ph, m, g, events, lastDispatched, cursor, consumer, prior, consumed>>

NotFullHalo ==
    /\ pc = "full"
    /\ m <= Len(Phase)
    /\ Phase[m].mode # FullHalo
    /\ m' = m + 1
    /\ UNCHANGED <<pipeline, ph, pc, g, dispatch, emission, consumed, calls>>

\* The emission_allowed test.
Emitting == pc \in {"in_full", "in_event", "in_galaxy"} /\ emissionAllowed

BufferFull == Len(events) >= MaxEvents

\* module_emit_event() that is not refused: the event is queued, and the
\* consumers are called before the producer goes on.
Emit ==
    /\ Emitting
    /\ producer # NoProducer
    /\ ~BufferFull
    /\ \E n \in Names : \E id \in Registry[n].emits : \E target \in Gals :
          /\ Registry[n].id = producer
          /\ events' = Append(events, [producer |-> producer, id |-> id, target |-> target])
    /\ cursor' = Len(events) + 1 /\ consumer' = 1
    /\ prior' = emissionAllowed /\ emissionAllowed' = FALSE
    /\ pc' = "dispatch"
    /\ UNCHANGED <<pipeline, ph, m, g, lastDispatched, activeEvent, producer, consumed, calls>>

\* A mistake: the event id is compared and the producer is not.
SubscribedToId(phase, k, e) ==
    /\ phase[k].mode = PerEvent
    /\ \E s \in Registry[phase[k].name].subs : s[2] = e.id

Subscribed(phase, k, e) ==
    /\ phase[k].mode = PerEvent
    /\ <<e.producer, e.id>> \in Registry[phase[k].name].subs

\* dispatch_events_range(): entry by entry, event by event.
Dispatching == /\ pc = "dispatch"
               /\ UNCHANGED <<pipeline, ph, m, g, events, prior, producer, consumed>>

CallConsumer ==
    /\ Dispatching
    /\ cursor <= Len(events) /\ consumer <= Len(Phase)
    /\ Subscribed(Phase, consumer, events[cursor])
    /\ activeEvent' = cursor
    /\ calls' = Append(calls, Call(PerEvent, consumer, cursor))
    /\ pc' = "in_event"
    /\ UNCHANGED <<lastDispatched, cursor, consumer, emissionAllowed>>

NotSubscribed ==
    /\ Dispatching
    /\ cursor <= Len(events) /\ consumer <= Len(Phase)
    /\ ~Subscribed(Phase, consumer, events[cursor])
    /\ consumer' = consumer + 1
    /\ UNCHANGED <<pc, lastDispatched, cursor, activeEvent, emissionAllowed, calls>>

NextEvent ==
    /\ Dispatching
    /\ cursor <= Len(events) /\ consumer > Len(Phase)
    /\ activeEvent' = NoEvent
    /\ cursor' = cursor + 1 /\ consumer' = 1
    /\ UNCHANGED <<pc, lastDispatched, emissionAllowed, calls>>

\* A mistake: what was dispatched is not remembered.
EndDispatchForgets ==
    /\ Dispatching
    /\ cursor > Len(events)
    /\ emissionAllowed' = prior
    /\ pc' = IF producer = NoProducer THEN "full" ELSE "in_full"
    /\ UNCHANGED <<lastDispatched, cursor, consumer, activeEvent, calls>>

\* Back to module_emit_event(), or to execute_phase() after the safety dispatch.
EndDispatch ==
    /\ Dispatching
    /\ cursor > Len(events)
    /\ emissionAllowed' = prior
    /\ lastDispatched' = Len(events)
    /\ pc' = IF producer = NoProducer THEN "full" ELSE "in_full"
    /\ UNCHANGED <<cursor, consumer, activeEvent, calls>>

ConsumerReturns ==
    /\ pc = "in_event"
    /\ consumer' = consumer + 1
    /\ pc' = "dispatch"
    /\ UNCHANGED <<pipeline, ph, m, g, events, lastDispatched, cursor, activeEvent, prior,
                   emission, consumed, calls>>

\* A full-halo module turns a galaxy into a Type 3 object.
Consume ==
    /\ pc = "in_full"
    /\ \E dead \in Gals \ consumed : consumed' = consumed \cup {dead}
    /\ UNCHANGED <<pipeline, ph, pc, m, g, dispatch, emission, calls>>

\* After the module, events that were queued and not dispatched yet.
FullHaloReturns ==
    /\ pc = "in_full"
    /\ emissionAllowed' = FALSE /\ producer' = NoProducer
    /\ m' = m + 1
    /\ IF lastDispatched < Len(events)
         THEN /\ pc' = "dispatch"
              /\ cursor' = lastDispatched + 1 /\ consumer' = 1 /\ prior' = FALSE
         ELSE pc' = "full" /\ UNCHANGED <<cursor, consumer, prior>>
    /\ UNCHANGED <<pipeline, ph, g, events, lastDispatched, activeEvent, consumed, calls>>

\* process() returned an error: FATAL_ERROR.
ModuleFails ==
    /\ pc \in {"in_full", "in_event", "in_galaxy"}
    /\ pc' = "fatal"
    /\ UNCHANGED <<pipeline, ph, m, g, dispatch, emission, consumed, calls>>

StartGalaxies ==
    /\ pc = "full"
    /\ m > Len(Phase)
    /\ pc' = "galaxies" /\ g' = 0 /\ m' = 1
    /\ UNCHANGED <<pipeline, ph, dispatch, emission, consumed, calls>>

\* Type 3 objects are not evolved.
Evolves(k) == k \notin consumed

GalaxyLoop == /\ pc = "galaxies"
              /\ UNCHANGED <<pipeline, ph, events, lastDispatched, cursor, consumer, prior,
                             emission, consumed>>

CallByGalaxy ==
    /\ GalaxyLoop
    /\ g < NumGals /\ Evolves(g) /\ m <= Len(Phase)
    /\ Phase[m].mode = ByGalaxy
    /\ activeEvent' = NoEvent
    /\ calls' = Append(calls, Call(ByGalaxy, m, g))
    /\ pc' = "in_galaxy"
    /\ UNCHANGED <<m, g>>

NotByGalaxy ==
    /\ GalaxyLoop
    /\ g < NumGals /\ Evolves(g) /\ m <= Len(Phase)
    /\ Phase[m].mode # ByGalaxy
    /\ m' = m + 1
    /\ UNCHANGED <<pc, g, activeEvent, calls>>

NextGalaxy ==
    /\ GalaxyLoop
    /\ g < NumGals
    /\ Evolves(g) => m > Len(Phase)
    /\ g' = g + 1 /\ m' = 1
    /\ UNCHANGED <<pc, activeEvent, calls>>

ByGalaxyReturns ==
    /\ pc = "in_galaxy"
    /\ m' = m + 1
    /\ pc' = "galaxies"
    /\ UNCHANGED <<pipeline, ph, g, dispatch, emission, consumed, calls>>

\* end_phase_event_dispatch()
EndPhase ==
    /\ pc = "galaxies"
    /\ g = NumGals
    /\ events' = <<>> /\ lastDispatched' = 0 /\ activeEvent' = NoEvent
    /\ emissionAllowed' = FALSE /\ producer' = NoProducer
    /\ pc' = "between" /\ ph' = ph + 1
    /\ UNCHANGED <<pipeline, m, g, cursor, consumer, prior, consumed, calls>>

-----------------------------------------------------------------------------
Next == \/ Accept \/ Reject
        \/ BeginPhase \/ SkipPhase \/ EndPhase
        \/ CallFullHalo \/ NotFullHalo \/ FullHaloReturns \/ Consume
        \/ Emit \/ CallConsumer \/ NotSubscribed \/ NextEvent \/ EndDispatch
        \/ ConsumerReturns
        \/ StartGalaxies \/ CallByGalaxy \/ NotByGalaxy \/ NextGalaxy \/ ByGalaxyReturns
        \/ ModuleFails

Spec == Init /\ [][Next]_vars

Event == [producer : Nat \ {NoProducer}, id : Nat \ {0}, target : Gals]

\* The shape of the state, the buffer within its bound.
TypeOK ==
    /\ pc \in {"validate", "rejected", "between", "full", "in_full", "dispatch",
               "in_event", "galaxies", "in_galaxy", "fatal"}
    /\ ph \in 1 .. Len(pipeline) + 1
    /\ m \in Nat \ {0} /\ g \in 0 .. NumGals
    /\ events \in Seq(Event) /\ Len(events) <= MaxEvents
    /\ lastDispatched \in 0 .. Len(events)
    /\ cursor \in Nat /\ consumer \in Nat \ {0}
    /\ activeEvent \in 0 .. Len(events)
    /\ prior \in BOOLEAN /\ emissionAllowed \in BOOLEAN /\ producer \in Nat
    /\ consumed \subseteq Gals

-----------------------------------------------------------------------------
(* What a module may rely on. *)

\* A producer goes on only when everybody has heard all it said: at no time
\* does a full-halo module run with an event still waiting, so the "safety
\* dispatch" after it finds nothing (module_registry.c:806, 860).
HeardBeforeGoingOn == pc \in {"in_full", "full"} => lastDispatched = Len(events)

\* A module sees an active event exactly when it is called for that event:
\* modules with two modes tell them apart by it (sage_quasar_mode.c,
\* docs/DEVELOPER-GUIDE.md:373).
ActiveEventIsOwn ==
    /\ pc = "in_event" => /\ activeEvent \in DOMAIN events
                          /\ <<events[activeEvent].producer, events[activeEvent].id>>
                                \in Decl(consumer).subs
    /\ pc \in {"in_full", "in_galaxy", "between"} => activeEvent = NoEvent

\* Events are heard in turn: nothing waits when its producer goes on, nothing is
\* heard by a call it is not for, and the buffer keeps within its bound.
EventsInTurn == TypeOK /\ HeardBeforeGoingOn /\ ActiveEventIsOwn

\* A phase owes entry k this call: a full-halo module is called once, a per-event
\* module on each event it subscribes to, a by-galaxy module on each galaxy that
\* was not consumed.
Owed(mode, k, on) ==
    /\ k \in DOMAIN Phase /\ Phase[k].mode = mode
    /\ mode = FullHalo => on = 0
    /\ mode = PerEvent => /\ on \in DOMAIN events
                          /\ <<events[on].producer, events[on].id>> \in Decl(k).subs
    /\ mode = ByGalaxy => on \in Gals \ consumed

PromisedCalls ==
    {c \in [mode : Modes, entry : DOMAIN Phase, on : Gals \cup 0 .. Len(events)] :
        Owed(c.mode, c.entry, c.on)}

\* By-galaxy modules come last; of two calls of one kind the one on the earlier
\* event or galaxy comes first, and on the same the one earlier in the file.
ComesBefore(c, d) ==
    /\ c.mode = ByGalaxy => d.mode = ByGalaxy
    /\ c.mode = d.mode => c.on < d.on \/ (c.on = d.on /\ c.entry < d.entry)

CallsInOrder ==
    \A i, j \in DOMAIN calls : i < j => ComesBefore(calls[i], calls[j])

\* Call j is on an event: the last full-halo module that was called before it is
\* the one that emitted the event.
AfterProducer(j) ==
    \E i \in 1 .. (j - 1) :
        /\ calls[i].mode = FullHalo
        /\ Decl(calls[i].entry).id = events[calls[j].on].producer
        /\ \A l \in (i + 1) .. j : calls[l].mode = PerEvent

HeardAtOnce == \A j \in DOMAIN calls : calls[j].mode = PerEvent => AfterProducer(j)

\* The calls of a whole phase as docs/DEVELOPER-GUIDE.md:391 promises them:
\* full-halo modules in file order, each followed by its events in the order of
\* emission, each event to its subscribers in file order; then galaxy by galaxy
\* the by-galaxy modules in file order, consumed galaxies left out; each call
\* once and no other.
CallsAsPromised ==
    pc = "galaxies" /\ g = NumGals =>
        ToSet(calls) = PromisedCalls /\ CallsInOrder /\ HeardAtOnce
=============================================================================
