------------------------- MODULE MC_PhaseExecution --------------------------
(***************************************************************************)
(* Model values for PhaseExecution: a producer of two events, a module     *)
(* that produces one and also listens, and a module that only listens and  *)
(* works by galaxy; every phase of up to MaxEntries entries of them.       *)
(***************************************************************************)
EXTENDS PhaseExecution

CONSTANT MaxEntries

MCNames == {"resolver", "trigger", "response"}

MCRegistry ==
    [n \in MCNames |->
        CASE n = "resolver" -> [id |-> 1, emits |-> {1, 2}, subs |-> {}, modes |-> {FullHalo}]
          [] n = "trigger"  -> [id |-> 2, emits |-> {1}, subs |-> {<<1, 1>>}, modes |-> Modes]
          [] n = "response" -> [id |-> NoProducer, emits |-> {}, subs |-> {<<1, 2>>, <<2, 1>>},
                                modes |-> {PerEvent, ByGalaxy}]]

\* No module twice in one mode.
MCPhases ==
    {phase \in BoundedSeq(Entry, MaxEntries) :
        \A j, k \in DOMAIN phase : phase[j] = phase[k] => j = k}

Quiet == <<[name |-> "response", mode |-> ByGalaxy]>>

MCConfigs == [pre : {<<>>}, phases : {<<phase>> : phase \in MCPhases}, post : {Quiet}]
=============================================================================
