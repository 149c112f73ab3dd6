-------------------------- MODULE MC_GeneratedCode --------------------------
(* Two models of which one is a copy of the other, one without modules, two *)
(* simulations, and edits that add one property or one module.              *)
EXTENDS GeneratedCode

MCProperty(name, type, units) ==
    [name |-> name, type |-> type, units |-> units, role |-> "-", output |-> TRUE,
     init |-> "-", source |-> "-", given |-> {}, repeat |-> FALSE, range |-> "-",
     manual |-> "-"]
Default(p) == [p EXCEPT !.init = "default", !.given = {"init_value"}]
Provides(p, role) == [p EXCEPT !.role = role, !.output = FALSE]

MCCore ==
    << [MCProperty("SnapNum", "int", "index") EXCEPT !.init = "copy_from_tree",
                                                   !.source = "copy_direct"],
       [MCProperty("CentralHalo", "int", "index") EXCEPT !.init = "skip", !.output = FALSE],
       [MCProperty("Mvir", "float", "1e10 Msun/h") EXCEPT !.init = "calculate",
           !.source = "recalculate", !.given = {"init_function", "output_function"}],
       [Default(MCProperty("dT", "float", "Myr")) EXCEPT !.manual = "convert"] >>

Catalog(mass, length) ==
    << Provides(MCProperty("SnapNum", "int", "index"), "SnapNum"),
       Provides(MCProperty("Np", "int", "index"), "Len"),
       Provides(MCProperty("Mass", "float", mass), "HaloMass"),
       [MCProperty("Pos", "vec3_float", length) EXCEPT !.init = "copy_from_tree_array",
                                                    !.source = "copy_direct_array"] >>
Vel == [MCProperty("Vel", "vec3_float", "km/s") EXCEPT !.init = "copy_from_tree_array",
                                                    !.source = "copy_direct_array"]
MCCatalogOf == [s \in {"mini", "uchuu"} |->
                   IF s = "mini" THEN Catalog("1e10 Msun/h", "Mpc/h")
                   ELSE Catalog("Msun", "Mpc/h") \o <<Vel>>]

MCGalaxyOf == [m \in {"sage", "twin", "bare"} |->
    IF m = "bare" THEN << >> ELSE
    << Default(MCProperty("StellarMass", "float", "Msun")),
       [Default(MCProperty("Sfr", "float", "erg/s")) EXCEPT !.repeat = TRUE] >>]
MCParamsOf == [m \in {"sage", "twin", "bare"} |-> IF m = "sage" THEN {"Msun"} ELSE {}]

MCModule(name, dir, modes, emits, consumes) ==
    [name |-> name, dir |-> dir, stem |-> name, pattern |-> "directory",
     utility |-> FALSE, modes |-> modes, emits |-> emits, consumes |-> consumes,
     props |-> {"StellarMass"}, sources |-> << >>, exist |-> TRUE]
Full  == <<"process_full_halo">>
Event == <<"process_per_event">>
Sage(dir) ==
    { [MCModule("shared", dir, << >>, << >>, << >>) EXCEPT !.utility = TRUE],
       MCModule("cool", dir, Event, << >>, << <<"merge", "major">>, <<"merge", "minor">> >>),
       Standalone("dust", dir),
       MCModule("merge", dir, Full, <<"minor", "major">>, << >>) }
MCModulesOf == [m \in {"sage", "twin", "bare"} |-> IF m = "bare" THEN {} ELSE Sage(m)]
MCModuleNames == <<"agn", "alpha", "cool", "dust", "merge", "shared", "tester", "zap">>

MCTestProperties == << [Default(MCProperty("TestDummy", "float", "index")) EXCEPT !.output = TRUE] >>
MCTestModules ==
    { [MCModule("tester", "src", Full, <<"ping">>, << >>) EXCEPT !.props = {"TestDummy"}],
       MCModule("alpha", "src", Event, << >>, << <<"tester", "ping">> >>) }

MCSelections ==
    {[model |-> "sage", sim |-> "mini", test |-> FALSE],
     [model |-> "sage", sim |-> "mini", test |-> TRUE],
     [model |-> "sage", sim |-> "uchuu", test |-> FALSE],
     [model |-> "twin", sim |-> "mini", test |-> FALSE],
     [model |-> "bare", sim |-> "mini", test |-> FALSE]}

Galaxy(p) == [category |-> "galaxy", property |-> p]
Halo(p)   == [category |-> "halo", property |-> p]
Mass  == Default(MCProperty("Extra", "float", "Msun"))
Copied(t, u, s) == [MCProperty("Extra", t, u) EXCEPT !.init = "copy_from_tree", !.source = s]
Vector(u) == [MCProperty("Extra", "vec3_float", u) EXCEPT !.init = "copy_from_tree_array",
                                                       !.source = "copy_direct_array"]
MCPropertyEdits ==
    << Galaxy(Mass),
       Galaxy([Mass EXCEPT !.units = "erg/s", !.range = "reversed"]),
       Galaxy([Mass EXCEPT !.source = "copy_direct"]),
       Galaxy([Mass EXCEPT !.output = FALSE, !.repeat = TRUE]),
       Galaxy([Mass EXCEPT !.type = "vec3_float"]),
       Galaxy([Mass EXCEPT !.given = {}]),
       Halo(Copied("float", "Msun", "copy_direct")),
       Halo(Copied("float", "1e10 Msun/h", "custom")),
       Halo(Copied("float", "km/s", "copy_direct_array")),
       Halo(Vector("km/s")),
       Halo(MCProperty("Extra", "double", "index")) >>
MCModuleEdits ==
    << MCModule("agn", "sage", Full, <<"major">>, << >>),
       MCModule("zap", "sage", <<"process_full_halo", "process_per_event">>, <<"blow">>,
              << <<"zap", "blow">>, <<"merge", "minor">> >>),
       [MCModule("agn", "sage", Full, <<"major">>, << >>) EXCEPT !.utility = TRUE,
                                                                !.stem = "zap"],
       MCModule("zap", "sage", Event, << >>, << <<"merge", "none">> >>) >>
=============================================================================
