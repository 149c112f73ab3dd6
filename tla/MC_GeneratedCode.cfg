SPECIFICATION MakeSpec
CONSTANTS
    None = None
    EditedModel = "sage"
    EditedSim = "mini"
    MaxCommands = 3
    MaxChanges = 2
    MaxFaults = 1
    ModuleNames <- MCModuleNames
    Core <- MCCore
    CatalogOf <- MCCatalogOf
    GalaxyOf <- MCGalaxyOf
    ParamsOf <- MCParamsOf
    ModulesOf <- MCModulesOf
    TestProperties <- MCTestProperties
    TestModules <- MCTestModules
    Selections <- MCSelections
    PropertyEdits <- MCPropertyEdits
    ModuleEdits <- MCModuleEdits
INVARIANTS
    BuildIsSelected
    RecordAgrees
    HeardAsDeclared
    CheckIsHonest
CHECK_DEADLOCK FALSE
