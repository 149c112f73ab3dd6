--------------------------- MODULE PropertySchema ---------------------------
(***************************************************************************)
(* What scripts/generate_properties.py makes of the property metadata of a *)
(* selection: which metadata it refuses, and the declarations and          *)
(* statements of the C files it writes.  Metadata is a record              *)
(*   [core, catalog, galaxy : sequences of properties, params : units],    *)
(* a generated file is what it declares, assigns or lists, in its order.   *)
(* A unit is a dimension, a power of ten and its dependence on h.          *)
(***************************************************************************)
EXTENDS Integers, Subsequences, FiniteSetsExt

NamesOf(ps) == [i \in DOMAIN ps |-> ps[i].name]
NameSet(ps) == {p.name : p \in Range(ps)}

\* Types of one number, and types of three.
ScalarTypes == {"int", "float", "double"}
ArrayTypes  == {"vec3_float"}
TYPE_MAP    == ScalarTypes \cup ArrayTypes

VALID_INIT_SOURCES ==
    {"default", "copy_from_tree", "copy_from_tree_array", "calculate", "skip"}
VALID_OUTPUT_SOURCES ==
    {"copy_direct", "copy_direct_array", "recalculate", "conditional",
     "custom", "galaxy_property"}
FromTree == {"copy_from_tree", "copy_from_tree_array"}

\* Get(key, default) of the optional keys; "-" stands for a missing one.
Get(value, default) == IF value = "-" THEN default ELSE value
InitSource(p)   == Get(p.init, "skip")
Outputs(ps)   == Kept(ps, {i \in DOMAIN ps : ps[i].output})

-----------------------------------------------------------------------------
(* Units.                                                                  *)

UNIT_REGISTRY ==
    [u \in {"index", "1e10 Msun/h", "Msun", "Mpc/h", "km/s", "Myr", "erg/s"} |->
        CASE u = "index"       -> [dim |-> "dimensionless", scale |-> 0, h |-> "none"]
          [] u = "1e10 Msun/h" -> [dim |-> "mass", scale |-> 10, h |-> "carried"]
          [] u = "Msun"        -> [dim |-> "mass", scale |-> 0, h |-> "free"]
          [] u = "Mpc/h"       -> [dim |-> "length", scale |-> 6, h |-> "carried"]
          [] u = "km/s"        -> [dim |-> "velocity", scale |-> 0, h |-> "none"]
          [] u = "Myr"         -> [dim |-> "time", scale |-> 6, h |-> "free"]
          [] u = "erg/s"       -> [dim |-> "luminosity", scale |-> 0, h |-> "none"]]

\* The reference unit of the four dimensions the core computes in.
Reference ==
    [d \in {"mass", "length", "velocity", "time"} |->
        CASE d = "mass"     -> UNIT_REGISTRY["1e10 Msun/h"]
          [] d = "length"   -> UNIT_REGISTRY["Mpc/h"]
          [] d = "velocity" -> UNIT_REGISTRY["km/s"]
          [] d = "time"     -> [dim |-> "time", scale |-> 6, h |-> "carried"]]

\* A property or catalog field as it is read; "-" stands for a missing key.
Property == [name : STRING, type : STRING, units : DOMAIN UNIT_REGISTRY, role : STRING,
             output : BOOLEAN, init : STRING, source : STRING, given : SUBSET STRING,
             repeat : BOOLEAN, range : STRING, manual : STRING]
UnitOf(p) == UNIT_REGISTRY[p.units]

\* The unit a value of this kind has inside the program.
InternalUnit(p) ==
    LET dim == UnitOf(p).dim
    IN  IF dim \in DOMAIN Reference THEN Reference[dim] ELSE UnitOf(p)

HDependent(h) == h \in {"carried", "free"}

\* Whether a linear conversion exists; one of a time is always refused.
Convertible(source, target) ==
    /\ source.dim = target.dim
    /\ source.dim # "time"
    /\ source.h = target.h \/ (HDependent(source.h) /\ HDependent(target.h))

\* The power of h with source and target exchanged.
SwappedHFactor(target_h, source_h) ==
    IF target_h = source_h THEN 0 ELSE IF target_h = "carried" THEN -1 ELSE 1

\* The power of h a value is multiplied by.
HFactor(target_h, source_h) ==
    IF target_h = source_h THEN 0 ELSE IF target_h = "carried" THEN 1 ELSE -1

\* The factor a value is multiplied by: a power of ten and a power of h.
Factor(source, target) ==
    [scale |-> source.scale - target.scale, h |-> HFactor(target.h, source.h)]
One == [scale |-> 0, h |-> 0]

\* The unit of a value in unit u once it is multiplied by factor c.
Times(u, c) ==
    [u EXCEPT !.scale = @ - c.scale,
              !.h = IF c.h = 0 THEN @ ELSE IF c.h = 1 THEN
                       (IF @ = "free" THEN "carried" ELSE "too often")
                    ELSE IF @ = "carried" THEN "free" ELSE "too often"]

-----------------------------------------------------------------------------
(* Merging and validation.                                                 *)

\* Exact duplicates are one property; others of one name are an error.
Mergeable(ps) == \A i, j \in DOMAIN ps : ps[i].name = ps[j].name => ps[i] = ps[j]
Merge(ps) ==
    Kept(ps, {i \in DOMAIN ps : \A j \in 1 .. i - 1 : ps[j].name # ps[i].name})

\* Entries of the catalog that Mimic copies become halo properties as well.
CopiedFields(catalog) == Kept(catalog, {i \in DOMAIN catalog : catalog[i].init \in FromTree})
MergedHalo(m)  == m.core \o CopiedFields(m.catalog)
HaloProps(m)   == Merge(MergedHalo(m))
GalaxyProps(m) == Merge(m.galaxy)

\* The catalog entry that provides a core role.
Provider(m, role) == CHOOSE f \in Range(m.catalog) : f.role = role
Roles == {"SnapNum", "Len", "HaloMass"}

\* What every catalog of the repository has and no validation asks for: a field
\* that is named as a role provides it, and the two that are read as they are have
\* no unit.
RolesArePlain(fields) ==
    \A f \in fields : /\ f.name \in Roles => f.role = f.name
                      /\ f.role \in {"SnapNum", "Len"} => f.units = "index"

\* The catalog entry a copied halo property is read from.
CatalogSource(m, p) ==
    IF p.name \in NameSet(m.catalog)
    THEN CHOOSE f \in Range(m.catalog) : f.name = p.name
    ELSE Provider(m, p.name)

ValidProperty(p, category) ==
    /\ p.type \in TYPE_MAP
    /\ category = "halo" /\ p.init # "-" => p.init \in VALID_INIT_SOURCES
    /\ p.output /\ p.source # "-" => p.source \in VALID_OUTPUT_SOURCES
    /\ p.init = "default" => "init_value" \in p.given
    /\ p.init = "calculate" => "init_function" \in p.given
    /\ p.source = "recalculate" => "output_function" \in p.given
    /\ p.source = "conditional" => "output_condition" \in p.given
    /\ p.repeat => category = "galaxy" /\ p.init = "default"

ValidCatalog(m) ==
    /\ \A i, j \in DOMAIN m.catalog : m.catalog[i].name = m.catalog[j].name => i = j
    /\ \A f \in Range(m.catalog) : f.type \in TYPE_MAP /\ f.units \in DOMAIN UNIT_REGISTRY
    /\ \A r \in Roles : Cardinality({i \in DOMAIN m.catalog : m.catalog[i].role = r}) = 1
    /\ \A f \in Range(m.catalog) : f.role \in Roles \cup {"-"}
    /\ Provider(m, "SnapNum").type = "int" /\ Provider(m, "Len").type = "int"
    /\ Provider(m, "HaloMass").type \in {"float", "double"}
    /\ Convertible(UnitOf(Provider(m, "HaloMass")), Reference["mass"])

ValidCopies(m) ==
    \A p \in Range(HaloProps(m)) : p.init \in FromTree =>
        /\ p.name \in NameSet(m.catalog) \cup Roles
        /\ CatalogSource(m, p).type = p.type
        /\ Convertible(UnitOf(CatalogSource(m, p)), InternalUnit(p))

\* A unit that is converted when written has to be convertible.
Converted(p) ==
    /\ p.output /\ p.manual = "-"
    /\ UnitOf(p).dim \in DOMAIN Reference \ {"time"}
ValidOutputs(ps) ==
    \A p \in Range(ps) : Converted(p) => Convertible(InternalUnit(p), UnitOf(p))

\* Metadata main() accepts before it writes anything.
Accepted(m) ==
    /\ Mergeable(m.core) /\ Mergeable(MergedHalo(m)) /\ Mergeable(m.galaxy)
    /\ ValidCatalog(m) /\ ValidCopies(m)
    /\ ValidOutputs(HaloProps(m)) /\ ValidOutputs(GalaxyProps(m))
    /\ m.params \subseteq DOMAIN UNIT_REGISTRY
    /\ \A p \in Range(HaloProps(m)) : ValidProperty(p, "halo")
    /\ \A p \in Range(GalaxyProps(m)) : ValidProperty(p, "galaxy")
    /\ NameSet(HaloProps(m)) \cap NameSet(GalaxyProps(m)) = {}

-----------------------------------------------------------------------------
(* The generated files.                                                    *)

PropertyFiles ==
    <<"property_defs.h", "reference_units.h", "unit_registry.h",
      "raw_halo_defs.h", "tree_property_accessors.h",
      "read_tree_hdf5_properties.inc", "parameter_unit_conversions.h",
      "populate_halo_payload_from_tree.inc", "property_test_helpers.h",
      "copy_to_output.inc", "hdf5_field_count.inc",
      "hdf5_field_definitions.inc", "hdf5_field_metadata.inc",
      "output_schema_writer.inc", "property_ranges.json">>

\* Metadata that is only refused while one of the files is put together, when
\* the files before it are written: the files at which that happens.
RaisesIn(m, f) ==
    \/ /\ f \in {"property_defs.h", "populate_halo_payload_from_tree.inc"}
       /\ \E p \in Range(HaloProps(m)) : p.init = "copy_from_tree_array" /\ p.type \in ScalarTypes
    \/ /\ f = "read_tree_hdf5_properties.inc"
       /\ \E p \in Range(m.catalog) : p.type = "double"
    \/ /\ f = "parameter_unit_conversions.h"
       /\ \E u \in m.params :
             \/ UNIT_REGISTRY[u].dim \notin DOMAIN Reference
             \/ ~Convertible(UNIT_REGISTRY[u], Reference[UNIT_REGISTRY[u].dim])
    \/ /\ f = "copy_to_output.inc"
       /\ \E p \in Range(Outputs(HaloProps(m))) :
             p.source = "copy_direct_array" /\ p.type \in ScalarTypes
    \/ /\ f = "property_ranges.json"
       /\ \E p \in Range(HaloProps(m) \o GalaxyProps(m)) : p.output /\ p.range = "reversed"

\* struct Halo, HaloInitPayload, GalaxyData and HaloOutput of property_defs.h.
InHalo(p)    == ~p.output \/ p.init # "skip"
InPayload(p) == InitSource(p) \in FromTree \cup {"calculate"}
HaloStruct(m)  == {p \in Range(HaloProps(m)) : InHalo(p)}
InitPayload(m) == {p \in Range(HaloProps(m)) : InPayload(p)}
GalaxyData(m)  == Range(GalaxyProps(m))
HaloOutputStruct(m) == Outputs(HaloProps(m)) \o Outputs(GalaxyProps(m))

\* What the inline functions of property_defs.h assign.
InitHalo(m) == {p \in Range(HaloProps(m)) : InitSource(p) # "skip"}
DefaultGalaxy(p) == Get(p.init, "default") = "default"
InitGalaxy(m) == {p \in Range(GalaxyProps(m)) : DefaultGalaxy(p)}

\* raw_halo_defs.h and read_tree_hdf5_properties.inc follow the catalog.
RawHalo(m) == NamesOf(m.catalog)

\* tree_property_accessors.h: the catalog field a getter reads, and the factor.
Getters(m) == Roles \cup {p.name : p \in {q \in Range(HaloProps(m)) : q.init \in FromTree}}
GetterField(m, n) ==
    IF n \in Roles THEN Provider(m, n)
    ELSE CatalogSource(m, CHOOSE p \in Range(HaloProps(m)) : p.name = n)
GetterFactor(m, n) ==
    IF n = "HaloMass" THEN Factor(UnitOf(Provider(m, n)), Reference["mass"])
    ELSE IF n \in Roles THEN One
    ELSE LET p == CHOOSE q \in Range(HaloProps(m)) : q.name = n
         IN  Factor(UnitOf(CatalogSource(m, p)), InternalUnit(p))

\* populate_halo_payload_from_tree.inc: the getters it calls.
Populated(m) == {p \in Range(HaloProps(m)) : InPayload(p)}

\* copy_to_output.inc: a field is assigned from the struct its source names and
\* converted; a custom field, or one whose source is of the other category, is not.
HaloCopied(m) ==
    LET ps == HaloProps(m)
    IN  Kept(ps, {i \in DOMAIN ps : ps[i].output
                      /\ Get(ps[i].source, "copy_direct") \notin {"custom", "galaxy_property"}})
GalaxyCopied(m) ==
    LET ps == GalaxyProps(m)
    IN  Kept(ps, {i \in DOMAIN ps : ps[i].output
                      /\ Get(ps[i].source, "galaxy_property") = "galaxy_property"})
OutputFactor(p) ==
    IF Converted(p) THEN Factor(InternalUnit(p), UnitOf(p)) ELSE One

\* The three HDF5 files, the schema writer and the manifest of the tests.
Hdf5Count(m)       == Len(Outputs(HaloProps(m))) + Len(Outputs(GalaxyProps(m)))
Hdf5Definitions(m) == Outputs(HaloProps(m)) \o Outputs(GalaxyProps(m))
Hdf5Metadata(m)    == Outputs(HaloProps(m)) \o Outputs(GalaxyProps(m))
SchemaFields(m)    == Outputs(HaloProps(m)) \o Outputs(GalaxyProps(m))
ManifestNames(m)   == NameSet(Outputs(HaloProps(m)) \o Outputs(GalaxyProps(m)))

-----------------------------------------------------------------------------
(* What the C compiler and the reader of the output see.  fs gives the     *)
(* metadata each of the files was made from.                               *)

\* A member is its name and whether it is an array.
Member(p)   == <<p.name, p.type \in ArrayTypes>>
Members(ps) == {Member(p) : p \in ps}

\* Statements name declared members, and C assigns and multiplies no array.
HaloCopyCompiles(p, struct) ==
    LET source == Get(p.source, "copy_direct")
    IN  IF source \in {"copy_direct", "copy_direct_array"}
        THEN /\ Member(p) \in Members(struct)
             /\ p.type \in ArrayTypes <=> source = "copy_direct_array"
        ELSE p.type \in ScalarTypes
PropertiesCompile(fs) ==
    LET defs  == fs["property_defs.h"]
        tree  == fs["tree_property_accessors.h"]
        copy  == fs["copy_to_output.inc"]
        output == Members(Range(HaloOutputStruct(defs)))
    IN  /\ \A p \in InitHalo(defs) :
              /\ Member(p) \in Members(HaloStruct(defs))
              /\ p.type \in ArrayTypes => p.init = "copy_from_tree_array"
        /\ \A p \in InitGalaxy(defs) : p.type \in ScalarTypes
        /\ \A p \in Populated(fs["populate_halo_payload_from_tree.inc"]) :
              /\ Member(p) \in Members(InitPayload(defs))
              /\ p.init \in FromTree => p.name \in Getters(tree)
        /\ \A n \in Getters(tree) :
              GetterField(tree, n).name \in Range(RawHalo(fs["raw_halo_defs.h"]))
        /\ \A p \in Range(HaloCopied(copy)) : HaloCopyCompiles(p, HaloStruct(defs))
        /\ \A p \in Range(GalaxyCopied(copy)) :
              p.type \in ScalarTypes /\ Member(p) \in Members(GalaxyData(defs))
        /\ \A p \in Range(HaloCopied(copy) \o GalaxyCopied(copy)) :
              /\ Member(p) \in output
              /\ p.type \in ArrayTypes => OutputFactor(p) = One
        /\ \A p \in Range(Hdf5Definitions(fs["hdf5_field_definitions.inc"])) :
              Member(p) \in output
        /\ \A p \in Range(SchemaFields(fs["output_schema_writer.inc"])) :
              p.name \in NameSet(HaloOutputStruct(defs))

\* The record on disk is the one the HDF5 table, its metadata, the schema of the
\* binary readers and the manifest of the tests describe, field for field.
DescribesRecord(fs) ==
    LET record == NamesOf(HaloOutputStruct(fs["property_defs.h"]))
    IN  /\ record = NamesOf(Hdf5Definitions(fs["hdf5_field_definitions.inc"]))
        /\ record = NamesOf(Hdf5Metadata(fs["hdf5_field_metadata.inc"]))
        /\ record = NamesOf(SchemaFields(fs["output_schema_writer.inc"]))
        /\ Len(record) = Hdf5Count(fs["hdf5_field_count.inc"])
        /\ Range(record) = ManifestNames(fs["property_ranges.json"])

\* Every field of the record is assigned once, unless its metadata asks for
\* hand-written code or names a source of the other category.
AssignsRecord(fs) ==
    LET defs == fs["property_defs.h"]
        copy == fs["copy_to_output.inc"]
        assigned == NamesOf(HaloCopied(copy) \o GalaxyCopied(copy))
        left == {p.name : p \in {q \in Range(Outputs(HaloProps(defs))) :
                                   q.source \in {"custom", "galaxy_property"}}}
                \cup {p.name : p \in {q \in Range(Outputs(GalaxyProps(defs))) :
                                   q.source \notin {"-", "galaxy_property"}}}
    IN  /\ Range(assigned) = NameSet(HaloOutputStruct(defs)) \ left
        /\ \A i, j \in DOMAIN assigned : assigned[i] = assigned[j] => i = j

\* A value read from the catalog reaches the disk in the unit its metadata
\* declares, whatever the unit of the catalog; a computed one in that unit too.
KeepsUnits(fs) ==
    LET tree == fs["tree_property_accessors.h"]
        copy == fs["copy_to_output.inc"]
        Read(p) == IF p.init \in FromTree
                   THEN Times(UnitOf(GetterField(tree, p.name)), GetterFactor(tree, p.name))
                   ELSE InternalUnit(p)
        Written(p, stored) == p.manual = "-" /\ UnitOf(p).dim # "time" =>
                                  Times(stored, OutputFactor(p)) = UnitOf(p)
    IN  /\ \A p \in Range(HaloCopied(copy)) : Written(p, Read(p))
        /\ \A p \in Range(GalaxyCopied(copy)) : Written(p, InternalUnit(p))
=============================================================================
