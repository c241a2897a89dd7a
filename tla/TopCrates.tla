----------------------------- MODULE TopCrates ------------------------------
(***************************************************************************)
(* top-crates/src/lib.rs: generate_info, which works out the crates that   *)
(* the playground offers, their features and the names they go by.         *)
(*                                                                         *)
(* A registry is a set of dependencies <<from, to, dep>> between packages; *)
(* versions of one package are semver-incompatible.  Cargo's resolver is   *)
(* external: it gives packages the features that are asked of them until   *)
(* nothing more is asked (Round).                                          *)
(***************************************************************************)
EXTENDS Naturals, FiniteSets

CONSTANTS
    Package,     \* the packages (PackageId)
    Name,        \* Name[p], numbered in alphabetical order
    Version,     \* Version[p], a number
    LibName,     \* LibName[p], the crate name of its library
    Top,         \* names of the top, cookbook and hand-picked crates
    Edge,        \* the pairs of packages that may depend on each other
    Dep,         \* what a dependency may be: [gate, lite, ours]; gate is the feature
                 \* an optional one needs, or ""; ours is whether its platform is
    Metadata,    \* what package.metadata.playground may say, per package: functions
                 \* from Package to {} (nothing) or a set of one FeaturesLite
    Exclusions   \* what crate-modifications.toml may exclude: [names -> sets of versions]

ASSUME TopCratesAssumption ==
    /\ IsFiniteSet(Package) /\ Edge \subseteq Package \X Package
    /\ \A p \in Package : Version[p] \in Nat
    /\ \A p, q \in Package : Name[p] = Name[q] /\ Version[p] = Version[q] => p = q

VARIABLES
    deps,        \* the registry
    metadata,    \* metadata[p], one of Metadata
    exclusions,  \* one of Exclusions
    crates,      \* resolved_crates: package |-> FeaturesLite
    on,          \* on[p]: what cargo has resolved p to, {} if p is not needed
    visited,     \* package |-> FeaturesLite, as the walk found them
    toVisit,     \* packages to visit next
    specs,       \* exposed name |-> [package, version, features]
    built,       \* as on, when cargo builds from the specs
    crPhase      \* "start", "resolve", "visit", "done"

crVars == <<deps, metadata, exclusions, crates, on, visited, toVisit, specs, built, crPhase>>

-----------------------------------------------------------------------------
Lite(features, uses) == [features |-> features, uses |-> uses]
Default == Lite({}, TRUE)

\* FeaturesLite::merge
Merge(lites) == Lite(UNION {l.features : l \in lites}, \E l \in lites : l.uses)

\* FeaturesLite::finalize
Finalize(l) == Lite(l.features \ {"default"}, l.uses \/ "default" \in l.features)

\* Modifications::excluded
Excluded(p) == Name[p] \in DOMAIN exclusions /\ Version[p] \in exclusions[Name[p]]

Newest(ps) == {p \in ps : \A q \in ps : Name[q] = Name[p] => Version[q] <= Version[p]}

\* write_scratch_cargo_toml: a manifest has one entry per name, the last
\* inserted, and PackageIds are ordered by name and version.
Manifest(found) == Newest(DOMAIN found)

\* resolve_dependencies.  A package that is needed is "present"; it gets the
\* features of the manifest, and in each round what its dependents ask for.
Enabled(l) == {"present"} \cup l.features \cup (IF l.uses THEN {"default"} ELSE {})
Active(e, features) ==
    "present" \in features[e[1]] /\ (e[3].gate = "" \/ e[3].gate \in features[e[1]])
Asked(found) == [p \in Package |-> IF p \in Manifest(found) THEN Enabled(found[p]) ELSE {}]
Round(features) ==
    [p \in Package |-> features[p] \cup
        UNION {Enabled(e[3].lite) : e \in {e \in deps : e[2] = p /\ Active(e, features)}}]

\* The dependencies that extend_direct_dependencies follows.
Followed(e, features) == ~Excluded(e[2]) /\ Active(e, features) /\ e[3].ours

-----------------------------------------------------------------------------
CratesInit ==
    /\ deps \in {{<<e[1], e[2], d[e]>> : e \in DOMAIN d} :
                  d \in UNION {[es -> Dep] : es \in SUBSET Edge}}
    /\ metadata \in Metadata
    /\ exclusions \in Exclusions
    /\ crates = [p \in {} |-> Default] /\ visited = [p \in {} |-> Default]
    /\ on = [p \in Package |-> {}] /\ built = on
    /\ toVisit = {} /\ specs = [n \in {} |-> Default]
    /\ crPhase = "start"

\* populate_initial_direct_dependencies: the newest versions, unless excluded.
Populate ==
    /\ crPhase = "start" /\ crPhase' = "resolve"
    /\ LET chosen == {p \in Newest(Package) : Name[p] \in Top /\ ~Excluded(p)}
       IN crates' = [p \in chosen |-> IF metadata[p] = {} THEN Default ELSE Merge(metadata[p])]
    /\ on' = Asked(crates')
    /\ UNCHANGED <<deps, metadata, exclusions, visited, toVisit, specs, built>>

\* extend_direct_dependencies: the resolver ...
Resolve ==
    /\ crPhase = "resolve" /\ Round(on) # on /\ on' = Round(on)
    /\ UNCHANGED <<deps, metadata, exclusions, crates, visited, toVisit, specs, built, crPhase>>

\* ... and what is done before the walk.
StartWalk ==
    /\ crPhase = "resolve" /\ Round(on) = on /\ crPhase' = "visit"
    /\ toVisit' = {p \in Package : on[p] # {} /\ \E q \in Manifest(crates) : Name[q] = Name[p]}
    /\ visited' = [p \in {} |-> Default]
    /\ UNCHANGED <<deps, metadata, exclusions, crates, on, specs, built>>

\* One turn of `while !to_visit.is_empty()`.
WalkLevel ==
    /\ crPhase = "visit" /\ toVisit # {}
    /\ LET level == {e \in deps : e[1] \in toVisit /\ Followed(e, on)}
           reached == {e[2] : e \in level}
       IN /\ visited' = [p \in DOMAIN visited \cup reached |->
                Merge({e[3].lite : e \in {e \in level : e[2] = p}}
                      \cup (IF p \in DOMAIN visited THEN {visited[p]} ELSE {}))]
          /\ toVisit' = reached
    /\ UNCHANGED <<deps, metadata, exclusions, crates, on, specs, built, crPhase>>

\* generate_dependency_specs: sorted by name and newest first, the newest has
\* the plain name; a later entry of the map replaces one of the same name.
ExposedName(found, p) ==
    IF p \in Newest(DOMAIN found) THEN <<LibName[p]>> ELSE <<LibName[p], Version[p]>>
SortsAfter(p, q) == Name[p] > Name[q] \/ (Name[p] = Name[q] /\ Version[p] < Version[q])
DependencySpecs(found) ==
    LET kept == {p \in DOMAIN found : \A q \in DOMAIN found \ {p} :
                   ExposedName(found, q) = ExposedName(found, p) => SortsAfter(p, q)}
    IN [n \in {ExposedName(found, p) : p \in kept} |->
          LET p == CHOOSE p \in kept : ExposedName(found, p) = n
          IN [package |-> Name[p], version |-> Version[p], lite |-> Finalize(found[p])]]

\* What the Cargo.toml that main.rs writes asks of cargo: all specs, with the
\* older versions and their features.
Wanted(offer) ==
    [p \in Package |-> UNION {Enabled(offer[n].lite) :
        n \in {n \in DOMAIN offer : offer[n].package = Name[p] /\ offer[n].version = Version[p]}}]

\* Variant: one pass is taken to be enough.
NeverGrown(before, after) == FALSE

\* generate_info goes on while the number of crates changes.
Grown(before, after) == Cardinality(before) # Cardinality(after)

\* The rest of extend_direct_dependencies and of the loop in generate_info, with
\* the specs and the manifest that are made of its result.
EndWalk ==
    /\ crPhase = "visit" /\ toVisit = {}
    /\ crates' = [p \in DOMAIN crates \cup DOMAIN visited |->
                    IF p \in DOMAIN visited THEN Merge({visited[p]} \cup metadata[p])
                    ELSE crates[p]]
    /\ IF Grown(DOMAIN crates, DOMAIN crates')
       THEN crPhase' = "resolve" /\ on' = Asked(crates') /\ UNCHANGED <<specs, built>>
       ELSE /\ crPhase' = "done" /\ specs' = DependencySpecs(crates')
            /\ built' = Wanted(specs') /\ UNCHANGED on
    /\ UNCHANGED <<deps, metadata, exclusions, visited, toVisit>>

\* The resolver again, when the playground's image is built from that manifest.
Build ==
    /\ crPhase = "done" /\ Round(built) # built /\ built' = Round(built)
    /\ UNCHANGED <<deps, metadata, exclusions, crates, on, visited, toVisit, specs, crPhase>>

CratesNext == Populate \/ Resolve \/ StartWalk \/ WalkLevel \/ EndWalk \/ Build

-----------------------------------------------------------------------------
\* Another crate has a library of the same name, and may replace p in the specs.
Crowded(p) == \E q \in DOMAIN crates : LibName[q] = LibName[p] /\ Name[q] # Name[p]

Offered(p) == \E n \in DOMAIN specs : specs[n].package = Name[p] /\ specs[n].version = Version[p]

\* Every dependency of the crates ps that is followed when they have these
\* features is on offer, or crowded out.
ClosedUnder(ps, features) ==
    \A e \in deps : e[1] \in ps /\ Followed(e, features) => Offered(e[2]) \/ Crowded(e[2])

\* The last pass has resolved p with all the features it is offered with.  That
\* can fail for older versions only: these are not in the scratch manifest, so
\* that the features of their metadata, or of an earlier pass, are not resolved.
KeptUp(p) ==
    \/ p \in Manifest(crates)
    \/ p \in DOMAIN visited /\ \A l \in metadata[p] : Enabled(l) \subseteq on[p]

\* What is offered is complete.  Every dependency that the last pass resolved for
\* a crate in the scratch manifest, or for a version the walk found, and that is
\* built on the playground's platform and not excluded, is offered as well,
\* unless it is crowded out by a crate of the same library name.  So it is for
\* the dependencies that cargo resolves from the manifest on offer, older
\* versions and their features included, unless one of these has features that
\* the last pass did not resolve.  Counting crates is a sound test for the end of
\* the loop in generate_info although the last pass may still change features.
OfferedCratesClosed ==
    crPhase = "done" =>
      /\ ClosedUnder(Manifest(crates) \cup DOMAIN visited, on)
      /\ (\A p \in DOMAIN crates : KeptUp(p)) => ClosedUnder(DOMAIN crates, built)

\* What README.md says of the offer, "all of their dependencies are available",
\* up to exclusions and crowding: the same without that exception.  It does not
\* hold: MCOffer.cfg shows an older version whose metadata switch on a dependency
\* that no pass resolves (write_scratch_cargo_toml, generate_dependency_specs).
EveryDependencyOffered == crPhase = "done" => ClosedUnder(DOMAIN crates, built)
=============================================================================
