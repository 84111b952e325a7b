---------------------------- MODULE CsdlGenerator ----------------------------
(***************************************************************************)
(* The client generator: which structs it emits for the compiled types     *)
(* (read, update, create, excerpt, action request) and which structs their *)
(* fields and trait implementations name                                   *)
(* (csdl-compiler/src/generator/client_rust).  The Rust text, its          *)
(* documentation and its serde attributes are left out.                    *)
(***************************************************************************)
EXTENDS CsdlOptimizer

VARIABLE generated  \* [structs, uses], None before, or <<"NameConflict">>

Struct(name, variant) == <<name, variant>>
Read(t) == Struct(t, "Read")
Update(t) == Struct(t, "Update")
Create(t) == Struct(t, "Create")

(***************************************************************************)
(* InheritedProperties: the base chain of a type, from the type up.        *)
(***************************************************************************)
TypeOf(c, t) == IF t \in DOMAIN c.complexes THEN c.complexes[t] ELSE c.entities[t]
Structured(c) == DOMAIN c.complexes \cup DOMAIN c.entities
RECURSIVE BaseChain(_, _)
BaseChain(c, t) == IF t \in Structured(c) THEN <<t>> \o BaseChain(c, TypeOf(c, t).base) ELSE <<>>

InheritedProperties(c, t) ==
    FlattenSeq([i \in DOMAIN BaseChain(c, t) |-> TypeOf(c, Reverse(BaseChain(c, t))[i]).properties])
InheritedNavs(c, t) ==
    FlattenSeq([i \in DOMAIN BaseChain(c, t) |-> TypeOf(c, Reverse(BaseChain(c, t))[i]).navs])
InheritedActions(c, t) ==
    UNION {{c.actions[b][x] : x \in DOMAIN c.actions[b]} : b \in ToSet(BaseChain(c, t)) \cap DOMAIN c.actions}
InheritedAdditional(c, t) ==
    LET stated == SelectSeq(BaseChain(c, t), LAMBDA u : TypeOf(c, u).additional # "none")
    IN  IF stated = <<>> THEN "none" ELSE TypeOf(c, stated[1]).additional

(***************************************************************************)
(* Which structs are emitted.                                              *)
(***************************************************************************)
ComplexGeneratesUpdate(t, ct) == ComplexTypeInfo(t, ct).permissions # "Read" \/ ct.abstract
EntityGeneratesUpdate(et) == et.updatable = "yes" \/ et.abstract
Updating(c) ==
    {t \in DOMAIN c.complexes : ComplexGeneratesUpdate(t, c.complexes[t])}
    \cup {t \in DOMAIN c.entities : EntityGeneratesUpdate(c.entities[t])}
\* Every ancestor of a type with an update emits one too.
ForcedUpdates(c) == UNION {ToSet(BaseChain(c, TypeOf(c, t).base)) : t \in Updating(c)}

\* Everything a create struct holds by value needs a create struct too.
RECURSIVE CreateTypes(_, _, _)
CreateTypes(c, result, waiting) ==
    IF waiting \subseteq result THEN result
    ELSE LET t    == CHOOSE u \in waiting \ result : TRUE
             held == InheritedProperties(c, t)
         IN  CreateTypes(c, result \cup {t},
                 waiting \cup {held[i].type : i \in {j \in DOMAIN held : held[j].info.class = "complex"}})

\* Only the entity types are created, not what they hold.
MutStructs(c) ==
    {Read(t) : t \in NamesOf(c)}
    \cup {Update(t) : t \in Updating(c) \cup ForcedUpdates(c)}
    \cup {Create(t) : t \in c.creatable \cap Structured(c)}
    \cup UNION {{Struct(t, copy) : copy \in At(c.excerpts, t, {})} : t \in DOMAIN c.entities}
    \cup UNION {{Struct(x, "Action") : x \in DOMAIN c.actions[b]} : b \in DOMAIN c.actions}
Structs(c) ==
    {Read(t) : t \in NamesOf(c)}
    \cup {Update(t) : t \in Updating(c) \cup ForcedUpdates(c)}
    \cup {Create(t) : t \in CreateTypes(c, {}, c.creatable) \cap Structured(c)}
    \cup UNION {{Struct(t, copy) : copy \in At(c.excerpts, t, {})} : t \in DOMAIN c.entities}
    \cup UNION {{Struct(x, "Action") : x \in DOMAIN c.actions[b]} : b \in DOMAIN c.actions}

(***************************************************************************)
(* Which structs are named.                                                *)
(***************************************************************************)
Named(t) == IF IsSimpleType(t) THEN {} ELSE {Read(t)}
ForUpdate(t, class) == IF class = "complex" THEN {Update(t)} ELSE Named(t)
ForCreate(t, class) == IF class = "complex" THEN {Create(t)} ELSE Named(t)

ReadUses(c, t) ==
    LET properties == InheritedProperties(c, t)
        navs       == InheritedNavs(c, t)
    IN  UNION {Named(properties[i].type) :
                  i \in {j \in DOMAIN properties : properties[j].permissions # "Write"}}
        \cup {IF navs[i].excerpt = "none" THEN Read(navs[i].type) ELSE Struct(navs[i].type, navs[i].excerpt) :
                  i \in {j \in DOMAIN navs : navs[j].type # None /\ navs[j].permissions # "Write"}}
        \cup UNION {{Struct(a.key, "Action")} \cup (IF a.returns = None THEN {} ELSE Named(a.returns)) :
                       a \in InheritedActions(c, t)}

\* A field of an update: required on create, or writable with a type that is not read-only.
InUpdate(p) == p.requiredOnCreate \/ (p.permissions # "Read" /\ p.info.permissions # "Read")
UpdateUses(c, t) ==
    LET properties == InheritedProperties(c, t)
    IN  UNION {ForUpdate(properties[i].type, properties[i].info.class) :
                  i \in {j \in DOMAIN properties : InUpdate(properties[j])}}
CreateUses(c, t) ==
    LET properties == InheritedProperties(c, t)
    IN  UNION {ForCreate(properties[i].type, properties[i].info.class) : i \in DOMAIN properties}
ActionUses(a) ==
    UNION {ForUpdate(a.parameters[i].type, a.parameters[i].info.class) :
              i \in {j \in DOMAIN a.parameters : /\ a.parameters[j].info.class # "entity"
                                                 /\ a.parameters[j].info.permissions # "Read"}}
TraitUses(c, t) ==
    LET member == InsertableMemberType(c.entities[t])
    IN  (IF c.entities[t].updatable = "yes" THEN {Update(t)} ELSE {})
        \cup (IF member # None THEN {Read(member), Create(member)} ELSE {})

Uses(c) ==
    UNION {ReadUses(c, t) : t \in Structured(c)}
    \cup UNION {UpdateUses(c, t) : t \in {u \in Structured(c) : Update(u) \in Structs(c)}}
    \cup UNION {CreateUses(c, t) : t \in {u \in Structured(c) : Create(u) \in Structs(c)}}
    \cup UNION {TraitUses(c, t) : t \in DOMAIN c.entities}
    \cup UNION {UNION {ActionUses(c.actions[b][x]) : x \in DOMAIN c.actions[b]} : b \in DOMAIN c.actions}
    \cup {Read(c.annotations[x]) : x \in DOMAIN c.annotations}

\* Two structs of one name in a module, or two fields of one name in a struct.
Conflicts(c) ==
    \/ DOMAIN c.entities \cap DOMAIN c.complexes # {}
    \/ \E b, d \in DOMAIN c.actions : b # d /\ DOMAIN c.actions[b] \cap DOMAIN c.actions[d] # {}
    \/ \E t \in Structured(c) :
          LET fields == InheritedProperties(c, t)
              navs   == InheritedNavs(c, t)
              names  == [i \in DOMAIN fields |-> fields[i].name] \o [i \in DOMAIN navs |-> navs[i].name]
          IN  Cardinality(ToSet(names)) < Len(names)

Generate ==
    /\ phase = "optimized"
    /\ generated' = IF Conflicts(compiled) THEN <<"NameConflict">>
                    ELSE <<Structs(compiled), Uses(compiled)>>
    /\ phase' = "generated"
    /\ UNCHANGED <<schema, rootEntities, pending, compiled, error, original, image>>

csdlVars == <<compilerVars, optimizerVars, generated>>
CsdlInit == CompilerInit /\ original = DefaultCompiled /\ image = NoFunction /\ generated = None
CsdlNext ==
    \/ CompilerNext /\ UNCHANGED <<optimizerVars, generated>>
    \/ OptimizerNext /\ UNCHANGED generated
    \/ Generate
CsdlDone == phase \in {"failed", "generated"} /\ UNCHANGED csdlVars

(***************************************************************************)
(* Properties.                                                             *)
(***************************************************************************)
\* The types a type holds by value: its base and its structural properties, resolved.
ByValue(t) ==
    ({schema.types[t].base} \cup {FindChildType(schema.types[t].properties[i].type) :
        i \in {j \in DOMAIN schema.types[t].properties : ~schema.types[t].properties[j].nav}})
    \cap {u \in Types : IsComplex(u)}
HoldsItself(t) ==
    \E i \in DOMAIN schema.types[t].properties :
        LET p == schema.types[t].properties[i] IN ~p.nav /\ p.one /\ FindChildType(p.type) = t
RECURSIVE HeldBy(_)
HeldBy(S) ==
    LET more == S \cup UNION {ByValue(t) : t \in S} IN IF more = S THEN S ELSE HeldBy(more)
OnValueCycle(t) == HoldsItself(t) \/ t \in HeldBy(ByValue(t) \ {t})

\* A chain of bases that closes on itself, least name first.
BaseCycle(cycle) ==
    /\ Len(cycle) > 1 /\ cycle[1] = Last(cycle) /\ cycle[1] = Least(ToSet(cycle))
    /\ \A i \in 1 .. Len(cycle) - 1 : cycle[i] \in DOMAIN BaseMap /\ BaseMap[cycle[i]] = cycle[i + 1]
RECURSIVE BasesOf(_)
BasesOf(S) ==
    LET more == S \cup {BaseMap[t] : t \in S \cap DOMAIN BaseMap} IN IF more = S THEN S ELSE BasesOf(more)
SomeBaseCycle == \E t \in DOMAIN BaseMap : t \in BasesOf({BaseMap[t]})

\* Cycles are decided exactly.  The index is refused just when some chain of bases closes, and the
\* error is such a chain, written from its least name whatever the order of the files
\* (find_inheritance_cycle); a type is refused as a cycle just when it holds itself by value, or is
\* held through another type it holds, however the recursion reached it, and no such type is ever
\* compiled (ensure_type, Stack::compiling_complex_type).
CyclesDecided ==
    /\ phase \notin {"index", "failed"} => ~SomeBaseCycle
    /\ error # <<>> => CASE error[1] = "CyclicType" -> BaseCycle(error[2])
                         [] error[1] = "UnrepresentableCycle" -> HoldsItself(error[2])
                         [] error[1] = "UnsupportedCycle" -> OnValueCycle(error[2])
                         [] OTHER -> TRUE
    /\ phase \in {"roots", "annotations", "actions", "compiled"} =>
          \A t \in DOMAIN compiled.complexes : ~OnValueCycle(t)

\* Whatever is compiled is closed: after every root and after every pass of the optimizer, each
\* base, property, navigation target, action, creatable type, excerpt and annotation names a type
\* that is there and of its class (Compiled::merge, replace, map_types_in_actions).
Closed ==
    LET c == compiled
        plain == DOMAIN c.complexes \cup c.enums \cup c.definitions
        known(t) == IsSimpleType(t) \/ t \in plain
    IN  /\ \A t \in DOMAIN c.complexes : c.complexes[t].base \in DOMAIN c.complexes \cup {None}
        /\ \A t \in DOMAIN c.entities : c.entities[t].base \in DOMAIN c.entities \cup {None}
        /\ \A t \in Structured(c) :
              /\ \A i \in DOMAIN TypeOf(c, t).properties : known(TypeOf(c, t).properties[i].type)
              /\ \A i \in DOMAIN TypeOf(c, t).navs : TypeOf(c, t).navs[i].type \in DOMAIN c.entities \cup {None}
        /\ \A b \in DOMAIN c.actions : \A x \in DOMAIN c.actions[b] :
              LET a == c.actions[b][x] IN
              /\ a.binding = b /\ b \in DOMAIN c.complexes
              /\ a.returns = None \/ known(a.returns)
              /\ \A i \in DOMAIN a.parameters :
                    IF a.parameters[i].info.class = "entity" THEN a.parameters[i].type \in DOMAIN c.entities
                    ELSE known(a.parameters[i].type)
        /\ c.creatable \cup DOMAIN c.excerpts \subseteq DOMAIN c.entities
        /\ \A x \in DOMAIN c.annotations : c.annotations[x] \in plain

\* What a type declares or inherits, with the names of its types mapped by f.
Shape(p, f) == <<p.name, p.one, At(f, p.type, p.type)>>
PropertyShapes(c, t, f) ==
    {Shape(InheritedProperties(c, t)[i], f) : i \in DOMAIN InheritedProperties(c, t)}
NavShapes(c, t, f) == {Shape(InheritedNavs(c, t)[i], f) : i \in DOMAIN InheritedNavs(c, t)}
ActionKeys(c, t) == {a.key : a \in InheritedActions(c, t)}

\* The bindings with actions that have become one type with b.
Merged(b) == {d \in DOMAIN original.actions : image[d] = image[b]}
\* The empty types that were replaced by an ancestor.
ReplacedEmpty ==
    DOMAIN CollectReplacements(original.complexes, EmptyComplexTypes(original.complexes), {})
    \cup DOMAIN CollectReplacements(original.entities, EmptyEntityTypes(original.entities), NeverPrune)
\* The type that decides whether t may carry undeclared properties.
NearestStating(c, t) ==
    SelectSeq(BaseChain(c, t), LAMBDA u : TypeOf(c, u).additional # "none")[1]

\* The optimizer keeps the shape of a type: what it declared or inherited when it left the compiler
\* (a property with its cardinality and its type, a navigation property, an action bound to it, leave
\* for undeclared properties) the type it has become still declares or inherits, even when it was
\* replaced by a parent and that parent folded into another child (optimize: remove_empty_*,
\* prune_*_inheritance, prune_namespaces).  Two things the code does lose, and the clauses say which:
\* of bindings that become one type exactly one keeps its actions, all of them, and the others lose
\* theirs; and a leave stated by an empty type goes when that type is replaced.
ShapeKept ==
    /\ \A b \in DOMAIN original.actions : \E d \in Merged(b) :
          DOMAIN original.actions[d] = DOMAIN compiled.actions[image[b]]
    /\ \A t \in DOMAIN image :
          /\ image[t] \in NamesOf(compiled)
          /\ t \in Structured(original) =>
                /\ PropertyShapes(original, t, image) \subseteq PropertyShapes(compiled, image[t], NoFunction)
                /\ NavShapes(original, t, image) \subseteq NavShapes(compiled, image[t], NoFunction)
                /\ (\A b \in ToSet(BaseChain(original, t)) \cap DOMAIN original.actions : Merged(b) = {b})
                       => ActionKeys(original, t) \subseteq ActionKeys(compiled, image[t])
                /\ InheritedAdditional(original, t) = "yes" =>
                       \/ InheritedAdditional(compiled, image[t]) = "yes"
                       \/ NearestStating(original, t) \in ReplacedEmpty

\* The updates of types that replaced an empty type by which an action's parameter was declared: the
\* parameter still has the type info of the empty type.
StaleUpdates ==
    UNION {UNION {{Update(image[p.type]) : p \in {q \in ToSet(original.actions[b][x].parameters) :
                      q.type \in ReplacedEmpty /\ q.info.permissions # "Read"}} :
        x \in DOMAIN original.actions[b]} : b \in DOMAIN original.actions}

\* The client names only what it emits: every struct that a field, an action or a trait
\* implementation names is emitted, whichever pass renamed or folded its type and wherever a base
\* forces an update or a creatable type holds others by value, and no two structs or fields get one
\* name (RustGenerator::new, forced_updates, create_types).  The exception is StaleUpdates, which
\* the request of such an action may name without their being there.  The bundles fold one level at a time, so the permissions that
\* folding leaves stale further up are not met, nor are an enum and a struct of one name.
GeneratedResolves ==
    phase = "generated" =>
        generated # <<"NameConflict">> /\ generated[2] \ generated[1] \subseteq StaleUpdates

\* Every name is that of something there, from the first compiled root to the generated client
\* (Compiled::merge, the optimizer's passes, RustGenerator::new).
NamesResolve == Closed /\ GeneratedResolves
=============================================================================
