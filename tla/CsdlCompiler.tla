---------------------------- MODULE CsdlCompiler ----------------------------
(***************************************************************************)
(* The CSDL compiler: the index of a bundle of schemas, the recursive      *)
(* compilation of a root set over a stack of frames, and the compilation   *)
(* of annotations and actions (csdl-compiler/src/compiler).                *)
(*                                                                         *)
(* A qualified name is a pair <<namespace, identifier>>; a namespace is a  *)
(* sequence of identifiers.  A declaration is a record of the parts of an  *)
(* EntityType, ComplexType, EnumType or TypeDefinition that decide what is *)
(* compiled; documentation, nullability and array rigidity are left out.   *)
(***************************************************************************)
EXTENDS Integers, Sequences, FiniteSets, FiniteSetsExt, SequencesExt

CONSTANTS
    Bundles,    \* the bundles of schemas to compile
    NameOrder,  \* every qualified name, in the order QualifiedName compares
    NeverPrune  \* the entity types the optimizer must keep

VARIABLES
    schema,     \* the bundle, what is asked of it and the filters in force
    phase,      \* how far the compilation is
    rootEntities,  \* the entity types of the root set, whose references are expandable
    pending,    \* the roots, terms or actions still to compile in this phase
    compiled,   \* Compiled of the outermost frame
    error       \* <<>>, or the innermost compiler error

compilerVars == <<schema, phase, rootEntities, pending, compiled, error>>

None == <<>>
IsSimpleType(t) == t # None /\ t[1] = <<"Edm">>
Rank(t) == CHOOSE i \in DOMAIN NameOrder : NameOrder[i] = t
Least(S) == CHOOSE t \in S : \A u \in S : Rank(t) <= Rank(u)

(***************************************************************************)
(* The schema index.                                                       *)
(***************************************************************************)
Types == DOMAIN schema.types
IsEntity(t) == t \in Types /\ schema.types[t].kind = "entity"
IsComplex(t) == t \in Types /\ schema.types[t].kind = "complex"
BaseMap == [t \in {u \in Types : schema.types[u].base # None} |-> schema.types[t].base]
ChildMap(t) == {c \in DOMAIN BaseMap : BaseMap[c] = t}

RECURSIVE ChildAddsProperty(_)
ChildAddsProperty(t) ==
    /\ IsEntity(t) \/ IsComplex(t)
    /\ schema.types[t].properties # <<>> \/ \E c \in ChildMap(t) : ChildAddsProperty(c)

RECURSIVE FindChildType(_)
FindChildType(t) ==
    LET adding == {c \in ChildMap(t) : ChildAddsProperty(c)} IN
    IF Cardinality(adding) = 1 THEN FindChildType(CHOOSE c \in adding : TRUE) ELSE t

\* The walk from one start along the bases: the cycle it closes, if any, and the path.
RECURSIVE WalkBases(_, _, _)
WalkBases(current, path, visited) ==
    IF current \in visited THEN [cycle |-> <<>>, path |-> path]
    ELSE IF \E i \in DOMAIN path : path[i] = current
    THEN LET cycle == SubSeq(path, CHOOSE i \in DOMAIN path : path[i] = current, Len(path))
             first == Least(ToSet(cycle))
             at    == CHOOSE i \in DOMAIN cycle : cycle[i] = first
         IN  [cycle |-> SubSeq(cycle, at, Len(cycle)) \o SubSeq(cycle, 1, at - 1) \o <<first>>,
              path  |-> path]
    ELSE IF current \in DOMAIN BaseMap
    THEN WalkBases(BaseMap[current], Append(path, current), visited)
    ELSE [cycle |-> <<>>, path |-> Append(path, current)]

FindInheritanceCycle ==
    LET starts == SelectSeq(NameOrder, LAMBDA t : t \in DOMAIN BaseMap)
        step(acc, start) ==
            IF acc.cycle # <<>> \/ start \in acc.visited THEN acc
            ELSE LET walk == WalkBases(start, <<>>, acc.visited)
                 IN  [cycle |-> walk.cycle, visited |-> acc.visited \cup ToSet(walk.path)]
    IN  FoldLeft(step, [cycle |-> <<>>, visited |-> {}], starts).cycle

(***************************************************************************)
(* Compiled outputs and the stack of frames.                               *)
(***************************************************************************)
NoFunction == [t \in {} |-> None]
DefaultCompiled ==
    [entities |-> NoFunction, complexes |-> NoFunction, definitions |-> {}, enums |-> {},
     actions |-> NoFunction, creatable |-> {}, excerpts |-> NoFunction, annotations |-> NoFunction]

\* The entries of g replace those of f.
Extend(f, g) == [x \in DOMAIN f \cup DOMAIN g |-> IF x \in DOMAIN g THEN g[x] ELSE f[x]]
At(f, x, default) == IF x \in DOMAIN f THEN f[x] ELSE default
ExcerptCopiesMergeTo(f, g) ==
    [x \in DOMAIN f \cup DOMAIN g |-> At(f, x, {}) \cup At(g, x, {})]

MergeCompiled(c, d) ==
    [entities    |-> Extend(c.entities, d.entities),
     complexes   |-> Extend(c.complexes, d.complexes),
     definitions |-> c.definitions \cup d.definitions,
     enums       |-> c.enums \cup d.enums,
     actions     |-> [b \in DOMAIN c.actions \cup DOMAIN d.actions |->
                        Extend(At(c.actions, b, NoFunction), At(d.actions, b, NoFunction))],
     creatable   |-> c.creatable \cup d.creatable,
     excerpts    |-> ExcerptCopiesMergeTo(c.excerpts, d.excerpts),
     annotations |-> Extend(c.annotations, d.annotations)]

InsertableMemberType(entity) ==
    LET members == {i \in DOMAIN entity.navs : entity.navs[i].name = "Members"} IN
    IF entity.insertable = "yes" /\ members # {}
    THEN entity.navs[Min(members)].type ELSE None
NewEntityType(t, entity) ==
    [DefaultCompiled EXCEPT !.entities = [u \in {t} |-> entity],
                            !.creatable = {InsertableMemberType(entity)} \ {None}]
NewComplexType(t, complex) == [DefaultCompiled EXCEPT !.complexes = [u \in {t} |-> complex]]
NewExcerptCopy(t, copy) == [DefaultCompiled EXCEPT !.excerpts = [u \in {t} |-> {copy}]]
NewAction(a) ==
    [DefaultCompiled EXCEPT !.actions = [b \in {a.binding} |-> [k \in {a.key} |-> a]]]

Frame(of, name) == [of |-> of, name |-> name, current |-> DefaultCompiled]
NewFrame(stack) == Append(stack, Frame("nothing", None))
WithEntityType(stack, t) == Append(stack, Frame("entity", t))
WithComplexType(stack, t) == Append(stack, Frame("complex", t))
Merge(stack, c) == [stack EXCEPT ![Len(stack)].current = MergeCompiled(@, c)]
Done(stack) == Last(stack).current

\* An entity frame hides the complex types in progress below it: an entity is held by reference.
MutCompilingComplexType(stack, t) ==
    \E i \in DOMAIN stack : stack[i].of = "complex" /\ stack[i].name = t
CompilingComplexType(stack, t) ==
    \E i \in DOMAIN stack :
        /\ stack[i].of = "complex" /\ stack[i].name = t
        /\ \A j \in i + 1 .. Len(stack) : stack[j].of # "entity"
NearestComplexType(stack) ==
    LET open == {i \in DOMAIN stack : stack[i].of # "nothing"} IN
    IF open # {} /\ stack[Max(open)].of = "complex" THEN stack[Max(open)].name ELSE None
ContainsEntity(stack, t) ==
    \E i \in DOMAIN stack :
        t \in DOMAIN stack[i].current.entities \/ (stack[i].of = "entity" /\ stack[i].name = t)

(***************************************************************************)
(* What a property needs to know of its type.  An empty or wholly          *)
(* read-only complex type is Read: no update of it is generated.           *)
(***************************************************************************)
Info(class, permissions) == [class |-> class, permissions |-> permissions]
ComplexTypeInfo(t, ct) ==
    LET requiredOnCreate ==
            \/ \E i \in DOMAIN ct.properties : ct.properties[i].requiredOnCreate
            \/ \E i \in DOMAIN ct.navs : ct.navs[i].type # None /\ ct.navs[i].requiredOnCreate
        readOnly ==
            /\ ct.properties # <<>> /\ ct.navs = <<>>
            /\ \A i \in DOMAIN ct.properties :
                  "Read" \in {ct.properties[i].permissions, ct.properties[i].info.permissions}
        closed == ~ct.dynamic /\ (ct.additional # "yes" \/ t[2] = "OemActions")
    IN  Info("complex",
             IF requiredOnCreate THEN "none"
             ELSE IF ct.permissions # "none" THEN ct.permissions
             ELSE IF closed /\ (ct.properties \o ct.navs = <<>> \/ readOnly) THEN "Read"
             ELSE "none")
KnownComplex(stack, t) == {i \in DOMAIN stack : t \in DOMAIN stack[i].current.complexes}
KnownComplexInfo(stack, t) ==
    ComplexTypeInfo(t, stack[Max(KnownComplex(stack, t))].current.complexes[t])

(***************************************************************************)
(* The recursion.  A result is the error (<<>> for none), the outputs, and *)
(* the type info or the compiled properties.                               *)
(***************************************************************************)
Fails(kind, t) == [error |-> <<kind, t>>, out |-> DefaultCompiled, info |-> Info("none", "none")]
Gives(out, info) == [error |-> <<>>, out |-> out, info |-> info]
\* The ? operator: an error is returned, anything else goes on.
Then(r, Goon(_)) == IF r.error # <<>> THEN r ELSE Goon(r)

RECURSIVE EnsureType(_, _), CompileComplexType(_, _), CompileProperties(_, _, _, _, _),
          CompileNavProperty(_, _), CompileEntityType(_, _), EnsureEntityType(_, _)

CompileTypeDefinition(t) ==
    IF IsSimpleType(schema.types[t].underlying)
    THEN Gives([DefaultCompiled EXCEPT !.definitions = {t}], Info("definition", "none"))
    ELSE Fails("TypeDefinitionOfNotPrimitiveType", schema.types[t].underlying)

CompileType(t, stack) ==
    CASE t \notin Types \/ IsEntity(t) -> Fails("TypeNotFound", t)
      [] IsComplex(t) -> CompileComplexType(t, stack)
      [] schema.types[t].kind = "enum" ->
            Gives([DefaultCompiled EXCEPT !.enums = {t}], Info("enum", "none"))
      [] schema.types[t].kind = "definition" -> CompileTypeDefinition(t)

EnsureType(t, stack) ==
    CASE IsSimpleType(t) -> Gives(DefaultCompiled, Info("simple", "none"))
      [] KnownComplex(stack, t) # {} -> Gives(DefaultCompiled, KnownComplexInfo(stack, t))
      [] KnownComplex(stack, t) = {} /\ CompilingComplexType(stack, t) ->
            IF NearestComplexType(stack) = t
            THEN Gives(DefaultCompiled, Info("complex", "none"))
            ELSE Fails("UnsupportedCycle", t)
      [] \E i \in DOMAIN stack : t \in stack[i].current.definitions ->
            Gives(DefaultCompiled, Info("definition", "none"))
      [] \E i \in DOMAIN stack : t \in stack[i].current.enums ->
            Gives(DefaultCompiled, Info("enum", "none"))
      [] OTHER -> CompileType(t, stack)

CompileComplexType(t, outer) ==
    LET ct       == schema.types[t]
        stack    == WithComplexType(outer, t)
        base     == IF ct.base = None THEN Gives(DefaultCompiled, Info("none", "none"))
                    ELSE IF IsSimpleType(ct.base) THEN Fails("TypeNotFound", ct.base)
                    ELSE EnsureType(ct.base, stack)
        made(all) == [base |-> ct.base, properties |-> all.properties, navs |-> all.navs,
                      permissions |-> ct.permissions, additional |-> ct.additional,
                      dynamic |-> ct.dynamic, abstract |-> ct.abstract]
    IN  Then(base, LAMBDA b :
            LET below == Merge(stack, b.out) IN
            Then(CompileProperties(ct.properties, 1, NewFrame(below), <<>>, <<>>), LAMBDA all :
                Gives(MergeCompiled(Done(Merge(below, all.out)), NewComplexType(t, made(all))),
                      ComplexTypeInfo(t, made(all)))))

\* Properties::compile from property i on.
CompileProperties(declared, i, stack, properties, navs) ==
    IF i > Len(declared)
    THEN [error |-> <<>>, out |-> Done(stack), properties |-> properties, navs |-> navs]
    ELSE LET p        == declared[i]
             resolved == FindChildType(p.type)
             result   == IF p.nav THEN CompileNavProperty(p, stack)
                         ELSE IF p.one /\ NearestComplexType(stack) = resolved
                         THEN Fails("UnrepresentableCycle", resolved)
                         ELSE EnsureType(resolved, stack)
             property(info) ==
                 [name |-> p.name, one |-> p.one, type |-> resolved, info |-> info,
                  permissions |-> p.permissions, requiredOnCreate |-> p.requiredOnCreate]
         IN  Then(result, LAMBDA r :
                CompileProperties(declared, i + 1, Merge(stack, r.out),
                                  IF p.nav THEN properties ELSE Append(properties, property(r.info)),
                                  IF p.nav THEN navs \o r.nav ELSE navs))

\* Expandable when the target is selected; a bare reference otherwise, and nothing for an excerpt.
CompileNavProperty(p, stack) ==
    LET selected == \/ p.type \in rootEntities
                    \/ p.type \in schema.filter
                    \/ p.excerpt # "none" /\ schema.includeExcerpts
        t        == FindChildType(p.type)
        made     == IF ~IsEntity(t) THEN Fails("EntityTypeNotFound", t)
                    ELSE IF ContainsEntity(stack, t) THEN Gives(DefaultCompiled, Info("none", "none"))
                    ELSE CompileEntityType(t, stack)
        copy     == IF p.excerpt # "none" THEN NewExcerptCopy(t, p.excerpt) ELSE DefaultCompiled
        nav(type) == [name |-> p.name, one |-> p.one, type |-> type, excerpt |-> p.excerpt,
                      permissions |-> p.permissions, requiredOnCreate |-> p.requiredOnCreate]
        result(out, navs) == [error |-> <<>>, out |-> out, info |-> Info("none", "none"), nav |-> navs]
    IN  IF selected THEN Then(made, LAMBDA m : result(MergeCompiled(m.out, copy), <<nav(t)>>))
        ELSE result(DefaultCompiled, IF p.excerpt = "none" THEN <<nav(None)>> ELSE <<>>)

CompileEntityType(t, outer) ==
    LET et    == schema.types[t]
        named == WithEntityType(outer, t)
        base  == IF et.base = None THEN Gives(DefaultCompiled, Info("none", "none"))
                 ELSE EnsureEntityType(et.base, named)
        made(all) == [base |-> et.base, properties |-> all.properties, navs |-> all.navs,
                      key |-> et.key, updatable |-> et.updatable, insertable |-> et.insertable,
                      annotated |-> et.annotated, additional |-> et.additional,
                      abstract |-> et.abstract, mustHaveType |-> FALSE]
    IN  Then(base, LAMBDA b :
            LET below == Merge(NewFrame(named), b.out) IN
            Then(CompileProperties(et.properties, 1, NewFrame(below), <<>>, <<>>), LAMBDA all :
                Gives(MergeCompiled(Done(Merge(below, all.out)), NewEntityType(t, made(all))),
                      Info("none", "none"))))

EnsureEntityType(t, stack) ==
    IF ContainsEntity(stack, t) THEN Gives(DefaultCompiled, Info("none", "none"))
    ELSE IF ~IsEntity(t) THEN Fails("EntityTypeNotFound", t)
    ELSE CompileEntityType(t, stack)

(***************************************************************************)
(* Annotations: a term of the Redfish vocabulary and the type it names.    *)
(***************************************************************************)
CompileAnnotation(term, expected, stack) ==
    LET t == FindChildType(schema.terms[term].type) IN
    IF term \notin DOMAIN schema.terms THEN Fails("AnnotationNotFound", <<term>>)
    ELSE IF schema.terms[term].type = None \/ ~schema.terms[term].one
    THEN Fails("AnnotationInvalidType", <<term>>)
    ELSE IF t \notin Types \/ IsEntity(t) THEN Fails("AnnotationNotFound", <<term>>)
    ELSE Then(EnsureType(t, stack), LAMBDA r :
            IF r.info.class # expected THEN Fails("AnnotationInvalidType", <<term>>)
            ELSE Gives([r.out EXCEPT !.annotations = [x \in {term} |-> t]], r.info))

(***************************************************************************)
(* Actions: only those bound to a compiled complex type are kept; their    *)
(* return and parameter types are compiled on demand.                      *)
(***************************************************************************)
\* From parameter i on: the type info of each, "entity" for a parameter that is an entity.
RECURSIVE CompileParameters(_, _, _, _)
CompileParameters(declared, i, stack, made) ==
    IF i > Len(declared) THEN [error |-> <<>>, out |-> Done(stack), made |-> made]
    ELSE LET t == declared[i].type
             result == IF IsSimpleType(t) \/ (t \in Types /\ ~IsEntity(t)) THEN EnsureType(t, stack)
                       ELSE [EnsureEntityType(t, stack) EXCEPT !.info = Info("entity", "none")]
         IN  Then(result, LAMBDA r :
                CompileParameters(declared, i + 1, Merge(stack, r.out),
                                  Append(made, [type |-> t, info |-> r.info])))

CompileAction(a, outer) ==
    LET binding == a.parameters[1].type
        result  == IF a.returns = None THEN Gives(DefaultCompiled, Info("none", "none"))
                   ELSE EnsureType(a.returns, NewFrame(outer))
        made(parameters) ==
            [binding |-> binding, key |-> <<SubSeq(a.namespace, 1, 1), a.name>>,
             returns |-> a.returns, parameters |-> parameters]
    IN  IF ~a.isBound THEN Fails("NotBoundAction", a.name)
        ELSE IF a.parameters = <<>> THEN Fails("NoBindingParameterForAction", a.name)
        ELSE IF KnownComplex(outer, binding) = {} THEN Gives(DefaultCompiled, Info("none", "none"))
        ELSE Then(result, LAMBDA r :
             Then(CompileParameters(Tail(a.parameters), 1, Merge(NewFrame(outer), r.out), <<>>), LAMBDA rest :
                Gives(MergeCompiled(rest.out, NewAction(made(rest.made))), Info("none", "none"))))

(***************************************************************************)
(* The root set, by the entry point: the types asked for by name; the      *)
(* singletons asked for and what the patterns match; or all that the root  *)
(* documents declare.  The result is a set: types are stored in hash maps, *)
(* and what the patterns match comes out in any order.                     *)
(***************************************************************************)
Roots(entities, complexes) == [error |-> <<>>, entities |-> entities, complexes |-> complexes]
RefusedRoots(kind, t) == [error |-> <<kind, t>>, entities |-> <<>>, complexes |-> <<>>]
Sorted(S) == SelectSeq(NameOrder, LAMBDA t : t \in S)
DeclaredInRoots(kind) == {t \in schema.rootTypes : schema.types[t].kind = kind}
SelectedActions == SelectSeq(schema.actions, LAMBDA a : a.name \in schema.actionFilter)

RootSetNamed ==
    LET unknown == SelectSeq(schema.named, LAMBDA t : ~IsEntity(t) /\ ~IsComplex(t))
        roots(Kind(_)) == Sorted({FindChildType(t) : t \in {u \in ToSet(schema.named) : Kind(u)}})
    IN  IF unknown # <<>> THEN {RefusedRoots("RootTypeNotFound", unknown[1])}
        ELSE {Roots(roots(IsEntity), roots(IsComplex))}

RootSetFromSingletons ==
    LET asked   == SelectSeq(schema.singletons, LAMBDA s : s.name \in ToSet(schema.named))
        found   == [i \in DOMAIN asked |-> FindChildType(asked[i].type)]
        unknown == SelectSeq(found, LAMBDA t : ~IsEntity(t))
        matching(kind) == SetToSeqs(DeclaredInRoots(kind) \cap schema.patterns)
    IN  IF unknown # <<>> THEN {RefusedRoots("EntityTypeNotFound", unknown[1])}
        ELSE {Roots(found \o entities, complexes) :
                entities \in matching("entity"), complexes \in matching("complex")}

RootSetAll ==
    LET bound    == SelectSeq(SelectedActions, LAMBDA a : a.isBound /\ a.parameters # <<>>)
        bindings == {bound[i].parameters[1].type : i \in DOMAIN bound}
    IN  {Roots(Sorted(DeclaredInRoots("entity")), Sorted(DeclaredInRoots("complex") \cup bindings))}

RootSet ==
    CASE schema.entry = "compile_named_types" -> RootSetNamed
      [] schema.entry = "compile" -> RootSetFromSingletons
      [] schema.entry = "compile_all" -> RootSetAll

(***************************************************************************)
(* The steps of SchemaBundle::compile_root_set.                            *)
(***************************************************************************)
Resource == <<<<"Resource">>, "Resource">>
ResourceCollection == <<<<"Resource">>, "ResourceCollection">>
Outermost == <<[Frame("nothing", None) EXCEPT !.current = compiled]>>
RootsOf(kind, names) == [i \in DOMAIN names |-> [kind |-> kind, name |-> names[i]]]

CompilerInit ==
    /\ schema \in Bundles
    /\ phase = "index" /\ rootEntities = {} /\ pending = <<>>
    /\ compiled = DefaultCompiled /\ error = <<>>

BuildIndex ==
    /\ phase = "index"
    /\ \E roots \in IF FindInheritanceCycle = <<>> THEN RootSet
                     ELSE {RefusedRoots("CyclicType", FindInheritanceCycle)} :
          /\ phase' = IF roots.error = <<>> THEN "roots" ELSE "failed"
          /\ error' = roots.error
          /\ rootEntities' = ToSet(roots.entities)
          /\ pending' = RootsOf("entity", roots.entities) \o RootsOf("type", roots.complexes)
    /\ UNCHANGED <<schema, compiled>>

\* One fold step: the outputs are merged, or the first error ends the compilation.
Take(r, rest, next) ==
    IF r.error # <<>>
    THEN /\ error' = r.error /\ phase' = "failed" /\ UNCHANGED <<pending, compiled>>
    ELSE /\ compiled' = MergeCompiled(compiled, r.out)
         /\ pending' = rest /\ phase' = next /\ UNCHANGED error

CompileRoot ==
    /\ phase = "roots" /\ pending # <<>>
    /\ LET root == Head(pending) IN
       Take(IF root.kind = "entity" THEN EnsureEntityType(root.name, Outermost)
            ELSE EnsureType(root.name, Outermost), Tail(pending), phase)
    /\ UNCHANGED <<schema, rootEntities>>

CompileForResources ==
    /\ phase = "roots" /\ pending = <<>>
    /\ phase' = "annotations" /\ pending' = <<"Settings", "SettingsApplyTime">>
    /\ UNCHANGED <<schema, rootEntities, compiled, error>>

CompileResourceAnnotation ==
    /\ phase = "annotations" /\ pending # <<>>
    /\ Take(CompileAnnotation(Head(pending), "complex", Outermost), Tail(pending), phase)
    /\ UNCHANGED <<schema, rootEntities>>

EnsureResourceTypes ==
    Then(EnsureEntityType(Resource, Outermost), LAMBDA first :
    Then(EnsureEntityType(ResourceCollection, Merge(Outermost, first.out)), LAMBDA second :
        Gives(MergeCompiled(first.out, second.out), Info("none", "none"))))
CompileResourceTypes ==
    /\ phase = "annotations" /\ pending = <<>>
    /\ Take(EnsureResourceTypes, SelectedActions, "actions")
    /\ UNCHANGED <<schema, rootEntities>>

CompileSchemaAction ==
    /\ phase = "actions" /\ pending # <<>>
    /\ Take(CompileAction(Head(pending), Outermost), Tail(pending), phase)
    /\ UNCHANGED <<schema, rootEntities>>

\* Marks the types that carry @odata.type; the action annotation is only needed with an action.
MarkODataType ==
    /\ phase = "actions" /\ pending = <<>>
    /\ LET marked == [compiled EXCEPT !.entities = [t \in DOMAIN @ |->
                        [@[t] EXCEPT !.mustHaveType = t \in {Resource, ResourceCollection}]]]
           stack  == <<[Frame("nothing", None) EXCEPT !.current = marked]>>
           last   == IF compiled.actions = NoFunction THEN Gives(DefaultCompiled, Info("none", "none"))
                     ELSE CompileAnnotation("OperationApplyTime", "enum", stack)
           finish(r) ==
               IF r.error # <<>> THEN error' = r.error /\ phase' = "failed" /\ UNCHANGED compiled
               ELSE compiled' = MergeCompiled(marked, r.out) /\ phase' = "compiled" /\ UNCHANGED error
       IN  finish(last)
    /\ UNCHANGED <<schema, rootEntities, pending>>

CompilerNext ==
    \/ BuildIndex \/ CompileRoot \/ CompileForResources \/ CompileResourceAnnotation
    \/ CompileResourceTypes \/ CompileSchemaAction \/ MarkODataType
=============================================================================
