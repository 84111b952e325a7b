---------------------------- MODULE CsdlOptimizer ----------------------------
(***************************************************************************)
(* The optimizer of compiled schemas: five passes in a fixed order, each a *)
(* function from Compiled to Compiled that renames or folds types away     *)
(* (csdl-compiler/src/optimizer).                                          *)
(***************************************************************************)
EXTENDS CsdlCompiler

VARIABLES
    original,  \* history: the outputs as the compiler left them
    image      \* history: the type each of those types has become

optimizerVars == <<original, image>>

Replace(t, r) == At(r, t, t)
MapType(properties, r) ==
    [i \in DOMAIN properties |-> [properties[i] EXCEPT !.type = Replace(@, r)]]
MapProperties(types, r) ==
    [t \in DOMAIN types |-> [types[t] EXCEPT !.properties = MapType(@, r)]]
MapNavProperties(types, r) == [t \in DOMAIN types |-> [types[t] EXCEPT !.navs = MapType(@, r)]]
MapBase(types, r) == [t \in DOMAIN types |-> [types[t] EXCEPT !.base = Replace(@, r)]]
MapNames(names, r) == {Replace(t, r) : t \in names}
MapAnnotations(annotations, r) == [x \in DOMAIN annotations |-> Replace(annotations[x], r)]
Without(types, r) == [t \in DOMAIN types \ DOMAIN r |-> types[t]]
MapExcerpts(excerpts, r) ==
    [t \in MapNames(DOMAIN excerpts, r) |->
        UNION {excerpts[u] : u \in {v \in DOMAIN excerpts : Replace(v, r) = t}}]

\* The actions are collected into a map again: of two bindings that become one, the one
\* that comes last in the hash order keeps its actions.
MapTypesInActions(actions, r) ==
    LET mapped(a) == [a EXCEPT !.binding = Replace(@, r), !.returns = Replace(@, r),
                               !.parameters = MapType(@, r)]
        bindings  == MapNames(DOMAIN actions, r)
        keepers   == {k \in [bindings -> DOMAIN actions] : \A b \in bindings : Replace(k[b], r) = b}
    IN  {[b \in bindings |-> [x \in DOMAIN actions[k[b]] |-> mapped(actions[k[b]][x])]] : k \in keepers}

(***************************************************************************)
(* Empty types are replaced by their nearest ancestor that is not empty.   *)
(***************************************************************************)
EmptyComplexTypes(types) ==
    {t \in DOMAIN types : types[t].properties = <<>> /\ types[t].navs = <<>>}
ODataIsEmpty(et) == ~et.annotated /\ et.updatable = "none" /\ et.insertable = "none"
EmptyEntityTypes(types) ==
    {t \in DOMAIN types : /\ types[t].properties = <<>> /\ types[t].navs = <<>>
                          /\ ~types[t].key /\ ODataIsEmpty(types[t])}

RECURSIVE FindNonEmptyParent(_, _, _)
FindNonEmptyParent(types, empty, t) ==
    IF t \notin DOMAIN types THEN None
    ELSE IF t \notin empty THEN t
    ELSE FindNonEmptyParent(types, empty, types[t].base)
CollectReplacements(types, empty, keep) ==
    [t \in {u \in empty \ keep : FindNonEmptyParent(types, empty, u) # None} |->
        FindNonEmptyParent(types, empty, t)]

RemoveEmptyComplexTypes(c, r, actions) ==
    [c EXCEPT !.complexes = MapBase(MapProperties(Without(@, r), r), r),
              !.entities = MapProperties(@, r),
              !.annotations = MapAnnotations(@, r),
              !.actions = actions]

RemoveEmptyEntityTypes(c, r, actions) ==
    [c EXCEPT !.entities = MapBase(MapNavProperties(Without(@, r), r), r),
              !.complexes = MapNavProperties(@, r), !.creatable = MapNames(@, r),
              !.excerpts = MapExcerpts(@, r), !.annotations = MapAnnotations(@, r),
              !.actions = actions]

(***************************************************************************)
(* A parent with one child is folded into its last single descendant.      *)
(***************************************************************************)
SingleChildParents(types) ==
    LET derived(p) == {c \in DOMAIN types : types[c].base = p}
        parents    == {p \in {types[c].base : c \in DOMAIN types} : p # None /\ Cardinality(derived(p)) = 1}
    IN  [p \in parents |-> CHOOSE c \in derived(p) : TRUE]
RECURSIVE LastChild(_, _)
LastChild(single, t) == IF t \in DOMAIN single THEN LastChild(single, single[t]) ELSE t
FoldReplacements(single) == [p \in DOMAIN single |-> LastChild(single, single[p])]

\* Fold the removed ancestors into v: their properties come first, v's own annotations win.
MutFoldComplex(types, r, v) ==
    IF v.base \notin DOMAIN r THEN v
    ELSE LET p == types[v.base] IN
         [v EXCEPT !.base = p.base, !.properties = p.properties \o @, !.navs = p.navs \o @,
                   !.additional = IF @ = "none" THEN p.additional ELSE @]
RECURSIVE FoldComplex(_, _, _)
FoldComplex(types, r, v) ==
    IF v.base \notin DOMAIN r THEN v
    ELSE LET p == types[v.base] IN
         FoldComplex(types, r,
             [v EXCEPT !.base = p.base, !.properties = p.properties \o @, !.navs = p.navs \o @,
                       !.additional = IF @ = "none" THEN p.additional ELSE @])

RECURSIVE FoldEntity(_, _, _)
FoldEntity(types, r, v) ==
    IF v.base \notin DOMAIN r THEN v
    ELSE LET p == types[v.base]
             own(field) == IF v[field] = "none" THEN p[field] ELSE v[field]
         IN  FoldEntity(types, r,
                [v EXCEPT !.base = p.base, !.properties = p.properties \o @, !.navs = p.navs \o @,
                          !.additional = own("additional"), !.insertable = own("insertable"),
                          !.updatable = own("updatable"), !.annotated = @ \/ p.annotated,
                          !.mustHaveType = @ \/ p.mustHaveType])

\* The type infos are taken once, from the folded types; a change below them is not carried up.
PruneComplexTypeInheritance(c, r, actions) ==
    LET folded  == [t \in DOMAIN c.complexes \ DOMAIN r |-> FoldComplex(c.complexes, r, c.complexes[t])]
        infos   == [t \in DOMAIN folded |-> ComplexTypeInfo(t, folded[t])]
        refresh(properties) ==
            [i \in DOMAIN properties |->
                LET t == Replace(properties[i].type, r)
                IN  [properties[i] EXCEPT !.type = t, !.info = At(infos, t, @)]]
        all(types) == [t \in DOMAIN types |-> [types[t] EXCEPT !.properties = refresh(@)]]
    IN  [c EXCEPT !.complexes = all(folded), !.entities = all(@),
                  !.annotations = MapAnnotations(@, r), !.actions = actions]

PruneEntityTypeInheritance(c, r, actions) ==
    LET folded == [t \in DOMAIN c.entities \ DOMAIN r |-> FoldEntity(c.entities, r, c.entities[t])]
    IN  [c EXCEPT !.entities = MapNavProperties(folded, r),
                  !.complexes = MapNavProperties(@, r), !.creatable = MapNames(@, r),
                  !.excerpts = MapExcerpts(@, r), !.annotations = MapAnnotations(@, r),
                  !.actions = actions]

(***************************************************************************)
(* A name moves to the highest enclosing namespace in which it is unique.  *)
(***************************************************************************)
PruneNamespacesReplacements(names) ==
    LET count(ns, id) == Cardinality({u \in names : u[2] = id /\ IsPrefix(ns, u[1])})
        unique(t, k)  == \A j \in k .. Len(t[1]) - 1 : count(SubSeq(t[1], 1, j), t[2]) = 1
        best(t)       == Min({k \in 1 .. Len(t[1]) : unique(t, k)})
    IN  [t \in {u \in names : best(u) < Len(u[1])} |-> <<SubSeq(t[1], 1, best(t)), t[2]>>]
RenameKeys(types, r) ==
    [t \in MapNames(DOMAIN types, r) |-> types[CHOOSE u \in DOMAIN types : Replace(u, r) = t]]

PruneEnums(c, r, actions) ==
    [c EXCEPT !.enums = MapNames(@, r), !.complexes = MapProperties(@, r),
              !.entities = MapProperties(@, r), !.annotations = MapAnnotations(@, r),
              !.actions = actions]
PruneTypeDefinitions(c, r, actions) ==
    [c EXCEPT !.definitions = MapNames(@, r), !.complexes = MapProperties(@, r),
              !.entities = MapProperties(@, r), !.annotations = MapAnnotations(@, r),
              !.actions = actions]
PruneComplexTypes(c, r, actions) ==
    [c EXCEPT !.complexes = MapBase(MapProperties(RenameKeys(@, r), r), r),
              !.entities = MapProperties(@, r), !.annotations = MapAnnotations(@, r),
              !.actions = actions]
PruneEntityTypes(c, r, actions) ==
    [c EXCEPT !.entities = MapBase(MapNavProperties(RenameKeys(@, r), r), r),
              !.excerpts = RenameKeys(@, r), !.creatable = MapNames(@, r),
              !.complexes = MapNavProperties(@, r), !.annotations = MapAnnotations(@, r),
              !.actions = actions]

(***************************************************************************)
(* The passes, in the order optimize folds over them.                      *)
(***************************************************************************)
Passes == <<"compiled", "emptyComplexes", "emptyEntities", "foldedComplexes", "foldedEntities",
            "enums", "definitions", "complexes", "optimized">>
After(p) == Passes[(CHOOSE i \in DOMAIN Passes : Passes[i] = p) + 1]
NamesOf(c) == DOMAIN c.entities \cup DOMAIN c.complexes \cup c.enums \cup c.definitions

Pass(from, r, Apply(_, _, _)) ==
    /\ phase = from
    /\ \E actions \in MapTypesInActions(compiled.actions, r) : compiled' = Apply(compiled, r, actions)
    /\ original' = IF from = "compiled" THEN compiled ELSE original
    /\ image' = IF from = "compiled" THEN [t \in NamesOf(compiled) |-> Replace(t, r)]
                ELSE [t \in DOMAIN image |-> Replace(image[t], r)]
    /\ phase' = After(from)
    /\ UNCHANGED <<schema, rootEntities, pending, error>>

RemoveEmptyComplexTypesPass ==
    Pass("compiled", CollectReplacements(compiled.complexes, EmptyComplexTypes(compiled.complexes), {}),
         RemoveEmptyComplexTypes)
RemoveEmptyEntityTypesPass ==
    Pass("emptyComplexes",
         CollectReplacements(compiled.entities, EmptyEntityTypes(compiled.entities), NeverPrune),
         RemoveEmptyEntityTypes)
PruneComplexTypeInheritancePass ==
    Pass("emptyEntities", FoldReplacements(SingleChildParents(compiled.complexes)),
         PruneComplexTypeInheritance)
FoldableParents(types) ==
    LET single == SingleChildParents(types)
    IN  [p \in {q \in DOMAIN single : q \in DOMAIN types /\ q \notin NeverPrune /\ ~types[q].key} |-> single[p]]
PruneEntityTypeInheritancePass ==
    Pass("foldedComplexes", FoldReplacements(FoldableParents(compiled.entities)),
         PruneEntityTypeInheritance)
PruneNamespacesPass ==
    \/ Pass("foldedEntities", PruneNamespacesReplacements(compiled.enums), PruneEnums)
    \/ Pass("enums", PruneNamespacesReplacements(compiled.definitions), PruneTypeDefinitions)
    \/ Pass("definitions", PruneNamespacesReplacements(DOMAIN compiled.complexes), PruneComplexTypes)
    \/ Pass("complexes", PruneNamespacesReplacements(DOMAIN compiled.entities), PruneEntityTypes)

OptimizerNext ==
    \/ RemoveEmptyComplexTypesPass \/ RemoveEmptyEntityTypesPass \/ PruneComplexTypeInheritancePass
    \/ PruneEntityTypeInheritancePass \/ PruneNamespacesPass
=============================================================================
