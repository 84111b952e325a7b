-------------------------------- MODULE MCCsdl --------------------------------
(***************************************************************************)
(* Bundles around one resource and its collection, in the way Redfish lays *)
(* schemas out: an abstract type, versions deriving from each other, types *)
(* held by value, an actions type and the settings vocabulary.             *)
(***************************************************************************)
EXTENDS CsdlGenerator

String == <<<<"Edm">>, "String">>
Item == <<<<"Resource">>, "Item">>
Sys == <<<<"S">>, "Sys">>
Sys1 == <<<<"S", "v1">>, "Sys">>
Sys2 == <<<<"S", "v2">>, "Sys">>
SysCollection == <<<<"SC">>, "SysCollection">>
Part1 == <<<<"S", "v1">>, "Part">>
Part2 == <<<<"S", "v2">>, "Part">>
Part3 == <<<<"S", "v3">>, "Part">>
Slot == <<<<"S", "v1">>, "Slot">>
Mode == <<<<"S", "v1">>, "Mode">>
Mode2 == <<<<"S", "v2">>, "Mode">>
Code == <<<<"S", "v2">>, "Code">>
Actions1 == <<<<"S", "v1">>, "Actions">>
Actions2 == <<<<"S", "v2">>, "Actions">>
Missing == <<<<"S", "v9">>, "Gone">>
Settings == <<<<"Settings">>, "Settings">>
Settings1 == <<<<"Settings", "v1">>, "Settings">>
ApplyTime == <<<<"Settings">>, "PreferredApplyTime">>
OperationApplyTime == <<<<"Settings">>, "OperationApplyTime">>

MCNameOrder == <<Item, Resource, ResourceCollection, Sys, Actions1, Mode, Part1, Slot, Sys1, Actions2,
    Code, Mode2, Part2, Sys2, Part3, SysCollection, OperationApplyTime, ApplyTime, Settings, Settings1>>
MCNeverPrune == {Item}

Declared(kind, base, properties) ==
    [kind |-> kind, base |-> base, properties |-> properties, key |-> FALSE, updatable |-> "none",
     insertable |-> "none", annotated |-> FALSE, additional |-> "none", dynamic |-> FALSE,
     permissions |-> "none", abstract |-> FALSE, underlying |-> String]
Property(name, type) ==
    [name |-> name, type |-> type, nav |-> FALSE, one |-> TRUE, permissions |-> "none",
     requiredOnCreate |-> FALSE, excerpt |-> "none"]
Several(p) == [p EXCEPT !.one = FALSE]
Nav(p) == [p EXCEPT !.nav = TRUE]
ReadOnly(p) == [p EXCEPT !.permissions = "Read"]
Excerpt(p) == [Nav(p) EXCEPT !.excerpt = "AllKeys"]
Complex(base, properties) == Declared("complex", base, properties)
Entity(base, properties) == [Declared("entity", base, properties) EXCEPT !.annotated = properties # <<>>]

Part1Choices == {
    Complex(None, <<>>),
    [Complex(None, <<Property("Label", String)>>) EXCEPT !.additional = "yes"],
    Complex(None, <<ReadOnly(Property("Label", Mode))>>),
    Complex(None, <<Property("Slot", Slot)>>),
    Complex(None, <<Several(Property("Parts", Part1)), Property("Code", Code)>>),
    Complex(Part2, <<Property("Label", String)>>)}
Part2Choices == {
    Complex(Part1, <<>>),
    [Complex(Part1, <<>>) EXCEPT !.additional = "yes"],
    Complex(Part1, <<ReadOnly(Property("Serial", String))>>),
    Complex(Part1, <<[Property("Model", Mode2) EXCEPT !.requiredOnCreate = TRUE]>>),
    Complex(Part1, <<Several(Property("Slots", Slot))>>)}
SlotChoices == {
    Complex(None, <<ReadOnly(Property("Number", String))>>),
    Complex(None, <<Property("Part", Part1)>>),
    Complex(None, <<Several(Property("Slots", Slot))>>),
    Complex(None, <<Property("Inner", Slot)>>),
    Complex(None, <<Property("Gone", Missing)>>),
    Complex(None, <<Nav(Property("Owner", Sys)), Property("Held", Part2)>>)}
PlainSys == <<Property("Part", Part1), Property("Actions", Actions1)>>
LinkedSys == <<Several(Property("Parts", Part1)), Property("Mode", Mode), Nav(Property("Peer", Sys)),
               ReadOnly(Property("Actions", Actions2))>>
ExcerptSys == <<Property("Part", Part3), Excerpt(Property("Reading", Sys)), Property("Actions", Actions1)>>
PlainSys2 == Entity(Sys1, <<>>)
SlotSys2 == Entity(Sys1, <<Property("Slot", Slot)>>)

Action(name, parameters, returns) ==
    [name |-> name, namespace |-> <<"S">>, isBound |-> TRUE, returns |-> returns,
     parameters |-> parameters]
Parameter(type) == [type |-> type]
ResetAndSwap ==
    <<Action("Reset", <<Parameter(Actions1), Parameter(Mode)>>, None),
      Action("Swap", <<Parameter(Actions1), Parameter(Part2), Parameter(Sys)>>, Slot)>>
Unbound == <<[Action("Reset", <<Parameter(Actions1)>>, None) EXCEPT !.isBound = FALSE]>>
LaterReset == <<Action("Reset", <<Parameter(Actions2), Parameter(String), Parameter(Slot)>>, None)>>
ResetAndLaterSwap ==
    <<Action("Reset", <<Parameter(Actions1), Parameter(Mode)>>, None),
      Action("Swap", <<Parameter(Actions2), Parameter(Part2)>>, Slot)>>

Fixed ==
       Item :> [Entity(None, <<>>) EXCEPT !.abstract = TRUE]
    @@ Resource :> [Entity(Item, <<ReadOnly(Property("Id", String))>>) EXCEPT !.abstract = TRUE, !.key = TRUE]
    @@ ResourceCollection :> [Entity(Item, <<ReadOnly(Property("Name", String))>>) EXCEPT !.abstract = TRUE]
    @@ Sys :> [Entity(Resource, <<>>) EXCEPT !.abstract = TRUE]
    @@ SysCollection :> [Entity(ResourceCollection, <<Several(Nav(Property("Members", Sys)))>>)
                            EXCEPT !.insertable = "yes"]
    @@ Mode :> Declared("enum", None, <<>>)
    @@ Mode2 :> Declared("enum", None, <<>>)
    @@ Code :> Declared("definition", None, <<>>)
    @@ Actions1 :> Complex(None, <<ReadOnly(Property("Oem", String))>>)
    @@ Actions2 :> Complex(Actions1, <<>>)
    @@ Settings :> Complex(None, <<>>)
    @@ Settings1 :> Complex(Settings, <<ReadOnly(Property("Time", String))>>)
    @@ ApplyTime :> Complex(None, <<Property("At", String)>>)
    @@ OperationApplyTime :> Declared("enum", None, <<>>)
    @@ [varied \in {Part1, Part2, Part3, Slot, Sys1, Sys2} |-> Complex(None, <<>>)]

\* The documents of S and SC are root documents; Resource and Settings are there to resolve names.
RootDocuments == {t \in DOMAIN Fixed : t[1][1] \in {"S", "SC"}}
Asked(entry, named, patterns, filter) ==
    [entry |-> entry, named |-> named, patterns |-> patterns, filter |-> filter]
Selections == {
    Asked("compile", <<"System">>, {}, {}),
    Asked("compile", <<"Systems">>, {Sys2, Part1, Slot}, {Sys}),
    Asked("compile_named_types", <<Slot>>, {}, {Sys}),
    Asked("compile_named_types", <<SysCollection, Part2, Sys, Sys1>>, {}, {}),
    Asked("compile_all", <<>>, {}, {})}
Term(type) == [one |-> TRUE, type |-> type]
Terms == [Settings |-> Term(Settings), SettingsApplyTime |-> Term(ApplyTime),
          OperationApplyTime |-> Term(OperationApplyTime)]
Bundle(types, actions, asked) ==
    [types |-> types, rootTypes |-> RootDocuments, actions |-> actions, entry |-> asked.entry,
     singletons |-> <<[name |-> "System", type |-> Sys], [name |-> "Systems", type |-> SysCollection],
                      [name |-> "Broken", type |-> Missing]>>,
     named |-> asked.named, patterns |-> asked.patterns, filter |-> asked.filter,
     includeExcerpts |-> asked.filter # {}, actionFilter |-> {"Reset", "Swap"}, terms |-> Terms]
Varied(p1, p2, p3, slot, sys) ==
    [Fixed EXCEPT ![Part1] = p1, ![Part2] = p2, ![Part3] = p3, ![Slot] = slot,
                  ![Sys1] = [Entity(Sys, sys[1]) EXCEPT !.updatable = "yes"], ![Sys2] = sys[2]]

\* Bundles whose roots or terms are refused.
Plain ==
    Varied(Complex(None, <<>>), Complex(Part1, <<>>), Complex(Part1, <<>>),
           Complex(None, <<Property("Number", String)>>), <<PlainSys, PlainSys2>>)
RefusedBundles ==
    {Bundle(Plain, <<>>, asked) : asked \in {
        Asked("compile", <<"Broken", "System">>, {}, {}),
        Asked("compile_named_types", <<Slot, Mode>>, {}, {}),
        Asked("compile_named_types", <<Missing>>, {}, {})}}
    \cup {[Bundle(Plain, <<>>, Asked("compile_named_types", <<Slot>>, {}, {}))
            EXCEPT !.terms = terms] : terms \in {
        [Terms EXCEPT !.Settings.one = FALSE],
        [Terms EXCEPT !.Settings.type = None],
        [Terms EXCEPT !.Settings.type = Mode],
        [Terms EXCEPT !.SettingsApplyTime.type = Missing],
        [Settings |-> Term(Settings)]}}
MCBundles ==
    {Bundle(Varied(p1, p2, p3, slot, sys), sys[3], asked) :
        p1 \in Part1Choices, p2 \in Part2Choices,
        p3 \in {Complex(Part1, <<>>), Complex(Part2, <<Property("Extra", String)>>)},
        slot \in SlotChoices,
        sys \in {<<PlainSys, PlainSys2, <<>>>>, <<PlainSys, SlotSys2, Unbound>>,
                <<LinkedSys, SlotSys2, ResetAndSwap>>, <<LinkedSys, PlainSys2, LaterReset>>,
                <<LinkedSys, PlainSys2, ResetAndLaterSwap>>, <<ExcerptSys, SlotSys2, LaterReset>>},
        asked \in Selections}
    \cup RefusedBundles

Next == CsdlNext \/ CsdlDone
Spec == CsdlInit /\ [][Next]_csdlVars
=============================================================================
