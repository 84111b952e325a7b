------------------------------- MODULE Repairs -------------------------------
(***************************************************************************)
(* The repairs of documents in the quirks crate: the fixes, the table that *)
(* says which quirk needs which, the rules a caller adds, and the walk     *)
(* that applies them to a document and to what it inlines.                 *)
(*                                                                         *)
(* A document keeps what the repairs look at: its type (`@odata.type`,     *)
(* version aside, as schema and name), its `@odata.id` as path segments,   *)
(* the abstract values of some of its properties, and the documents        *)
(* inlined in it.  A property's value is named for what the schema and the *)
(* repairs tell apart: "absent", "null", "valid" or the device's own kind  *)
(* of invalid value.                                                       *)
(***************************************************************************)
EXTENDS Naturals, Sequences, SequencesExt

----------------------------------------------------------------------------
(* The fixes. *)

Has(doc, property) == property \in DOMAIN doc.props
Rewrite(doc, property, from, to) ==
    IF Has(doc, property) /\ doc.props[property] \in from
    THEN [doc EXCEPT !.props[property] = to] ELSE doc

add_default_update_service_name(doc) == Rewrite(doc, "Name", {"absent"}, "default")

(* A missing, non-text or blank URI is replaced by the service's own. *)
advertise_multipart_http_push_uri(doc) ==
    Rewrite(doc, "MultipartHttpPushUri", {"absent", "null", "blank"}, "upload")

remove_wrong_release_date(doc) == Rewrite(doc, "ReleaseDate", {"zero"}, "absent")
remove_invalid_contained_by_fields(doc) ==
    Rewrite(doc, "ContainedBy", {"annotated"}, "reference")
certificates_as_reference(doc) == Rewrite(doc, "Certificates", {"annotated"}, "reference")
add_default_chassis_type(doc) == Rewrite(doc, "ChassisType", {"absent"}, "default")
add_default_chassis_name(doc) == Rewrite(doc, "Name", {"absent"}, "default")
normalize_empty_uuid_field(doc) == Rewrite(doc, "UUID", {"empty"}, "null")
normalize_invalid_uuid_field(doc) == Rewrite(doc, "UUID", {"empty", "template"}, "null")

(* Only on the chassis BlueField_0, where the action is not advertised. *)
advertise_bluefield_nvidia_chassis_reset(doc) ==
    IF Last(doc.id) = "BlueField_0"
    THEN Rewrite(doc, "NvidiaReset", {"absent"}, "valid") ELSE doc

normalize_empty_network_adapter_controllers(doc) ==
    Rewrite(doc, "Controllers", {"empty object"}, "valid")
remove_wrong_last_reset_time(doc) == Rewrite(doc, "LastResetTime", {"zero"}, "absent")
add_password_expiration_seconds(doc) ==
    Rewrite(doc, "PasswordExpiration", {"minutes"}, "valid")
normalize_vera_rubin_composite_boot_order(doc) ==
    Rewrite(doc, "BootOrder", {"composite"}, "valid")
append_default_account_type(doc) == Rewrite(doc, "AccountTypes", {"absent"}, "default")
normalize_pem_chain_type(doc) == Rewrite(doc, "CertificateType", {"PEMChain"}, "valid")
normalize_power_shelf_states(doc) ==
    Rewrite(Rewrite(doc, "State", {"Standby"}, "StandbySpare"),
            "State", {"Sleep"}, "StandbyOffline")
remove_invalid_power_supply_location_indicator_active(doc) ==
    Rewrite(doc, "LocationIndicatorActive", {"object"}, "absent")

(* A bare reference: the type and every property are gone. *)
Bare(doc) == [doc EXCEPT !.type = <<"absent", "absent">>, !.props = <<>>, !.inlined = <<>>,
                         !.bare = TRUE]

(* Inlined certificate collections without a Name become references to     *)
(* themselves, at any depth below the document.                            *)
RECURSIVE Unstubbed(_)
Unstubbed(doc) ==
    IF doc.type[1] = "CertificateCollection" /\ Has(doc, "Name") /\ doc.props["Name"] = "absent"
    THEN Bare(doc)
    ELSE [doc EXCEPT !.inlined = [i \in DOMAIN @ |-> Unstubbed(@[i])]]
normalize_dpu_certificate_collection_stubs(doc) == Unstubbed(doc)

----------------------------------------------------------------------------
(* The repair table: type, quirk that enables the rule, fix; in the order   *)
(* in which the rules for one type apply.                                   *)
RepairRules == <<
    <<"UpdateService", "MissingUpdateServiceNameField", "update service name">>,
    <<"UpdateService", "UnadvertisedMultipartHttpPushUri", "push uri">>,
    <<"SoftwareInventory", "FwInventoryWrongReleaseDate", "release date">>,
    <<"Chassis", "InvalidContainedByFields", "contained by">>,
    <<"Chassis", "AnnotatedChassisCertificatesLink", "certificates">>,
    <<"Chassis", "MissingChassisTypeField", "chassis type">>,
    <<"Chassis", "MissingChassisNameField", "chassis name">>,
    <<"Chassis", "InvalidChassisUuidField", "invalid uuid">>,
    <<"Chassis", "UnadvertisedNvidiaChassisReset", "chassis reset">>,
    <<"ComputerSystem", "ComputerSystemsWrongLastResetTime", "last reset time">>,
    <<"NetworkAdapter", "EmptyNetworkAdapterControllers", "controllers">>,
    <<"ComputerSystem", "EmptyUuidField", "empty uuid">>,
    <<"ComputerSystem", "CompositeBootOrderEntries", "boot order">>,
    <<"Chassis", "PowerShelfStates", "states">>,
    <<"Manager", "PowerShelfStates", "states">>,
    <<"PowerSupply", "PowerShelfStates", "states">>,
    <<"ManagerAccount", "NoAccountTypeInAccounts", "account type">>,
    <<"ManagerAccount", "PasswordExpirationWithoutSeconds", "password expiration">>,
    <<"AccountService", "IncompleteAccountServiceCertificateCollection", "stubs">>,
    <<"Certificate", "CertificateTypeWrongPemChainCase", "pem chain">>,
    <<"CertificateCollection", "CertificateTypeWrongPemChainCase", "pem chain">> >>

ApplyFix(name, doc) ==
    CASE name = "update service name" -> add_default_update_service_name(doc)
      [] name = "push uri" -> advertise_multipart_http_push_uri(doc)
      [] name = "release date" -> remove_wrong_release_date(doc)
      [] name = "contained by" -> remove_invalid_contained_by_fields(doc)
      [] name = "certificates" -> certificates_as_reference(doc)
      [] name = "chassis type" -> add_default_chassis_type(doc)
      [] name = "chassis name" -> add_default_chassis_name(doc)
      [] name = "invalid uuid" -> normalize_invalid_uuid_field(doc)
      [] name = "chassis reset" -> advertise_bluefield_nvidia_chassis_reset(doc)
      [] name = "last reset time" -> remove_wrong_last_reset_time(doc)
      [] name = "controllers" -> normalize_empty_network_adapter_controllers(doc)
      [] name = "empty uuid" -> normalize_empty_uuid_field(doc)
      [] name = "boot order" -> normalize_vera_rubin_composite_boot_order(doc)
      [] name = "states" -> normalize_power_shelf_states(doc)
      [] name = "account type" -> append_default_account_type(doc)
      [] name = "password expiration" -> add_password_expiration_seconds(doc)
      [] name = "stubs" -> normalize_dpu_certificate_collection_stubs(doc)
      [] name = "pem chain" -> normalize_pem_chain_type(doc)
      [] OTHER -> Rewrite(doc, name, {"valid"}, "changed by the caller")

(* rules::enabled. *)
Enabled(quirks) == SelectSeq(RepairRules, LAMBDA rule : rule[2] \in quirks)

(* TypeName::is_named: a resource type is named by its schema alone. *)
IsNamed(type, named) == type = <<named, named>>

(* Enabled's choice of fixes for one object. *)
PlatformFixes(rules, doc) ==
    LET chosen == SelectSeq(rules, LAMBDA rule : IsNamed(doc.type, rule[1]))
    IN  [i \in DOMAIN chosen |-> chosen[i][3]]

(* UserRule: Match::Type, by schema and name, or Match::Id with `*`     *)
(* for any one segment, which no bare reference matches.                    *)
MatchesId(pattern, id) ==
    /\ Len(pattern) = Len(id)
    /\ \A i \in DOMAIN id : pattern[i] \in {"*", id[i]}
Applies(rule, doc) ==
    \/ rule.by = "type" /\ doc.type = rule.type
    \/ rule.by = "id" /\ ~doc.bare /\ MatchesId(rule.pattern, doc.id)
UserFixes(rules, doc) ==
    LET chosen == SelectSeq(rules, LAMBDA rule : Applies(rule, doc))
    IN  [i \in DOMAIN chosen |-> chosen[i].fix]

(* walk: an object's fixes are chosen before any of them runs and applied   *)
(* in order, then its children as the fixes left them.                      *)
Folded(names, doc) == FoldLeft(LAMBDA d, name : ApplyFix(name, d), doc, names)

(* Mutant: only the document itself is repaired, not what it inlines. *)
WalkTop(doc, rules, byUser) ==
    Folded(IF byUser THEN UserFixes(rules, doc) ELSE PlatformFixes(rules, doc), doc)

RECURSIVE Walk(_, _, _)
Walk(doc, rules, byUser) ==
    LET fixed == Folded(IF byUser THEN UserFixes(rules, doc) ELSE PlatformFixes(rules, doc), doc)
    IN  [fixed EXCEPT !.inlined = [i \in DOMAIN @ |-> Walk(@[i], rules, byUser)]]

PlatformRepair(quirks, doc) == Walk(doc, Enabled(quirks), FALSE)
UserRepair(rules, doc) == Walk(doc, rules, TRUE)

(* CompatBmc over RulesBmc: on a read the caller's rules run after the      *)
(* platform's (Then); the service root and event payloads are read with the *)
(* caller's rules only, and repaired by the layer afterwards.               *)
ReadThrough(quirks, rules, doc) == UserRepair(rules, PlatformRepair(quirks, doc))
RepairedAfterwards(quirks, rules, doc) == PlatformRepair(quirks, UserRepair(rules, doc))
=============================================================================
