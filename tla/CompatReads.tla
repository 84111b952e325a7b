----------------------------- MODULE CompatReads -----------------------------
(***************************************************************************)
(* The documents that are read through CompatBmc: what a device with its   *)
(* quirks sends (external), and what the repairs make of it for the        *)
(* caller.                                                                 *)
(***************************************************************************)
EXTENDS CompatBmc, Repairs

CONSTANTS Documents,   \* documents a device may send, before its defects
          UserRules    \* the caller's rules, as sequences

(* The values by which each quirk departs from the schema. *)
Defects == {
    <<"MissingUpdateServiceNameField", "UpdateService", "Name", "absent">>,
    <<"FwInventoryWrongReleaseDate", "SoftwareInventory", "ReleaseDate", "zero">>,
    <<"InvalidContainedByFields", "Chassis", "ContainedBy", "annotated">>,
    <<"AnnotatedChassisCertificatesLink", "Chassis", "Certificates", "annotated">>,
    <<"MissingChassisTypeField", "Chassis", "ChassisType", "absent">>,
    <<"MissingChassisNameField", "Chassis", "Name", "absent">>,
    <<"InvalidChassisUuidField", "Chassis", "UUID", "empty">>,
    <<"InvalidChassisUuidField", "Chassis", "UUID", "template">>,
    <<"ComputerSystemsWrongLastResetTime", "ComputerSystem", "LastResetTime", "zero">>,
    <<"EmptyNetworkAdapterControllers", "NetworkAdapter", "Controllers", "empty object">>,
    <<"EmptyUuidField", "ComputerSystem", "UUID", "empty">>,
    <<"CompositeBootOrderEntries", "ComputerSystem", "BootOrder", "composite">>,
    <<"PowerShelfStates", "Chassis", "State", "Standby">>,
    <<"PowerShelfStates", "Manager", "State", "Sleep">>,
    <<"PowerShelfStates", "PowerSupply", "State", "Sleep">>,
    <<"NoAccountTypeInAccounts", "ManagerAccount", "AccountTypes", "absent">>,
    <<"PasswordExpirationWithoutSeconds", "ManagerAccount", "PasswordExpiration", "minutes">>,
    <<"IncompleteAccountServiceCertificateCollection", "CertificateCollection", "Name", "absent">>,
    <<"CertificateTypeWrongPemChainCase", "Certificate", "CertificateType", "PEMChain">>,
    <<"CertificateTypeWrongPemChainCase", "CertificateCollection", "CertificateType", "PEMChain">>}

(* A certificate collection lacks its name only inside an AccountService. *)
DefectsOf(quirks, doc, outer) ==
    {d \in Defects : /\ d[1] \in quirks
                     /\ doc.type = <<d[2], d[2]>>
                     /\ Has(doc, d[3])
                     /\ d[4] = "absent" /\ d[2] = "CertificateCollection"
                           => outer = "AccountService"}
Defective(doc, defects) ==
    FoldLeft(LAMBDA d, x : [d EXCEPT !.props[x[3]] = x[4]], doc, SetToSeq(defects))

(* Every way a device with the quirks may send the document, where a        *)
(* property has one value.                                                  *)
Functional(defects) == \A d, e \in defects : d[3] = e[3] => d = e
SentForms(quirks, doc, outer) ==
    {Defective(doc, ds) : ds \in {ds \in SUBSET DefectsOf(quirks, doc, outer) : Functional(ds)}}

(* CompatBmc::get, expand and filter over a RulesBmc. *)
ReadDocument ==
    /\ MayCall
    /\ \E doc \in Documents : \E inner \in Documents : \E rules \in UserRules :
       \E outerForm \in SentForms(bmcQuirks, doc, "nothing"),
          innerForm \in SentForms(bmcQuirks, inner, doc.type[1]) :
          LET whole == [outerForm EXCEPT !.inlined = <<innerForm>>]
          IN  Reads(whole, ReadThrough(bmcQuirks, rules, whole), rules)

CompatNext == CompatStep \/ ReadDocument

----------------------------------------------------------------------------
(* A value the schema accepts for the property. *)
Readable(doc, property) ==
    LET v == doc.props[property]
    IN  \/ v \in {"valid", "default", "reference", "upload", "StandbySpare", "StandbyOffline",
                  "changed by the caller"}
        \/ v \in {"absent", "null"} /\ property \in
              {"UUID", "ReleaseDate", "LastResetTime", "MultipartHttpPushUri", "NvidiaReset"}
AllReadable(doc) == \A p \in DOMAIN doc.props : Readable(doc, p)

(* Whatever a device with the quirks its root announces sends, the document *)
(* the caller gets can be deserialized, inlined documents included; a value *)
(* that was readable is not changed by the platform's repairs, unless it is *)
(* one an action or a URI is advertised in; and repairing again changes     *)
(* nothing, so a reply repaired twice is the reply.                         *)
DocumentsReadable ==
    read.kind = "document" =>
        LET platform == PlatformRepair(bmcQuirks, sent.doc)
            parts == {<<sent.doc, platform>>} \cup
                        {<<sent.doc.inlined[i], platform.inlined[i]>> : i \in DOMAIN platform.inlined}
        IN  /\ AllReadable(read.doc)
            /\ \A i \in DOMAIN read.doc.inlined : AllReadable(read.doc.inlined[i])
            /\ PlatformRepair(bmcQuirks, platform) = platform
            /\ \A pair \in parts :
                  ~pair[2].bare => \A p \in DOMAIN pair[1].props :
                      Readable(pair[1], p) =>
                          \/ pair[2].props[p] = pair[1].props[p]
                          \/ p \in {"MultipartHttpPushUri", "NvidiaReset"}
=============================================================================
