------------------------------ MODULE MCRedfish ------------------------------
(***************************************************************************)
(* The typed Redfish layer and the compatibility layer below it.  A        *)
(* behaviour is about one of the parts, which share no state.              *)
(***************************************************************************)
EXTENDS CompatReads, Accounts, AsyncAction, ResourceTree

VARIABLE subject  \* the part a behaviour is about

Root(vendor, product, version, rtp, ami) ==
    [Vendor |-> vendor, Product |-> product, RedfishVersion |-> version, RtpVersion |-> rtp,
     Ami |-> ami]
MCRoots == {
    Root("HPE", "absent", "1.13.0", "absent", FALSE),
    Root("Dell", "absent", "1.17.0", "absent", FALSE),
    Root("AMI", "absent", "1.11.0", "absent", FALSE),
    Root("AMI", "absent", "1.13.0", "13.09.1", FALSE),
    Root("Lenovo", "absent", "1.15.0", "absent", FALSE),
    Root("Lenovo", "absent", "1.15.0", "absent", TRUE),
    Root("NVIDIA", "VR NVL72", "1.17.0", "absent", FALSE),
    Root("NVIDIA", "GB BMC", "1.17.0", "absent", FALSE),
    Root("Nvidia", "BlueField-4", "1.17.0", "absent", FALSE),
    Root("Nvidia", "BlueField-3 DPU", "1.17.0", "absent", FALSE),
    Root("WIWYNN", "absent", "1.17.0", "absent", FALSE),
    Root("Supermicro", "absent", "1.14.0", "absent", FALSE),
    Root("LITE-ON", "absent", "1.9.0", "absent", FALSE),
    Root("absent", "absent", "1.9.0", "absent", FALSE)}

Doc(type, id, properties) ==
    [type |-> <<type, type>>, id |-> id, props |-> [p \in properties |-> "valid"],
     inlined |-> <<>>, bare |-> FALSE]
MCDocuments == {
    Doc("Chassis", <<"Chassis", "BlueField_0">>, {"Name", "ChassisType", "ContainedBy",
        "Certificates", "UUID", "State"}),
    [Doc("Chassis", <<"Chassis", "1">>, {"UUID", "NvidiaReset"}) EXCEPT !.props["NvidiaReset"] = "absent"],
    Doc("ComputerSystem", <<"Systems", "1">>, {"LastResetTime", "UUID", "BootOrder"}),
    [Doc("UpdateService", <<"UpdateService">>, {"Name", "MultipartHttpPushUri"})
        EXCEPT !.props["MultipartHttpPushUri"] = "null"],
    Doc("SoftwareInventory", <<"UpdateService", "BMC">>, {"ReleaseDate"}),
    Doc("NetworkAdapter", <<"Chassis", "1", "NIC">>, {"Controllers"}),
    Doc("Manager", <<"Managers", "BMC">>, {"State"}),
    Doc("PowerSupply", <<"Chassis", "1", "PSU">>, {"State"}),
    Doc("AccountService", <<"AccountService">>, {}),
    Doc("ManagerAccount", <<"AccountService", "1">>, {"AccountTypes", "PasswordExpiration"}),
    Doc("CertificateCollection", <<"AccountService", "Certificates">>, {"Name", "CertificateType"}),
    Doc("Certificate", <<"AccountService", "Certificates", "1">>, {"CertificateType"})}

MCUserRules == {
    <<>>,
    <<[by |-> "type", type |-> <<"Chassis", "Chassis">>, fix |-> "Name"],
      [by |-> "id", pattern |-> <<"Chassis", "*">>, fix |-> "UUID"]>>}

Record(memberId, odataId, eventId, eventType, logEntry, timestamp) ==
    [memberId |-> memberId, odataId |-> odataId, eventId |-> eventId, eventType |-> eventType,
     logEntry |-> logEntry, timestamp |-> timestamp]
Records ==
    {Record(m, o, e, t, l, s) : m \in {NoId, SentId("5")}, o \in {NoId, SentId("own")},
        e \in {NoId, SentId("9")}, t \in {"absent", "Alert"}, l \in {"absent", "empty", "link"},
        s \in {"absent", "compact"}}
MCPayloads ==
    {[type |-> t, id |-> i, odataId |-> o, records |-> <<r, q>>] :
        t \in {"Event", "MetricReport", "Other"}, i \in {"absent", "null", "3"}, o \in {"absent", "own"},
        r \in Records,
        q \in {x \in Records : x.memberId = NoId /\ x.eventType = "absent" /\ x.logEntry = "absent"
                               /\ x.timestamp = "absent"}}

Symmetry == Permutations(Clients)
MCGenerations == {11, 13, 16, 17}

MCTreeRoots == {
    Root("Dell", "absent", "1.17.0", "absent", FALSE),
    Root("AMI", "absent", "1.11.0", "absent", FALSE),
    Root("Nvidia", "BlueField-3 DPU", "1.17.0", "absent", FALSE)}

redfishVars == <<compatVars, accountVars, asyncVars, treeVars>>
Init ==
    /\ subject \in {"compat", "accounts", "async", "tree"}
    /\ CompatInit /\ AccountsInit /\ AsyncInit /\ TreeInit
    /\ subject # "compat" => root = Root("HPE", "absent", "1.13.0", "absent", FALSE)
    /\ subject # "accounts" => behavior = "Standard" /\ \A m \in Members : slot[m].owner = Nobody
    /\ subject # "async" => service.style = "task bare" /\ returns = "unit"
    /\ subject # "tree" => platform = Classify(Evidence(Root("Dell", "absent", "1.17.0", "absent", FALSE)))
                            /\ tagged /\ held.features = {}

Next ==
    /\ UNCHANGED subject
    /\ \/ subject = "compat" /\ CompatNext /\ UNCHANGED <<accountVars, asyncVars, treeVars>>
       \/ subject = "accounts" /\ AccountsNext /\ UNCHANGED <<compatVars, asyncVars, treeVars>>
       \/ subject = "async" /\ AsyncNext /\ UNCHANGED <<compatVars, accountVars, treeVars>>
       \/ subject = "tree" /\ TreeNext /\ UNCHANGED <<compatVars, accountVars, asyncVars>>

Spec == Init /\ [][Next]_<<subject, redfishVars>>
TreeSpec == Init /\ subject = "tree" /\ [][Next]_<<subject, redfishVars>>
=============================================================================
