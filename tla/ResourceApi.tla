----------------------------- MODULE ResourceApi -----------------------------
(***************************************************************************)
(* The operations of the typed resource wrappers of the redfish crate.     *)
(*                                                                         *)
(* Each wrapper is a record of its operations.  An operation that          *)
(* navigates is the documents it reads one after the other, each reached   *)
(* through a navigation property of the one before, and what it returns:   *)
(*   "get"         NavProperty::get: the inlined copy, or a GET            *)
(*   "fresh"       get of a reference built from an id: always a GET       *)
(*   "expand"      NvBmc::expand_property                                  *)
(*   "expand new"  expand_property of a reference built from an id         *)
(*   "collection"  CollectionWithPatch::expand_collection                  *)
(* A property that is absent ends the operation with nothing.  Plain       *)
(* accessors of a handle's data are left out.                              *)
(***************************************************************************)
EXTENDS Sequences, TLC

Operation(kind, hops, tail, to) == [kind |-> kind, hops |-> hops, tail |-> tail, to |-> to]

(* A handle of the last document; a list of its members, each read; links   *)
(* to its members, none read; a handle made of the data already at hand.    *)
One(hops, to) == Operation("navigate", hops, "one", to)
Each(hops, to) == Operation("navigate", hops, "each", to)
Links(hops, to) == Operation("navigate", hops, "links", to)
ViewOf(to) == One(<<>>, to)

(* PATCH with the ETag of the data the handle holds, or with none; the      *)
(* entity that the reply names is read and becomes the result.              *)
Update(to) == Operation("update", <<>>, "own etag", to)
UpdateAnyVersion(to) == Operation("update", <<>>, "no etag", to)

(* POST to an action's target, refused where the data do not advertise it;  *)
(* POST to a collection; DELETE.                                            *)
Invoke == Operation("action", <<>>, "none", "none")
Create(to) == Operation("create", <<>>, "entity", to)
DeleteSelf == Operation("delete", <<>>, "entity", "none")

----------------------------------------------------------------------------
(* service_root.rs *)

ServiceRoot ==
    [chassis |-> One(<<"root collection">>, "ChassisCollection"),
     chassis_links |-> Links(<<"get">>, "Chassis"),
     systems |-> One(<<"root collection">>, "SystemCollection"),
     managers |-> One(<<"root collection">>, "ManagerCollection"),
     component_integrity |-> One(<<"get">>, "ComponentIntegrityCollection"),
     fabrics |-> One(<<"expand">>, "FabricCollection"),
     update_service |-> One(<<"get">>, "UpdateService"),
     job_service |-> One(<<"get">>, "JobService"),
     task_service |-> One(<<"get">>, "TaskService")]
    @@
    [event_service |-> One(<<"get">>, "EventService"),
     telemetry_service |-> One(<<"get">>, "TelemetryService"),
     session_service |-> One(<<"get">>, "SessionService"),
     power_equipment |-> One(<<"get">>, "PowerEquipment"),
     oem_hpe_ilo_service_ext |-> ViewOf("Data"),
     oem_ami_service_root |-> ViewOf("Data")]

(* entity_link.rs: the link holds a reference and no data. *)
EntityLink(type) ==
    [fetch |-> One(<<"fresh">>, type), upgrade |-> One(<<"fresh">>, type), delete |-> DeleteSelf]

----------------------------------------------------------------------------
(* Chassis *)

ChassisCollection == [members |-> Each(<<>>, "Chassis")]

ChassisPower ==
    [update |-> Update("Chassis"),
     reset |-> Invoke,
     assembly |-> One(<<"expand">>, "Assembly"),
     power_supplies |-> Each(<<"get", "collection">>, "PowerSupply"),
     oem_liteon_power_supply_links |-> Links(<<"get", "fresh">>, "Data")]
ChassisDevices ==
    [power |-> One(<<"get">>, "Data"),
     controls |-> Each(<<"get">>, "Control"),
     thermal |-> One(<<"get">>, "Data"),
     network_adapters |-> Each(<<"expand">>, "NetworkAdapter"),
     log_services |-> Each(<<"get">>, "LogService")]
ChassisSensors ==
    [environment_sensor_links |-> Links(<<"get">>, "Data"),
     environment_metrics |-> One(<<"get">>, "EnvironmentMetrics"),
     environment_power_limit_control |-> One(<<"get", "fresh">>, "Control"),
     sensor_links |-> Links(<<"get">>, "Data"),
     pcie_devices |-> One(<<"expand">>, "PcieDeviceCollection"),
     oem_nvidia |-> ViewOf("Data"),
     oem_nvidia_cbc |-> ViewOf("Data"),
     oem_nvidia_actions |-> ViewOf("NvidiaChassisActions")]
Chassis == ChassisPower @@ ChassisDevices @@ ChassisSensors

Assembly == [assemblies |-> Each(<<>>, "Data")]
NetworkAdapter ==
    [settings |-> One(<<"get">>, "NetworkAdapter"),
     update |-> Update("NetworkAdapter"),
     oem_nvidia |-> ViewOf("NvidiaNetworkAdapter"),
     network_device_functions |-> One(<<"expand">>, "NetworkDeviceFunctionCollection"),
     ports |-> One(<<"expand">>, "PortCollection")]
PowerSupply ==
    [reset |-> Invoke,
     metrics |-> One(<<"get">>, "Data"),
     metrics_sensor_links |-> Links(<<"get">>, "Data"),
     oem_delta |-> ViewOf("Data")]
EnvironmentMetrics ==
    [sensor_links |-> Links(<<>>, "Data"),
     power_limit_control |-> One(<<"fresh">>, "Control"),
     oem_nvidia |-> ViewOf("Data")]
Control == [update |-> Update("Control")]
PcieDeviceCollection == [members |-> Each(<<>>, "Data")]
NetworkDeviceFunctionCollection == [members |-> Each(<<>>, "Data")]
PortCollection == [members |-> Each(<<>>, "Port"), member_links |-> Links(<<>>, "Port")]
Port == [oem_lenovo |-> ViewOf("Data")]
NvidiaChassisActions == [aux_power_reset |-> Invoke, reset |-> Invoke]
NvidiaNetworkAdapter ==
    [host_privilege_config |-> One(<<"get">>, "NvidiaHostPrivilegeConfig")]
NvidiaHostPrivilegeConfig ==
    [settings |-> One(<<"get">>, "NvidiaHostPrivilegeConfig"),
     update |-> Update("NvidiaHostPrivilegeConfig"),
     set_privilege_mode |-> Update("NvidiaHostPrivilegeConfig")]

----------------------------------------------------------------------------
(* Computer systems *)

SystemCollection == [members |-> Each(<<>>, "ComputerSystem")]

(* set_boot_order and set_boot_source_override write the settings resource  *)
(* where the system names one, with no ETag in either case.                 *)
SystemState ==
    [set_ipmi_host_interface_enabled |-> Update("ComputerSystem"),
     update |-> Update("ComputerSystem"),
     settings |-> One(<<"get">>, "ComputerSystem"),
     reset |-> Invoke]
SystemBoot ==
    [set_boot_order |-> UpdateAnyVersion("ComputerSystem"),
     set_boot_source_override |-> UpdateAnyVersion("ComputerSystem")]
SystemParts ==
    [bios |-> One(<<"get">>, "Bios"),
     processors |-> Each(<<"expand">>, "Processor"),
     secure_boot |-> One(<<"get">>, "SecureBoot"),
     storage_controllers |-> Each(<<"collection">>, "Storage"),
     memory_modules |-> Each(<<"expand">>, "Memory"),
     log_services |-> Each(<<"get">>, "LogService")]
SystemInterfaces ==
    [ethernet_interfaces |-> One(<<"expand">>, "EthernetInterfaceCollection"),
     boot_options |-> One(<<"collection">>, "BootOptionCollection"),
     oem_nvidia |-> One(<<"dpu">>, "NvidiaComputerSystem"),
     oem_lenovo |-> ViewOf("LenovoComputerSystem"),
     oem_lenovo_actions |-> ViewOf("LenovoComputerSystemActions"),
     oem_hpe_actions |-> ViewOf("HpeComputerSystemActions"),
     oem_supermicro |-> ViewOf("SupermicroComputerSystem"),
     oem_supermicro_actions |-> ViewOf("SupermicroComputerSystemActions")]
ComputerSystem == SystemState @@ SystemBoot @@ SystemParts @@ SystemInterfaces

Bios ==
    [oem_hpe |-> ViewOf("HpeBios"),
     oem_lenovo |-> ViewOf("Data"),
     settings |-> One(<<"get">>, "Bios"),
     update |-> Update("Bios"),
     reset |-> Invoke,
     change_password |-> Invoke]
BootOptionCollection == [members |-> Each(<<>>, "BootOption")]
BootOption == [settings |-> One(<<"get">>, "BootOption"), update |-> Update("BootOption")]
Environment ==
    [environment_sensor_links |-> Links(<<"get">>, "Data"),
     environment_metrics |-> One(<<"get">>, "EnvironmentMetrics"),
     environment_power_limit_control |-> One(<<"get", "fresh">>, "Control")]
Drive == [metrics |-> One(<<"get">>, "Data")] @@ Environment
Memory == [metrics |-> One(<<"get">>, "MemoryMetrics")] @@ Environment
MemoryMetrics == [oem_nvidia |-> ViewOf("Data")]
Processor ==
    [oem_nvidia |-> ViewOf("Data"),
     metrics |-> One(<<"get">>, "ProcessorMetrics"),
     metrics_sensor_links |-> Links(<<"get">>, "Data")] @@ Environment
ProcessorMetrics == [oem_nvidia |-> ViewOf("Data")]
SecureBoot ==
    [update |-> Update("SecureBoot"),
     databases |-> One(<<"get">>, "SecureBootDatabaseCollection"),
     reset_keys |-> Invoke]
SecureBootDatabaseCollection == [members |-> Each(<<>>, "SecureBootDatabase")]
SecureBootDatabase ==
    [certificates |-> One(<<"get">>, "CertificateCollection"), reset_keys |-> Invoke]
CertificateCollection == [members |-> Each(<<>>, "Data"), create |-> Create("Data")]
EthernetInterfaceCollection == [members |-> Each(<<>>, "EthernetInterface")]
EthernetInterface == [update |-> Update("EthernetInterface")]

(* storage_controllers refuses a controller that is not inlined; a          *)
(* VolumeCollection holds the id of the collection and no data.             *)
Storage ==
    [drives |-> Each(<<>>, "Drive"),
     storage_controllers |-> Operation("navigate", <<>>, "each inlined", "Data"),
     controllers |-> Each(<<"get">>, "Data"),
     volumes |-> ViewOf("VolumeCollection"),
     oem_dell_actions |-> ViewOf("DellStorageActions")]
VolumeCollection ==
    [members |-> Each(<<"fresh">>, "Volume"),
     create |-> Operation("create", <<>>, "entity or job", "Volume")]

NvidiaComputerSystem == [set_mode |-> Invoke, set_host_rshim |-> Invoke, soc_force_reset |-> Invoke]
LenovoComputerSystem ==
    [boot_settings |-> One(<<"get">>, "LenovoBootManagerCollection"),
     update |-> Update("ComputerSystem"),
     set_usb_management_port |-> Update("ComputerSystem")]
LenovoBootManagerCollection ==
    [boot_order |-> One(<<"get">>, "LenovoBootManager"),
     members |-> Each(<<>>, "LenovoBootManager")]
LenovoBootManager == [update |-> Update("LenovoBootManager")]
SupermicroComputerSystem == [fixed_boot_order |-> One(<<"get">>, "SmcFixedBootOrder")]
SmcFixedBootOrder == [update |-> Update("SmcFixedBootOrder")]
HpeBios == [boot_settings |-> One(<<"get">>, "HpeServerBootSettings")]
HpeServerBootSettings ==
    [settings |-> One(<<"get">>, "HpeServerBootSettings"),
     update |-> Update("HpeServerBootSettings")]

LenovoComputerSystemActions == [system_reset |-> Invoke]
HpeComputerSystemActions == [system_reset |-> Invoke, aux_power_cycle |-> Invoke]
SupermicroComputerSystemActions == [ac_power_cycle |-> Invoke]
DellStorageActions == [decommission_controller_drives |-> Invoke]

----------------------------------------------------------------------------
(* Managers *)

ManagerCollection == [members |-> Each(<<>>, "Manager")]

(* oem_dell_attributes reads what the OEM links name, and the usual place   *)
(* where they name none.                                                    *)
ManagerState ==
    [update |-> Update("Manager"),
     network_protocol |-> One(<<"get">>, "ManagerNetworkProtocol"),
     reset |-> Invoke,
     reset_to_defaults |-> Invoke]
ManagerInterfaces ==
    [ethernet_interfaces |-> One(<<"expand">>, "EthernetInterfaceCollection"),
     host_interfaces |-> One(<<"expand">>, "HostInterfaceCollection"),
     serial_interfaces |-> One(<<"expand">>, "SerialInterfaceCollection"),
     log_services |-> Each(<<"get">>, "LogService"),
     oem_dell_attributes |-> One(<<"dell attributes">>, "DellAttributes"),
     oem_dell |-> ViewOf("DellManager"),
     oem_lenovo |-> ViewOf("LenovoManager"),
     oem_nvidia |-> ViewOf("NvidiaManager"),
     oem_hpe |-> ViewOf("HpeManager"),
     oem_supermicro |-> ViewOf("SupermicroManager"),
     oem_ami_config_bmc |-> One(<<"expand new">>, "ConfigBmc")]
Manager == ManagerState @@ ManagerInterfaces

ManagerNetworkProtocol ==
    [oem_hpe |-> ViewOf("HpeManagerNetworkProtocol"), update |-> Update("ManagerNetworkProtocol")]
HostInterfaceCollection == [members |-> Each(<<>>, "HostInterface")]
HostInterface == [update |-> Update("HostInterface")]
SerialInterfaceCollection == [members |-> Each(<<>>, "SerialInterface")]
SerialInterface == [update |-> Update("SerialInterface")]
DellManager ==
    [import_system_configuration |-> Invoke,
     lc_service |-> One(<<"get">>, "DellLcService"),
     manager_attributes |-> One(<<"get">>, "DellAttributes"),
     job_service |-> One(<<"get">>, "DellJobService"),
     configuration_jobs |-> ViewOf("DellJobs")]
DellAttributes == [update |-> Update("DellAttributes")]
DellLcService == [remote_services_api_status |-> Invoke]
DellJobService == [delete_job_queue |-> Invoke]
DellJobs ==
    [create_configuration_job |-> Operation("create", <<>>, "job", "Data"),
     job_link |-> Operation("link", <<>>, "links", "Job")]

(* The manager's own id and ETag, held by its OEM view. *)
LenovoManager ==
    [set_kcs_enabled |-> Update("Manager"),
     security |-> One(<<"get">>, "LenovoSecurityService")]
LenovoSecurityService ==
    [update |-> Update("LenovoSecurityService"),
     set_fw_rollback |-> Update("LenovoSecurityService"),
     set_fw_lockdown |-> Update("LenovoSecurityService")]
HpeManager ==
    [date_time |-> One(<<"get">>, "HpeiLoDateTime"),
     update |-> Update("Manager"),
     set_virtual_nic_enabled |-> Update("Manager"),
     reset_to_factory_defaults |-> Invoke]
HpeiLoDateTime == [update |-> Update("HpeiLoDateTime")]
HpeManagerNetworkProtocol ==
    [update |-> Update("ManagerNetworkProtocol"), set_kcs_enabled |-> Update("ManagerNetworkProtocol")]

(* The OEM resource is read anew and written with no ETag. *)
NvidiaManager ==
    [bmc_rshim_enabled |-> One(<<"fresh">>, "Data"),
     set_bmc_rshim_enabled |-> UpdateAnyVersion("none")]
SupermicroManager ==
    [kcs_interface |-> One(<<"get">>, "KcsInterface"),
     sys_lockdown |-> One(<<"get">>, "SysLockdown"),
     reset_configuration |-> Invoke]
KcsInterface == [update |-> Update("KcsInterface"), set_privilege |-> Update("KcsInterface")]
SysLockdown == [update |-> Update("SysLockdown"), set_enabled |-> Update("SysLockdown")]
ConfigBmc == [apply |-> Create("none")]

----------------------------------------------------------------------------
(* Fabrics and power equipment *)

FabricCollection == [members |-> Each(<<>>, "Fabric"), member_links |-> Links(<<>>, "Fabric")]
Fabric == [switches |-> One(<<"expand">>, "SwitchCollection"), oem_nvidia |-> ViewOf("Data")]
SwitchCollection == [members |-> Each(<<>>, "Switch"), member_links |-> Links(<<>>, "Switch")]
Switch == [ports |-> One(<<"expand">>, "PortCollection"), oem_nvidia |-> ViewOf("Data")]

PowerEquipment == [power_shelves |-> One(<<"expand">>, "PowerShelfCollection")]
PowerShelfCollection == [members |-> Each(<<>>, "PowerShelf")]
PowerShelf == [oem_delta |-> ViewOf("DeltaPowerShelf")]
DeltaPowerShelf == [turn_on_psus |-> Invoke, turn_off_psus |-> Invoke]

----------------------------------------------------------------------------
(* Services *)

ComponentIntegrityCollection == [members |-> Each(<<>>, "ComponentIntegrity")]
ComponentIntegrity ==
    [component_certificate |-> One(<<"get">>, "Data"), spdm_get_signed_measurements |-> Invoke]

(* The uploads need the push URI that the service advertises. *)
UpdateServiceInventories ==
    [oem_nvidia_actions |-> ViewOf("NvidiaUpdateServiceActions"),
     firmware_inventories |-> Each(<<"collection">>, "Data"),
     software_inventories |-> Each(<<"expand">>, "Data"),
     simple_update |-> Invoke,
     start_update |-> Invoke,
     update |-> Update("UpdateService")]
UpdateServiceUploads == [http_push_uri_update |-> Invoke, multipart_update |-> Invoke]
UpdateService == UpdateServiceInventories @@ UpdateServiceUploads
NvidiaUpdateServiceActions == [clear_nvram |-> Invoke, commit_image |-> Invoke]

(* subscriptions passes over a member that answers 404 or 410; the event    *)
(* stream needs the URI that the service advertises.                        *)
EventService ==
    [subscriptions |-> Operation("navigate", <<"fresh">>, "each present", "EventDestination"),
     events |-> Invoke,
     events_from |-> Invoke]
EventDestination == [delete |-> DeleteSelf]

TelemetryReports ==
    [set_enabled |-> Update("TelemetryService"),
     metric_report_links |-> Links(<<"get">>, "MetricReport"),
     metric_definitions |-> Each(<<"expand">>, "MetricDefinition"),
     metric_report_definitions |-> Each(<<"expand">>, "MetricReportDefinition")]
TelemetryDefinitions ==
    [create_metric_definition |-> Create("MetricDefinition"),
     create_metric_report_definition |-> Create("MetricReportDefinition")]
TelemetryService == TelemetryReports @@ TelemetryDefinitions
MetricDefinition == [update |-> Update("MetricDefinition"), delete |-> DeleteSelf]
MetricReportDefinition == [update |-> Update("MetricReportDefinition"), delete |-> DeleteSelf]
MetricReport == [oem_nvidia |-> ViewOf("Data")]

SessionService == [sessions |-> One(<<"expand">>, "SessionCollection")]
SessionCollection ==
    [members |-> Each(<<>>, "Session"), create_session |-> Create("Session")]
Session == [delete |-> DeleteSelf]

LogService ==
    [entries |-> Each(<<"expand">>, "Data"),
     filter_entries |-> Each(<<"fresh">>, "Data"),
     clear_log |-> Invoke]

(* A JobCollection or TaskCollection holds the collection's id and no data. *)
JobService == [jobs |-> ViewOf("JobCollection")]
JobCollection ==
    [job_link |-> Operation("link", <<>>, "links", "Job"), member_links |-> Links(<<"fresh">>, "Job")]
TaskService ==
    [tasks |-> ViewOf("TaskCollection"), task_link |-> Operation("link", <<>>, "links", "Task")]
TaskCollection == [member_links |-> Links(<<"fresh">>, "Task")]
=============================================================================
