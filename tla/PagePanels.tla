------------------------------ MODULE PagePanels ------------------------------
(***************************************************************************)
(* The panels of frontend/src/pages as records of Panel, one definition    *)
(* for each page, tab, form or effect that talks to the server; see        *)
(* ComponentPanels for the conventions.                                    *)
(***************************************************************************)
EXTENDS ComponentPanels


(* pages/Account.tsx *)
ProfileTab == Readless({Op("busy", "nothing", "leave")})
PasswordTab == Readless({Op("busy", "nothing", "none")})
MFATabChanges == {Op("none", "data", "none"), Op("busy", "data", "await")}
MFATab == Brittle(Mounted(MFATabChanges))
TokensTab == Brittle(Mounted({Silent("none", "data", "reload")}))
CreateTokenForm == Readless({Op("busy", "nothing", "leave")})

(* pages/Alerts.tsx *)
Alerts ==
  Emptying(Mounted({Op("row", "data", "reload"),
                    Op("none", "data", "reload")}))
AlertDeliveries == Emptying(Keyed("never", {Op("none", "data", "reload")}))
RetryDeliveryButton == Readless({Op("busy", "nothing", "hand")})
TestChannelButton == Readless({Op("busy", "nothing", "none")})
ChannelsCardChanges ==
  {Op("busy", "nothing", "hand"), Op("none", "nothing", "hand")}
ChannelsCard == Readless(ChannelsCardChanges)

(* pages/Health.tsx *)
HealthEnvironment == Mounted({})
HealthIntegrations == Keyed("never", {})
HealthDashboards == Mounted({Op("busy", "data", "patch")})
HealthServices == Emptying(Keyed("never", {}))
HealthSystems == Emptying(Mounted({}))
useKnownEnvironments == Emptying(Keyed("key", {}))

(* pages/IntegrationDetail.tsx *)
IntegrationDetailPage == Keyed("never", {Redo("none", "data")})
DeleteIntegration == Readless({Op("none", "nothing", "leave")})
DelayedCount == Polling(Emptying(Keyed("key", {})))
SelectedServiceTags == Emptying(Keyed("key", {}))
CloneIntegrationDialog == Readless({Op("busy", "nothing", "leave")})

(* pages/IntegrationErrors.tsx *)
IntegrationErrors == Keyed("always", {Op("none", "data", "reload")})
OpenErrorRow == Readless({Op("busy", "nothing", "hand")})

(* pages/IntegrationLogs.tsx *)
IntegrationLogs == Brittle(Keyed("never", {}))

(* pages/IntegrationMetrics.tsx *)
IntegrationMetrics == Brittle(Keyed("never", {}))

(* pages/IntegrationServices.tsx *)
IntegrationServices == Keyed("never", {})

(* pages/IntegrationMetadata.tsx *)
IntegrationMetadata == Keyed("never", {Op("none", "data", "reload")})

(* pages/IntegrationMessages.tsx *)
IntegrationMessageOptions == Emptying(Keyed("never", {}))
IntegrationMessageDetail == Keyed("never", {})
IntegrationFirings == Polling(Keyed("never", {Op("none", "data", "reload")}))
IntegrationMessageViews ==
  Emptying(Keyed("never", {Op("none", "nothing", "patch")}))
IntegrationMessageSearch == Keyed("never", {})
IntegrationMessageExport == Readless({Op("busy", "nothing", "none")})
IntegrationViewSaving == Readless({Op("none", "nothing", "leave")})

(* pages/IntegrationNew.tsx *)
IntegrationNewChanges ==
  {Op("busy", "nothing", "leave"), Op("none", "nothing", "patch")}
IntegrationNew == Emptying(Mounted(IntegrationNewChanges))

(* pages/IntegrationSettings.tsx *)
IntegrationSettings ==
  Brittle(Keyed("never", {Silent("none", "data", "reload"),
                          Silent("none", "data", "patch")}))
IntegrationSettingsTabs ==
  Brittle(Keyed("never", {Silent("none", "data", "reload")}))
RuleFormChanges == {Op("busy", "nothing", "leave")}
RuleForm == Emptying(Keyed("key", RuleFormChanges))
IntegrationAlertRules == Readless({Op("none", "nothing", "hand")})
IntegrationDetailsEditor == Readless({Op("busy", "nothing", "hand")})

(* pages/Integrations.tsx *)
Integrations == Keyed("never", {})
IntegrationStats == Keyed("always", {})

(* pages/MapsPage.tsx *)
MapsPageChanges == {Op("none", "nothing", "patch")}
MapsPage == Mounted(MapsPageChanges)
MapEditorChanges == {Op("busy", "nothing", "leave")}
MapEditor == Readless(MapEditorChanges)
MapTestPanelChanges == {Op("busy", "nothing", "apply")}
MapTestPanel == Readless(MapTestPanelChanges)

(* pages/MetadataFieldsPage.tsx *)
MetadataFieldsPageChanges == {Op("none", "nothing", "patch")}
MetadataFieldsPage == Mounted(MetadataFieldsPageChanges)
FieldEditorChanges == {Op("busy", "nothing", "leave")}
FieldEditor == Mounted(FieldEditorChanges)

(* pages/MonitoringTemplates.tsx *)
MonitoringTemplatesChanges == {Op("busy", "nothing", "reload")}
MonitoringTemplates == Mounted(MonitoringTemplatesChanges)

(* pages/Operator.tsx *)
OrganizationsCardChanges ==
  {Op("busy", "nothing", "reload"), Op("none", "data", "reload")}
OrganizationsCard == Mounted(OrganizationsCardChanges)
OrgMembers ==
  Keyed("never", {Op("busy", "nothing", "reload"),
                  Op("none", "data", "reload")})
OperatorsCard == Keyed("never", {Op("none", "data", "reload")})

(* pages/Proposals.tsx *)
ProposalsChanges == {Op("row", "data", "reload")}
Proposals == Keyed("never", ProposalsChanges)
ProposalDetails == Keyed("key", {})

(* pages/ResetPassword.tsx *)
ResetPassword == Readless({Op("busy", "nothing", "leave")})

(* pages/SchemasPage.tsx *)
SchemasPageChanges == {Op("none", "nothing", "patch")}
SchemasPage == Mounted(SchemasPageChanges)
SchemaEditorChanges == {Op("busy", "nothing", "leave")}
SchemaEditor == Readless(SchemaEditorChanges)

(* pages/ServiceDetail.tsx *)
ServiceTemplateHint == Keyed("key", {})
ServiceDetail ==
  Keyed("never", {Op("busy", "data", "reload"),
                  Op("none", "data", "reload"),
                  Redo("none", "data")})
ServiceDetailMetadata == Keyed("never", {Silent("none", "data", "await")})
GoldenSignals == Wiping(Emptying(Keyed("key", {})))
IntegrationChip == Readless({Op("busy", "nothing", "hand")})
ServiceSystemMarking == Readless({Eager("busy", "nothing", "hand", "report")})
ServiceTemplates ==
  Keyed("key", {Op("busy", "nothing", "reload"),
                Op("busy2", "nothing", "reload")})
ServiceEdit == Readless({Op("busy", "nothing", "hand")})

(* pages/ServiceTypeDetail.tsx *)
ServiceTypeDetail == Keyed("never", {})

(* pages/ServiceTypes.tsx *)
ServiceTypesChanges ==
  {Op("none", "nothing", "reload"), Op("none", "data", "reload")}
ServiceTypes == Mounted(ServiceTypesChanges)

(* pages/Services.tsx *)
Services == Refreshable(Keyed("never", {}))

(* pages/Settings.tsx *)
MemberDetails ==
  Readless({Op("none", "nothing", "hand"), Op("busy", "nothing", "leave")})
MembersTabChanges == {Silent("none", "data", "reload")}
MembersTab == Brittle(Mounted(MembersTabChanges))
ResetPasswordForm == Readless({Op("busy", "nothing", "leave")})
AddMemberForm == Readless({Op("busy", "nothing", "leave")})
OrganizationTab == Brittle(Mounted({Op("busy", "data", "apply")}))
ServiceAccountsTabChanges ==
  {Op("busy", "data", "reload"), Op("none", "data", "reload")}
ServiceAccountsTab == Brittle(Mounted(ServiceAccountsTabChanges))
ServiceAccountTokens == Keyed("never", {Op("busy", "nothing", "reload")})
ServiceAccountAccess ==
  Keyed("never", {Op("busy", "data", "reload"),
                  Op("busy", "nothing", "hand")})
IngestKeysTabChanges ==
  {Op("busy", "data", "reload"), Op("none", "data", "reload")}
IngestKeysTab == Brittle(Mounted(IngestKeysTabChanges))
GroupsTab == Brittle(Mounted({Silent("none", "data", "reload")}))
CreateGroupForm == Readless({Op("busy", "nothing", "leave")})
GroupDetailChanges == {Silent("none", "data", "reload")}
GroupDetail == Brittle(Keyed("never", GroupDetailChanges))
PoliciesSection ==
  Keyed("never", {Op("none", "nothing", "reload"),
                  Silent("none", "data", "reload")})
CreatePolicyFormChanges == {Op("busy", "nothing", "leave")}
CreatePolicyForm == Mounted(CreatePolicyFormChanges)
AddGroupMemberForm == Readless({Op("busy", "nothing", "leave")})
RetentionTab == Brittle(Mounted({Silent("none", "data", "apply")}))
ReportsTab == Keyed("never", {})
SystemSettingsTabChanges == {Op("busy", "data", "apply")}
SystemSettingsTab == Brittle(Mounted(SystemSettingsTabChanges))
SecurityPolicy == Mounted({Op("busy", "data", "apply")})
SmtpSettingsChanges ==
  {Op("busy", "data", "apply"), Silent("busy2", "data", "none")}
SmtpSettings == Brittle(Mounted(SmtpSettingsChanges))
RetentionRow == Readless({Op("busy", "nothing", "hand")})
AuditLogTab == Keyed("never", {})
AuditVerify == Readless({Op("busy", "nothing", "none")})

(* pages/StuckMessages.tsx *)
StuckMessages ==
  Refreshable(Keyed("never", {Silent("none", "data", "reload")}))
StuckErrorRow == Readless({Op("busy", "nothing", "hand")})

(* pages/SystemDetail.tsx *)
SystemDetail ==
  Keyed("never", {Op("busy", "data", "reload"),
                  Silent("none", "data", "reload")})
SystemDetailActions ==
  Readless({Op("busy", "nothing", "hand"), Op("busy", "nothing", "leave")})
SystemMetadata == Keyed("never", {Op("busy", "data", "apply")})

(* pages/SystemTypesPage.tsx *)
SystemTypesPage == Mounted({Op("busy", "nothing", "reload")})

(* pages/Systems.tsx *)
SystemsChanges == {Op("busy", "nothing", "reload")}
Systems == Refreshable(Mounted(SystemsChanges))

(* pages/Tags.tsx *)
Tags ==
  Mounted({Op("none", "nothing", "reload"), Op("none", "data", "reload")})
TagRowChanges == {Op("busy", "nothing", "hand")}
TagRow == Readless(TagRowChanges)
CreateTagPanel == Readless({Op("busy", "nothing", "leave")})

(* pages/ThirdPartyLicences.tsx *)
useReport == Keyed("key", {})

(* pages/Topology.tsx *)
Topology == Keyed("key", {})

(* pages/TraceDetail.tsx *)
IntegrationContext == Keyed("key", {})
TraceDetail == Keyed("never", {})
TraceFirings == Polling(Keyed("key", {}))
TraceLogsSection == Keyed("never", {})

(* pages/Usage.tsx *)
Usage == Refreshable(Keyed("never", {}))

(* pages/Search.tsx *)
SearchOptions == Emptying(Keyed("never", {}))
SearchResults == Refreshable(Keyed("never", {}))
SearchExport == Readless({Op("busy", "nothing", "none")})

(* pages/Login.tsx *)
LoginProviders == Mounted({})
ForgotPassword == Readless({Silent("busy", "nothing", "none")})

PagePanelSet ==
  {ProfileTab, PasswordTab, MFATab, TokensTab, CreateTokenForm, Alerts,
   AlertDeliveries, RetryDeliveryButton, TestChannelButton, ChannelsCard,
   HealthEnvironment, HealthIntegrations, HealthDashboards, HealthServices,
   HealthSystems, useKnownEnvironments, IntegrationDetailPage,
   DeleteIntegration, DelayedCount, SelectedServiceTags,
   CloneIntegrationDialog, IntegrationErrors,
   OpenErrorRow, IntegrationLogs, IntegrationMetrics, IntegrationServices,
   IntegrationMetadata, IntegrationMessageOptions, IntegrationMessageDetail,
   IntegrationFirings, IntegrationMessageViews, IntegrationMessageSearch,
   IntegrationMessageExport, IntegrationViewSaving, IntegrationNew,
   IntegrationSettings, IntegrationSettingsTabs, RuleForm,
   IntegrationAlertRules, IntegrationDetailsEditor, Integrations,
   IntegrationStats, MapsPage, MapEditor, MapTestPanel, MetadataFieldsPage,
   FieldEditor, MonitoringTemplates, OrganizationsCard, OrgMembers,
   OperatorsCard, Proposals, ProposalDetails, ResetPassword, SchemasPage,
   SchemaEditor, ServiceTemplateHint, ServiceDetail, ServiceDetailMetadata,
   GoldenSignals, IntegrationChip, ServiceSystemMarking, ServiceTemplates,
   ServiceEdit, ServiceTypeDetail, ServiceTypes, Services, MemberDetails,
   MembersTab, ResetPasswordForm, AddMemberForm, OrganizationTab,
   ServiceAccountsTab, ServiceAccountTokens, ServiceAccountAccess,
   IngestKeysTab, GroupsTab, CreateGroupForm, GroupDetail, PoliciesSection,
   CreatePolicyForm, AddGroupMemberForm, RetentionTab, ReportsTab,
   SystemSettingsTab, SecurityPolicy, SmtpSettings, RetentionRow, AuditLogTab,
   AuditVerify, StuckMessages, StuckErrorRow, SystemDetail,
   SystemDetailActions, SystemMetadata, SystemTypesPage, Systems, Tags,
   TagRow, CreateTagPanel, useReport, Topology, IntegrationContext,
   TraceDetail, TraceFirings, TraceLogsSection, Usage, SearchOptions,
   SearchResults, SearchExport, LoginProviders, ForgotPassword}

ConsolePanels == ComponentPanelSet \cup PagePanelSet

===============================================================================
