---------------------------- MODULE ComponentPanels ----------------------------
(***************************************************************************)
(* The panels of frontend/src/components and the hooks of frontend/src/lib *)
(* as records of Panel: one definition for each component or effect that   *)
(* talks to the server, under the name it has in the source.  An effect of *)
(* a component with several is a definition of its own, named for what it  *)
(* reads; so are the changes of a long component, which stand for the part *)
(* that renders them and says when they are disabled.                      *)
(*                                                                         *)
(* A component whose props give it its data and whose changes are refetched*)
(* by its parent reads nothing and hands its changes over.                 *)
(***************************************************************************)
EXTENDS PanelRecords


(* components/AddToIntegration.tsx *)
AddToIntegrationChanges ==
  {Op("busy", "data", "reload"), Op("busy", "nothing", "reload")}
AddToIntegration == Keyed("never", AddToIntegrationChanges)

(* components/AdvisorPanel.tsx *)
AdvisorPanelChanges ==
  {Op("row", "data", "await"), Op("busy", "idle", "await")}
AdvisorPanel == Keyed("never", AdvisorPanelChanges)
SuggestionCard == Readless({Op("row", "nothing", "hand")})

(* components/AlertInstanceActions.tsx *)
AlertInstanceActions == Readless({Op("busy", "nothing", "hand")})

(* components/AnnouncementsAdmin.tsx *)
AnnouncementsAdmin ==
  Mounted({Op("busy", "nothing", "reload"), Op("none", "data", "reload")})

(* components/AnnouncementsBanner.tsx *)
AnnouncementsBanner ==
  Polling(Mounted({Eager("none", "data", "none", "reload")}))

(* components/AppShell.tsx *)
TopSearch == Emptying(Keyed("never", {}))
EnvLabel == Mounted({})
SideNav == Polling(Mounted({}))

(* components/BrandingCard.tsx *)
BrandingCard == Mounted({Op("busy", "data", "apply")})

(* components/CollectorTargetEditor.tsx *)
CollectorTargetEditorChanges == {Op("busy", "data", "apply")}
CollectorTargetEditor == Keyed("never", CollectorTargetEditorChanges)

(* components/ConfigTransfer.tsx *)
ConfigTransfer == Readless({Op("busy", "nothing", "apply")})

(* components/CreateTraceAlertDrawer.tsx *)
CreateTraceAlertDrawerChanges == {Op("busy", "nothing", "none")}
CreateTraceAlertDrawer == Emptying(Mounted(CreateTraceAlertDrawerChanges))

(* components/DeploymentLimitsBanner.tsx *)
DeploymentLimitsBanner == Polling(Mounted({}))

(* components/DigestBell.tsx *)
DigestBellChanges == {Silent("none", "data", "reload")}
DigestBell == Emptying(Mounted(DigestBellChanges))

(* components/EnvironmentListControls.tsx *)
ListEnvironmentPicker == Emptying(Keyed("key", {}))

(* components/EnvironmentPicker.tsx *)
useEnvironments == Emptying(Keyed("key", {}))

(* components/EnvironmentScope.tsx *)
EnvironmentScope == Wiping(Emptying(Keyed("key", {})))

(* components/ErrorBreakdown.tsx *)
ErrorBreakdown == Emptying(Keyed("key", {}))

(* components/FacetMappingsEditor.tsx *)
FacetMappingsEditorChanges ==
  {Op("busy", "nothing", "reload"), Op("none", "data", "reload")}
FacetMappingsEditor == Keyed("never", FacetMappingsEditorChanges)

(* components/ForcePasswordChange.tsx *)
ForcePasswordChange == Readless({Op("busy", "nothing", "leave")})

(* components/IntegrationProfileSelect.tsx *)
IntegrationProfileSelect ==
  Keyed("key", {Eager("busy", "nothing", "none", "report")})

(* components/IntegrationServicesGuide.tsx *)
IntegrationServicesGuide == Emptying(Mounted({}))

(* components/IntegrationSources.tsx *)
IntegrationSourcesChanges == {Op("busy", "nothing", "hand")}
IntegrationSources == Polling(Emptying(Mounted(IntegrationSourcesChanges)))

(* components/MFAEnrollmentBanner.tsx *)
MFAEnrollmentBanner == Keyed("key", {})

(* components/MaintenanceWindows.tsx *)
MaintenanceWindowsChanges == {Op("none", "nothing", "reload")}
MaintenanceWindows == Emptying(Mounted(MaintenanceWindowsChanges))
WindowFormChanges == {Op("busy", "nothing", "leave")}
WindowForm == Readless(WindowFormChanges)

(* components/MatcherConfig.tsx *)
MatcherConfig == Readless({Op("busy", "nothing", "hand")})

(* components/MessageChain.tsx *)
MessageChain == Wiping(Keyed("key", {}))

(* components/MetadataPanel.tsx *)
MetadataEditor == Readless({Op("busy", "nothing", "hand")})

(* components/NotificationProfiles.tsx *)
NotificationProfiles == Keyed("key", {Op("none", "nothing", "reload")})
ProfileCardChanges == {Op("busy", "nothing", "hand")}
ProfileCard == Readless(ProfileCardChanges)

(* components/OnboardingGuide.tsx *)
OnboardingGuide == Emptying(Keyed("key", {}))

(* components/PublicBadgeControl.tsx *)
PublicBadgeControl == Readless({Op("busy", "nothing", "hand")})

(* components/ResourceGroupsCard.tsx *)
ResourceGroupsCard == Keyed("key", {Op("busy", "nothing", "await")})

(* components/ResourceSharesCard.tsx *)
ResourceSharesCardChanges ==
  {Op("busy", "nothing", "await"), Op("none", "data", "await")}
ResourceSharesCard == Keyed("never", ResourceSharesCardChanges)

(* components/ServiceFacetsEditor.tsx *)
ServiceFacetsEditorChanges == {Op("busy", "data", "apply")}
ServiceFacetsEditor == Keyed("key", ServiceFacetsEditorChanges)

(* components/ServiceInspector.tsx *)
ServiceInspector == Emptying(Keyed("key", {}))

(* components/ServiceMessagesTab.tsx *)
ServiceMessagesViews ==
  Emptying(Keyed("never", {Op("none", "nothing", "patch")}))
ServiceMessagesSearch == Keyed("never", {})

(* components/ServiceSchemasPanel.tsx *)
ServiceSchemasPanel == Readless({Op("none", "nothing", "hand")})
SchemasEditor == Mounted({Op("busy", "nothing", "hand")})

(* components/SsoSettings.tsx *)
SsoSettings ==
  Mounted({Op("none", "nothing", "reload"), Op("none", "data", "reload")})
MappingsEditor ==
  Keyed("never", {Op("none", "nothing", "reload"),
                  Op("none", "data", "reload")})

(* components/SystemEditDrawer.tsx *)
SystemEditDrawer ==
  Readless({Op("busy", "nothing", "leave"), Op("busy", "nothing", "hand")})

(* components/SystemTypePicker.tsx *)
SystemTypePicker == Emptying(Mounted({Op("busy", "nothing", "reload")}))

(* components/TelemetryEnvironmentSettings.tsx *)
TelemetryEnvironmentSettingsChanges == {Op("busy", "data", "apply")}
TelemetryEnvironmentSettings == Mounted(TelemetryEnvironmentSettingsChanges)

(* components/TraceDrawer.tsx *)
TraceDrawer == Wiping(Keyed("key", {}))
TraceDrawerColumns == Emptying(Keyed("key", {}))
TraceDrawerFirings == Keyed("key", {})

(* components/alerts/NotificationTemplateEditor.tsx *)
NotificationTemplateEditor == Keyed("never", {Op("busy", "nothing", "none")})
NotificationTemplatePreview == Keyed("never", {})

(* components/alerts/WebhookBodyEditor.tsx *)
WebhookBodyEditor == Keyed("never", {})

(* components/developers/EventSubscriptions.tsx *)
EventSubscriptionsChanges ==
  {Op("none", "nothing", "reload"), Op("none", "data", "reload")}
EventSubscriptions == Mounted(EventSubscriptionsChanges)
EventDeliveries == Wiping(Keyed("never", {}))
SubscriptionDrawerChanges == {Op("busy", "nothing", "leave")}
SubscriptionDrawer == Readless(SubscriptionDrawerChanges)

(* components/groups/GroupRollup.tsx *)
GroupRollup == Wiping(Emptying(Keyed("never", {})))

(* components/health/HealthCheckResultDrawer.tsx *)
HealthCheckResultDrawer == Wiping(Keyed("key", {}))

(* components/health/HealthChecks.tsx *)
useRetentionDays == Keyed("key", {})
HealthChecksChanges ==
  {Op("none", "nothing", "reload"), Op("none", "data", "reload")}
HealthChecks == Polling(Emptying(Keyed("never", HealthChecksChanges)))
HealthCheckEditor ==
  Emptying(Keyed("never", {Op("busy", "nothing", "leave")}))
HealthCheckPreview == Emptying(Keyed("never", {}))
LogCheckEditorChanges == {Op("busy", "nothing", "leave")}
LogCheckEditor == Readless(LogCheckEditorChanges)
TraceCheckEditorChanges == {Op("busy", "nothing", "leave")}
TraceCheckEditor == Emptying(Keyed("key", TraceCheckEditorChanges))

(* components/health/ServiceReadingTiles.tsx *)
ServiceReadingTiles == Emptying(Keyed("never", {}))

(* components/integrations/DeclaredEnvironments.tsx *)
DeclaredEnvironments == Readless({Op("busy", "nothing", "hand")})

(* components/integrations/MessageColumnsEditor.tsx *)
MessageColumnsEditorChanges == {Op("busy", "nothing", "hand")}
MessageColumnsEditor == Emptying(Keyed("never", MessageColumnsEditorChanges))

(* components/integrations/MessageFiltersEditor.tsx *)
MessageFiltersEditorChanges == {Op("busy", "nothing", "hand")}
MessageFiltersEditor == Emptying(Keyed("never", MessageFiltersEditorChanges))

(* components/integrations/PromoteAttributeButton.tsx *)
PromoteAttributeButton == Readless({Op("busy", "nothing", "hand")})

(* components/logs/AttributeSuggest.tsx *)
AttributeSuggest == Wiping(Emptying(Keyed("never", {})))

(* components/logs/LogsView.tsx *)
CreateLogAlertDialogChanges == {Op("busy", "nothing", "leave")}
CreateLogAlertDialog == Emptying(Keyed("never", CreateLogAlertDialogChanges))

(* components/matcher/MembershipEditor.tsx *)
MembershipCatalog == Emptying(Keyed("never", {}))
MembershipPreviews == Wiping(Keyed("never", {}))
MembershipTotal == Emptying(Keyed("key", {}))
MembershipSuggestions == Keyed("never", {})

(* components/metrics/AlertBuilder.tsx *)
AlertBuilder ==
  Emptying(Keyed("never", {Op("busy", "nothing", "reload"),
                           Op("none", "data", "reload")}))
AlertBuilderPreview == Emptying(Keyed("never", {}))

(* components/metrics/AlertNotificationContent.tsx *)
AlertNotificationContent == Readless({Op("busy", "nothing", "apply")})

(* components/metrics/MetricAttributes.tsx *)
MetricAttributes == Emptying(Keyed("never", {}))
MetricAttributeValues == Emptying(Keyed("never", {}))

(* components/metrics/MetricAttributesInline.tsx *)
MetricAttributesInline == Wiping(Emptying(Keyed("key", {})))

(* components/metrics/MetricsExplorer.tsx *)
MetricsCatalog == Refreshable(Keyed("never", {Op("none", "data", "reload")}))
MetricsFields == Emptying(Keyed("never", {}))
MetricsGroups == Emptying(Keyed("never", {}))

(* components/metrics/TrimIngestionPanel.tsx *)
TrimIngestionPanel == Emptying(Keyed("never", {}))

(* components/search/FilterEditor.tsx *)
AttrValuePicker == Emptying(Keyed("key", {}))

(* components/search/SaveAsViewDialog.tsx *)
SaveAsViewDialogChanges == {Op("busy", "nothing", "hand")}
SaveAsViewDialog == Readless(SaveAsViewDialogChanges)

(* components/tags/TagPicker.tsx *)
TagPickerChanges == {Op("busy", "nothing", "hand")}
TagPicker == Readless(TagPickerChanges)

(* lib/useBranding.ts *)
useBranding == Polling(Mounted({}))
useLoginBranding == Mounted({})

(* lib/useIngestBaseUrl.ts *)
useIngestBase == Emptying(Mounted({}))

(* lib/useNavigationReach.ts *)
useNavigationReach == Mounted({})

(* lib/useUserPreference.ts *)
useUserPreference == Keyed("key", {Eager("none", "nothing", "none", "keep")})

ComponentPanelSet ==
  {AddToIntegration, AdvisorPanel, SuggestionCard, AlertInstanceActions,
   AnnouncementsAdmin, AnnouncementsBanner, TopSearch, EnvLabel, SideNav,
   BrandingCard, CollectorTargetEditor, ConfigTransfer,
   CreateTraceAlertDrawer, DeploymentLimitsBanner, DigestBell,
   ListEnvironmentPicker, useEnvironments, EnvironmentScope, ErrorBreakdown,
   FacetMappingsEditor, ForcePasswordChange, IntegrationProfileSelect,
   IntegrationServicesGuide, IntegrationSources, MFAEnrollmentBanner,
   MaintenanceWindows, WindowForm, MatcherConfig, MessageChain,
   MetadataEditor, NotificationProfiles, ProfileCard, OnboardingGuide,
   PublicBadgeControl, ResourceGroupsCard, ResourceSharesCard,
   ServiceFacetsEditor, ServiceInspector, ServiceMessagesViews,
   ServiceMessagesSearch, ServiceSchemasPanel, SchemasEditor, SsoSettings,
   MappingsEditor, SystemEditDrawer, SystemTypePicker,
   TelemetryEnvironmentSettings, TraceDrawer, TraceDrawerColumns,
   TraceDrawerFirings, NotificationTemplateEditor,
   NotificationTemplatePreview, WebhookBodyEditor, EventSubscriptions,
   EventDeliveries, SubscriptionDrawer, GroupRollup, HealthCheckResultDrawer,
   useRetentionDays, HealthChecks, HealthCheckEditor, HealthCheckPreview,
   LogCheckEditor, TraceCheckEditor, ServiceReadingTiles,
   DeclaredEnvironments, MessageColumnsEditor, MessageFiltersEditor,
   PromoteAttributeButton, AttributeSuggest, CreateLogAlertDialog,
   MembershipCatalog, MembershipPreviews, MembershipTotal,
   MembershipSuggestions, AlertBuilder, AlertBuilderPreview,
   AlertNotificationContent, MetricAttributes, MetricAttributeValues,
   MetricAttributesInline, MetricsCatalog, MetricsFields, MetricsGroups,
   TrimIngestionPanel, AttrValuePicker, SaveAsViewDialog, TagPicker,
   useBranding, useLoginBranding, useIngestBase, useNavigationReach,
   useUserPreference}

===============================================================================
