--------------------------- MODULE TenantAppPages ---------------------------
(* The pages about one app in the tenant administrator's console,           *)
(* features/tenant/app/ and features/tenant/oauth/.                         *)
EXTENDS ConsoleApi

-----------------------------------------------------------------------------
(* The users of one app.  Opening the permissions of a user first fetches   *)
(* what the app offers and only then, under the flag that hides the lists,  *)
(* what the user has; until then the lists are those of the user before.    *)

AppUsersLoads ==
  [app   |-> Load(TenantAppApi, {"getTenantApp"}, {"mount", "query"}),
   users |-> [flag |-> "loading"]
                @@ Load(TenantAppUserCalls, {"getAppUsersByStatus"}, {"mount", "query"})]

AppUsersGrants ==
  [offered |-> [next |-> {"granted"}, always |-> TRUE]
                  @@ Load(UserPermissionsApi, {"getAppPermissions", "getAppRoles"}, {}),
   granted |-> [flag |-> "loadingPermissions"]
                  @@ Load(UserPermissionsApi, {"getUserPermissions", "getUserRoles"}, {"open"})]

AppUsersGrantActs ==
  [c \in {"grantUserPermissions", "assignUserRoles"} |->
     [then |-> {"granted"}] @@ Act(UserPermissionsApi, <<c>>)]
  @@ [c \in {"revokeUserPermission", "revokeUserRole"} |->
        [asks |-> TRUE, then |-> {"granted"}] @@ Act(UserPermissionsApi, <<c>>)]

AppUsersActs ==
  [setStatus |-> [flag |-> "processingAction", closes |-> "user action", then |-> {"users"}]
                    @@ Act(TenantAppUserCalls, <<"updateUserStatus">>),
   revoke    |-> [asks |-> TRUE, then |-> {"users"}]
                    @@ Act(TenantAppUserCalls, <<"revokeUserAuthorization">>)]

AppUsersRows ==
  Part("page", {"users"}, {}, On({"permissions of user", "user action", "revoke"}, {}))

AppUsersHeader == Part("page", {"app"}, {}, On({"query", "users"}, {}))

AppUsersActionDialog ==
  Dialog("user action", {}, {"processingAction"}, {}, On({"setStatus"}, {"processingAction"}))

AppUsersDialog == Dialog("permissions of user", {"offered"}, {}, {}, None)

AppUsersGranted ==
  Part("permissions of user", {"granted"}, {"loadingPermissions"},
       On({"revokeUserPermission", "revokeUserRole"}, {}))

AppUsersOffered ==
  Part("permissions of user", {"offered"}, {"loadingPermissions"},
       On({"grantUserPermissions", "assignUserRoles"}, {}))

AppUsersPage ==
  Page(AppUsersLoads @@ AppUsersGrants, AppUsersGrantActs @@ AppUsersActs,
       {AppUsersRows, AppUsersHeader, AppUsersActionDialog, AppUsersDialog,
        AppUsersGranted, AppUsersOffered})

-----------------------------------------------------------------------------
(* The OAuth client dialogs, used by the app's page and by the list of all  *)
(* clients.  Creating one replaces the form by the new secret; only "Done"  *)
(* there fetches the list again, the other ways out of it do not.           *)

ClientScopes ==
  [scopes |-> [flag |-> "scopeLoading", latest |-> TRUE]
                 @@ Load(TenantOAuthApi, {"listScopes"}, {"dialog"})]

CreateClient(panel) ==
  [createClient |-> [flag |-> "isLoading", closes |-> "create client", opens |-> "credentials"]
                       @@ Act(TenantOAuthApi, <<"createClient">>),
   done |-> [closes |-> "credentials", then |-> {panel}] @@ Act(TenantOAuthApi, <<>>)]

CreateClientForm ==
  Dialog("create client", {"scopes"}, {}, {"scopes"}, On({"createClient"}, {"isLoading"}))

CreateClientSecret == Dialog("credentials", {}, {}, {}, On({"done"}, {}))


RegenerateSecret(panel) ==
  [regenerate |-> [flag |-> "isRegenerating", asks |-> TRUE, then |-> {panel}]
                     @@ Act(TenantOAuthApi, <<"regenerateSecret">>)]

SaveUris(panel) ==
  [saveUris |-> [flag |-> "isSavingUris", then |-> {panel}]
                   @@ Act(TenantOAuthApi, <<"updateClient">>)]

ClientDetail == Dialog("client", {}, {}, {}, On({"regenerate"}, {"isRegenerating"}))

ClientUris == Dialog("client", {}, {}, {}, On({"saveUris"}, {"isSavingUris"}))

ClientActs(panel) == CreateClient(panel) @@ RegenerateSecret(panel) @@ SaveUris(panel)
ClientDialogs ==
  {CreateClientForm, CreateClientSecret, ClientDetail, ClientUris}

-----------------------------------------------------------------------------
(* One app.                                                                 *)

AppDetailLoads ==
  [app |-> [flag |-> "loading"]
              @@ Load(TenantAppApi @@ TenantOAuthApi, {"getTenantApp", "listAppsWithClients"},
                      {"mount"})]

AppDetailHeader == Part("page", {"app"}, {}, On({"app"}, {}))

AppDetailInfo == Part("page", {"app"}, {}, None)

AppDetailClients == Part("page", {"app"}, {}, On({"create client", "client"}, {}))

AppDetailPage ==
  Page(AppDetailLoads @@ ClientScopes, ClientActs("app"),
       {AppDetailHeader, AppDetailInfo, AppDetailClients} \cup ClientDialogs)

-----------------------------------------------------------------------------
(* All OAuth clients of the tenant, grouped by app.                         *)

TenantClientsLoads ==
  [clients |-> [flag |-> "loading"]
                  @@ Load(TenantOAuthApi, {"listAppsWithClients"}, {"mount", "query"})]

TenantClientsDelete ==
  [delete |-> [asks |-> TRUE, then |-> {"clients"}] @@ Act(TenantOAuthApi, <<"deleteClient">>)]

TenantClientsSearch == Part("page", {}, {}, On({"create client", "query", "clients"}, {}))

TenantClientsList == Part("page", {"clients"}, {"loading"}, On({"client", "delete"}, {}))

TenantClientsPage ==
  Page(TenantClientsLoads @@ ClientScopes, TenantClientsDelete @@ ClientActs("clients"),
       {TenantClientsSearch, TenantClientsList} \cup ClientDialogs)

-----------------------------------------------------------------------------
(* Settings of one app.  Deleting it has no flag, only the name to type.    *)

AppSettingsLoads ==
  [app |-> [flag |-> "loading"] @@ Load(TenantAppApi, {"getTenantApp"}, {"mount"})]

AppSettingsActs ==
  [save   |-> [flag |-> "saving", then |-> {"app"}, waits |-> TRUE]
                 @@ Act(TenantAppApi, <<"updateTenantApp">>),
   delete |-> [goes |-> TRUE] @@ Act(TenantAppApi, <<"deleteTenantApp">>)]

AppSettingsHeader == Part("page", {"app"}, {}, On({"app"}, {}))

AppSettingsForm == Part("page", {"app"}, {}, None)

AppSettingsSide == Part("page", {"app"}, {}, On({"delete app"}, {}) @@ On({"save"}, {"saving"}))

AppSettingsDelete == Dialog("delete app", {}, {}, {"app"}, On({"delete"}, {}))

AppSettingsPage ==
  Page(AppSettingsLoads, AppSettingsActs,
       Covered({"loading"}, {AppSettingsHeader, AppSettingsForm, AppSettingsSide,
                             AppSettingsDelete}))

-----------------------------------------------------------------------------
(* All apps of the tenant.                                                  *)

AppsLoads ==
  [apps |-> [flag |-> "loading"] @@ Load(TenantAppApi, {"listTenantApps"}, {"mount"})]

AppsActs ==
  [toggle |-> [then |-> {"apps"}] @@ Act(TenantAppApi, <<"toggleAppStatus">>),
   delete |-> [asks |-> TRUE, then |-> {"apps"}] @@ Act(TenantAppApi, <<"deleteTenantApp">>)]

AppsHeader == Part("page", {"apps"}, {}, On({"apps"}, {}))

AppsCards == Part("page", {"apps"}, {}, On({"toggle", "delete"}, {}))

AppsPage == Page(AppsLoads, AppsActs, Covered({"loading"}, {AppsHeader, AppsCards}))

-----------------------------------------------------------------------------
(* Statistics of one app over a period.                                     *)

AppStatsLoads ==
  [app   |-> Load(TenantAppApi, {"getTenantApp"}, {"mount", "query"}),
   stats |-> [flag |-> "loading"] @@ Load(TenantAppApi, {"getAppStats"}, {"mount", "query"})]

AppStatsHeader == Part("page", {"app"}, {}, On({"query", "stats"}, {}))

AppStatsFigures == Part("page", {"stats"}, {}, None)

AppStatsCharts == Part("page", {"stats"}, {}, None)

AppStatsPage == Page(AppStatsLoads, None, {AppStatsHeader, AppStatsFigures, AppStatsCharts})

-----------------------------------------------------------------------------
(* A new app; its first client's secret is shown once.                      *)

CreateAppActs ==
  [create |-> [flag |-> "loading", opens |-> "credentials"]
                 @@ Act(TenantAppApi, <<"createTenantApp">>),
   leave  |-> [goes |-> TRUE] @@ Act(TenantAppApi, <<>>)]

CreateAppForm == Part("page", {}, {}, On({"leave"}, {}))

CreateAppSubmit == Part("page", {}, {}, On({"create"}, {"loading"}))

CreateAppSecret == Tab("credentials", {}, {}, {}, On({"leave"}, {}))

CreateAppPage == Page(None, CreateAppActs, {CreateAppForm, CreateAppSubmit, CreateAppSecret})

-----------------------------------------------------------------------------
(* Roles of one app.                                                        *)

AppRolesLoads ==
  [app   |-> Load(TenantAppApi, {"getTenantApp"}, {"mount"}),
   roles |-> [flag |-> "loading"]
                @@ Load(UserPermissionsApi, {"getAppRoles", "getAppPermissions"}, {"mount"})]

AppRolesActs ==
  [delete |-> [asks |-> TRUE, then |-> {"roles"}] @@ Act(UserPermissionsApi, <<"deleteRole">>),
   save   |-> [flag |-> "submitting", closes |-> "role", then |-> {"roles"}, waits |-> TRUE]
                 @@ Act(UserPermissionsApi, <<"updateRole">>)]

AppRolesRows == Part("page", {"roles"}, {}, On({"role", "delete"}, {}))

AppRolesHeader == Part("page", {"app"}, {}, On({"role", "roles"}, {}))

AppRolesDialog == Dialog("role", {}, {}, {"roles"}, On({"save"}, {"submitting"}))

AppRolesPage ==
  Page(AppRolesLoads, AppRolesActs,
       Covered({"loading"}, {AppRolesRows, AppRolesHeader, AppRolesDialog}))

-----------------------------------------------------------------------------
(* Permissions of one app.                                                  *)

AppPermissionsLoads ==
  [app         |-> Load(TenantAppApi, {"getTenantApp"}, {"mount"}),
   permissions |-> [flag |-> "loading"]
                      @@ Load(UserPermissionsApi, {"getAppPermissions"}, {"mount"})]

AppPermissionsActs ==
  [delete |-> [asks |-> TRUE, then |-> {"permissions"}]
                 @@ Act(UserPermissionsApi, <<"deletePermission">>),
   save   |-> [flag |-> "submitting", closes |-> "permission", then |-> {"permissions"},
               waits |-> TRUE] @@ Act(UserPermissionsApi, <<"updatePermission">>)]

AppPermissionsRows == Part("page", {"permissions"}, {}, On({"permission", "delete"}, {}))

AppPermissionsHeader == Part("page", {"app"}, {}, On({"permission", "permissions"}, {}))

AppPermissionsDialog == Dialog("permission", {}, {}, {}, On({"save"}, {"submitting"}))

AppPermissionsPage ==
  Page(AppPermissionsLoads, AppPermissionsActs,
       Covered({"loading"}, {AppPermissionsRows, AppPermissionsHeader, AppPermissionsDialog}))

============================================================================
