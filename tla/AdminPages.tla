---------------------------- MODULE AdminPages ----------------------------
(* The pages of the platform administrator's console, features/admin/.      *)
EXTENDS ConsoleApi

-----------------------------------------------------------------------------
(* Users: the list of all accounts.  Banning is not confirmed, and no       *)
(* change refreshes the counts above the list.                              *)

UsersLoads ==
  [users |-> [flag |-> "loading"] @@ Load(AdminUserApi, {"getUsers"}, {"mount", "query"}),
   stats |-> Load(AdminUserApi, {"getUserStats"}, {"mount"})]

UsersActs ==
  [banUser    |-> [then |-> {"users"}] @@ Act(AdminUserApi, <<"banUser">>),
   deleteUser |-> [asks |-> TRUE, then |-> {"users"}] @@ Act(AdminUserApi, <<"deleteUser">>),
   createUser |-> [flag |-> "creating", closes |-> "create", then |-> {"users"}]
                     @@ Act(AdminUserApi, <<"createUser">>)]

UsersHeader == Part("page", {"stats"}, {}, On({"create", "query"}, {}))

UsersTable == Part("page", {"users"}, {"loading"}, On({"banUser", "deleteUser"}, {}))

UsersCreate == Dialog("create", {}, {}, {}, On({"createUser"}, {"creating"}))

UsersPage == Page(UsersLoads, UsersActs, {UsersHeader, UsersTable, UsersCreate})

-----------------------------------------------------------------------------
(* Wallets of users and teams.  The quick adjustment to a target balance    *)
(* first reads the wallet; both adjustments share one flag.  Two effects    *)
(* fetch the wallets when the page comes up, and nothing but its button     *)
(* fetches the figures again.                                               *)

WalletsPanels ==
  [wallets    |-> [flag |-> "loading", fails |-> "clear"]
                     @@ Load(AdminWalletApi, {"getWallets"}, {"mount", "remount", "query"}),
   currencies |-> [fails |-> "clear"] @@ Load(AdminWalletApi, {"getCurrencies"}, {"mount"})]

WalletsStats ==
  [stats |-> [flag |-> "statsLoading"] @@ Load(AdminWalletApi, {"getWalletStats"}, {"mount"})]

WalletsTransactions ==
  [transactions |-> [flag |-> "transactionLoading", fails |-> "clear"]
                       @@ Load(AdminWalletApi, {"getWalletTransactions"}, {"open"})]

WalletsGiftCard ==
  [giftCard |-> [flag |-> "giftCardLoading", fails |-> "clear"]
                   @@ Load(AdminGiftCardApi, {"getByCode"}, {"ask"})]

WalletsForms ==
  [createWallet  |-> [flag |-> "createLoading", closes |-> "create", then |-> {"wallets"}]
                        @@ Act(AdminWalletApi, <<"createWallet">>),
   adjustBalance |-> [flag |-> "adjustLoading", closes |-> "adjust", then |-> {"wallets"}]
                        @@ Act(AdminWalletApi, <<"adjustBalance">>)]

WalletsQuickAdjust ==
  [quickAdjust |-> [flag |-> "adjustLoading", closes |-> "quick adjust", then |-> {"wallets"}]
                      @@ Act(AdminWalletApi, <<"getUserWallets", "adjustUserWallet">>)]

WalletsRowActs ==
  [c \in {"freezeWallet", "unfreezeWallet", "deleteWallet"} |->
     [asks |-> TRUE, then |-> {"wallets"}] @@ Act(AdminWalletApi, <<c>>)]

WalletsToolbar ==
  Part("page", {}, {}, On({"create", "quick adjust"}, {}) @@ On({"wallets"}, {"loading"}))

WalletsCard == Part("page", {"stats"}, {}, On({"stats"}, {"statsLoading"}))

WalletsFilters ==
  Part("page", {"giftCard", "currencies"}, {},
       On({"query"}, {}) @@ On({"giftCard"}, {"giftCardLoading"}))

WalletsTable ==
  Part("page", {"wallets"}, {"loading"},
       On({"history", "adjust", "freezeWallet", "unfreezeWallet", "deleteWallet"}, {}))

WalletsPages == Part("page", {"wallets"}, {"loading"}, On({"query"}, {}))

WalletsCreate == Dialog("create", {}, {}, {"currencies"}, On({"createWallet"}, {"createLoading"}))

WalletsQuick ==
  Dialog("quick adjust", {}, {}, {"currencies"}, On({"quickAdjust"}, {"adjustLoading"}))

WalletsHistory ==
  {Dialog("history", {"transactions"}, {}, {}, None),
   Part("history", {"transactions"}, {"transactionLoading"}, None)}

WalletsAdjust == Dialog("adjust", {}, {}, {}, On({"adjustBalance"}, {"adjustLoading"}))

WalletsPage ==
  Page(WalletsPanels @@ WalletsStats @@ WalletsTransactions @@ WalletsGiftCard,
       WalletsForms @@ WalletsQuickAdjust @@ WalletsRowActs,
       {WalletsToolbar, WalletsCard, WalletsFilters, WalletsTable, WalletsPages, WalletsCreate,
        WalletsQuick, WalletsAdjust} \cup WalletsHistory)

-----------------------------------------------------------------------------
(* One tenant.  The page stays covered until the settings that are fetched  *)
(* after the tenant have arrived too; an update waits for both.  It leaves  *)
(* the form only then, but until then the form is covered with the page.    *)

TenantDetailLoads ==
  [tenant       |-> [flag |-> "loading", next |-> {"authSettings"}, waits |-> TRUE]
                       @@ Load(AdminTenantApi, {"getTenantDetail"}, {"mount"}),
   authSettings |-> [flag |-> "authLoading", fails |-> "clear"]
                       @@ Load(AdminTenantApi, {"getTenantAuthSettings"}, {})]

TenantDetailSaveAuth ==
  [saveAuth |-> [flag |-> "authSaving", patch |-> {"authSettings"}]
                   @@ Act(AdminTenantApi, <<"updateTenantAuthSettings">>)]

TenantDetailActs ==
  [update |-> [flag |-> "updating", closes |-> "edit", then |-> {"tenant"}, waits |-> TRUE]
                 @@ Act(AdminTenantApi, <<"updateTenant">>),
   delete |-> [flag |-> "updating", asks |-> TRUE, goes |-> TRUE]
                 @@ Act(AdminTenantApi, <<"deleteTenant">>)]

TenantDetailHeader ==
  Part("page", {"tenant"}, {"loading"}, On({"edit", "delete"}, {"updating"}))

TenantDetailForm ==
  [hides |-> {"loading"}] @@
    Dialog("edit", {}, {}, {"tenant"}, On({"update", "delete"}, {"updating"}))

TenantDetailAuth ==
  Part("page", {"authSettings"}, {"loading", "authLoading"}, On({"saveAuth"}, {"authSaving"}))

TenantDetailPage ==
  Page(TenantDetailLoads, TenantDetailSaveAuth @@ TenantDetailActs,
       {TenantDetailHeader, TenantDetailForm, TenantDetailAuth,
        [TenantDetailAuth EXCEPT !.on = "edit"]})

-----------------------------------------------------------------------------
(* The users of one tenant.  The details dialog is not tied to the row it   *)
(* was opened for: a slow answer for another row may still land in it.      *)

TenantUsersLoads ==
  [tenant     |-> Load(AdminTenantApi, {"getTenantDetail"}, {"mount", "query"}),
   users      |-> [flag |-> "loading"]
                     @@ Load(AdminTenantApi, {"getTenantUsers"}, {"mount", "query"}),
   currencies |-> Load(AdminWalletApi, {"getCurrencies"}, {"mount"})]

TenantUsersDetail ==
  [detail |-> [flag |-> "detailLoading", resets |-> TRUE, fails |-> "clear"]
                 @@ Load(AdminTenantApi, {"getTenantUserDetail"}, {"open"})]

TenantUsersInvite ==
  [invite |-> [flag |-> "inviteSubmitting", closes |-> "invite dialog", then |-> {"users"},
               waits |-> TRUE] @@ Act(AdminTenantApi, <<"inviteTenantUser">>)]

TenantUsersActs ==
  [edit   |-> [flag |-> "editSubmitting", closes |-> "edit user", then |-> {"users"},
               waits |-> TRUE] @@ Act(AdminTenantApi, <<"updateTenantUser">>),
   remove |-> [asks |-> TRUE, then |-> {"users"}] @@ Act(AdminTenantApi, <<"removeTenantUser">>),
   adjust |-> [flag |-> "adjustWalletSubmitting", closes |-> "adjust wallet"]
                 @@ Act(AdminTenantApi, <<"adjustTenantUserWallet">>)]

TenantUsersHeader == Part("page", {"tenant"}, {}, On({"invite dialog", "query"}, {}))

TenantUsersTable ==
  Part("page", {"users"}, {"loading"},
       On({"detail of", "adjust wallet", "edit user", "remove"}, {}))

TenantUsersInviteDialog ==
  Dialog("invite dialog", {}, {}, {}, On({"invite"}, {"inviteSubmitting"}))

TenantUsersEditDialog ==
  Dialog("edit user", {}, {}, {}, On({"edit"}, {"editSubmitting"}))

TenantUsersAdjustDialog ==
  Dialog("adjust wallet", {}, {}, {"currencies"}, On({"adjust"}, {"adjustWalletSubmitting"}))

TenantUsersDialogs ==
  {TenantUsersInviteDialog, TenantUsersEditDialog, TenantUsersAdjustDialog,
   Dialog("detail of", {"detail"}, {}, {}, None),
   Part("detail of", {"detail"}, {"detailLoading"}, None)}

TenantUsersPage ==
  Page(TenantUsersLoads @@ TenantUsersDetail, TenantUsersInvite @@ TenantUsersActs,
       {TenantUsersHeader, TenantUsersTable} \cup TenantUsersDialogs)

-----------------------------------------------------------------------------
(* One user.  Only the wallet adjustment has a flag; a role is picked from  *)
(* a dialog that opens once the roles have arrived.                         *)

UserDetailLoads ==
  [user       |-> [flag |-> "loading"] @@ Load(AdminUserApi, {"getUserSummary"}, {"mount"}),
   currencies |-> Load(AdminWalletApi, {"getCurrencies"}, {"mount"})]

UserDetailRoles ==
  [roles |-> [opens |-> "assign role"] @@ Load(AdminRoleApi, {"listRoles"}, {"button"})]

UserDetailActs ==
  [banUser    |-> [closes |-> "ban", then |-> {"user"}] @@ Act(AdminUserApi, <<"banUser">>),
   assignRole |-> [closes |-> "assign role", then |-> {"user"}]
                     @@ Act(AdminUserApi, <<"assignGlobalRole">>),
   deleteUser |-> [asks |-> TRUE, goes |-> TRUE] @@ Act(AdminUserApi, <<"deleteUser">>)]

UserDetailAdjust ==
  [adjustWallet |-> [flag |-> "adjustWalletSubmitting", closes |-> "adjust wallet of user",
                     then |-> {"user"}, waits |-> TRUE]
                       @@ Act(AdminTenantApi, <<"adjustTenantUserWallet">>)]

UserDetailHeader == Part("page", {"user"}, {}, On({"ban", "deleteUser"}, {}))

UserDetailInfo == Part("page", {"user"}, {}, On({"adjust wallet of user"}, {}))

UserDetailRoleCard == Part("page", {"user"}, {}, On({"roles", "removeGlobalRole"}, {}))

UserDetailRemoveRole ==
  [removeGlobalRole |-> [then |-> {"user"}] @@ Act(AdminUserApi, <<"removeGlobalRole">>)]

UserDetailDialogs ==
  {Dialog("ban", {}, {}, {}, On({"banUser"}, {})),
   Dialog("assign role", {}, {}, {"roles"}, On({"assignRole"}, {}))}

UserDetailAdjustDialog ==
  Dialog("adjust wallet of user", {}, {}, {"currencies"},
         On({"adjustWallet"}, {"adjustWalletSubmitting"}))

UserDetailPage ==
  Page(UserDetailLoads @@ UserDetailRoles,
       UserDetailActs @@ UserDetailAdjust @@ UserDetailRemoveRole,
       Covered({"loading"}, {UserDetailHeader, UserDetailInfo, UserDetailRoleCard,
                             UserDetailAdjustDialog} \cup UserDetailDialogs))

-----------------------------------------------------------------------------
(* OAuth clients of all apps.  The form fetches the scopes each time it     *)
(* opens and drops the answer when it was closed meanwhile.                 *)

OAuthClientsScopes ==
  [scopes |-> [flag |-> "scopeLoading", latest |-> TRUE]
                 @@ Load(OAuthClientApi, {"listScopes"}, {"dialog"})]

OAuthClientsCreate ==
  [create |-> [flag |-> "isLoading", closes |-> "create client", then |-> {"clients"}]
                 @@ Act(OAuthClientApi, <<"createClient">>)]

OAuthClientsForm ==
  Dialog("create client", {"scopes"}, {}, {"scopes"}, On({"create"}, {"isLoading"}))

OAuthClientsRegenerate ==
  [regenerate |-> [flag |-> "isRegenerating", asks |-> TRUE, then |-> {"clients"}]
                     @@ Act(OAuthClientApi, <<"regenerateSecret">>)]

OAuthClientsDetail == Dialog("client", {}, {}, {}, On({"regenerate"}, {"isRegenerating"}))

OAuthClientsLoads ==
  [clients |-> [flag |-> "loading"]
                  @@ Load(OAuthClientApi, {"listClients"}, {"mount", "query"})]

OAuthClientsDelete ==
  [delete |-> [asks |-> TRUE, then |-> {"clients"}] @@ Act(OAuthClientApi, <<"deleteClient">>)]

OAuthClientsSearch == Part("page", {}, {}, On({"create client", "query", "clients"}, {}))

OAuthClientsList == Part("page", {"clients"}, {"loading"}, On({"client", "delete"}, {}))

OAuthClientsPage ==
  Page(OAuthClientsLoads @@ OAuthClientsScopes,
       OAuthClientsDelete @@ OAuthClientsCreate @@ OAuthClientsRegenerate,
       {OAuthClientsSearch, OAuthClientsList, OAuthClientsForm, OAuthClientsDetail})

-----------------------------------------------------------------------------
(* Roles, permissions and user access of a tenant picked on the page.  The  *)
(* permissions of a role and the access of a user are fetched before their  *)
(* dialog opens: the dialog is titled after the row clicked last, whatever  *)
(* answer filled it.  All saves share one flag.                             *)

TenantRbacLoads ==
  [tenants |-> Load(AdminTenantApi, {"getTenantList"}, {"mount"}),
   context |-> [flag |-> "loading"] @@
                 Load(AdminTenantApi @@ AdminTenantRbacApi,
                      {"getTenantDetail", "listRoles", "listPermissions", "listUsers"},
                      {"mount", "query"})]

TenantRbacRoles ==
  [saveRole   |-> [flag |-> "saving", closes |-> "role", then |-> {"context"}, waits |-> TRUE]
                     @@ Act(AdminTenantRbacApi, <<"updateRole">>),
   deleteRole |-> [asks |-> TRUE, then |-> {"context"}]
                     @@ Act(AdminTenantRbacApi, <<"deleteRole">>)]

TenantRbacPermissions ==
  [savePermission   |-> [flag |-> "saving", closes |-> "permission", then |-> {"context"},
                         waits |-> TRUE] @@ Act(AdminTenantRbacApi, <<"updatePermission">>),
   deletePermission |-> [asks |-> TRUE, then |-> {"context"}]
                           @@ Act(AdminTenantRbacApi, <<"deletePermission">>)]

TenantRbacRolePermissions ==
  [rolePermissions |-> [opens |-> "permissions of role"] @@
     Load(AdminTenantRbacApi, {"getRolePermissions"}, {"ask"})]

TenantRbacAccess ==
  [access |-> [opens |-> "access of user"] @@
     Load(AdminTenantRbacApi, {"getUserAccess"}, {"ask"})]

TenantRbacSaveRolePermissions ==
  [saveRolePermissions |-> [flag |-> "saving", closes |-> "permissions of role"] @@
     Act(AdminTenantRbacApi, <<"setRolePermissions">>)]

TenantRbacSaveAccess ==
  [saveAccess |-> [flag |-> "saving", closes |-> "access of user"] @@
     Act(AdminTenantRbacApi, <<"setUserAccess">>)]

TenantRbacHeader == Part("page", {"tenants"}, {}, On({"query"}, {}))

TenantRbacTables ==
  Part("page", {"context"}, {"loading"},
       On({"role", "deleteRole", "permission", "deletePermission", "rolePermissions", "access"},
          {}))

TenantRbacDialogs ==
  {Dialog("role", {}, {}, {}, On({"saveRole"}, {"saving"})),
   Dialog("permission", {}, {}, {}, On({"savePermission"}, {"saving"})),
   Dialog("permissions of role", {}, {}, {"rolePermissions"},
          On({"saveRolePermissions"}, {"saving"})),
   Dialog("access of user", {}, {}, {"access"}, On({"saveAccess"}, {"saving"}))}

TenantRbacPage ==
  Page(TenantRbacLoads @@ TenantRbacRolePermissions @@ TenantRbacAccess,
       TenantRbacRoles @@ TenantRbacPermissions @@ TenantRbacSaveRolePermissions
         @@ TenantRbacSaveAccess,
       {TenantRbacHeader, TenantRbacTables} \cup TenantRbacDialogs)

-----------------------------------------------------------------------------
(* Subscriptions of all tenants.  The cancel dialog cannot be left while    *)
(* its call runs.                                                           *)

AllSubsLoads ==
  [tenants       |-> Load(AdminTenantApi, {"getTenantList"}, {"mount"}),
   subscriptions |-> [flag |-> "loading"] @@
     Load(AdminSubscriptionCalls, {"adminListSubscriptions"}, {"mount", "query"})]

AllSubsDetail ==
  [detail |-> [opens |-> "subscription", always |-> TRUE] @@
     Load(AdminSubscriptionCalls, {"adminGetSubscription"}, {"button"})]

AllSubsActs ==
  [cancel  |-> [flag |-> "canceling", closes |-> "cancel subscription",
                then |-> {"subscriptions"}, waits |-> TRUE]
                  @@ Act(AdminSubscriptionCalls, <<"adminCancelSubscription">>),
   confirm |-> [closes |-> "subscription", opens |-> "cancel subscription"]
                  @@ Act(AdminSubscriptionCalls, <<>>)]

AllSubsHeader == Part("page", {"tenants"}, {}, On({"query"}, {}))

AllSubsList == Part("page", {"subscriptions"}, {}, On({"detail", "cancel subscription"}, {}))

AllSubsDialog == Dialog("subscription", {}, {}, {"detail"}, On({"confirm"}, {}))

AllSubsCancel ==
  Dialog("cancel subscription", {}, {"canceling"}, {}, On({"cancel"}, {"canceling"}))

AllSubsPage ==
  Page(AllSubsLoads @@ AllSubsDetail, AllSubsActs,
       Covered({"loading"}, {AllSubsHeader, AllSubsList, AllSubsDialog, AllSubsCancel}))

-----------------------------------------------------------------------------
(* Coupons of all tenants.  As on the three pages that follow, the dialog   *)
(* saves without a flag, and the deletion waits for the new list.           *)

AllCouponsLoads ==
  [coupons |-> [flag |-> "loading"]
                  @@ Load(AdminSubscriptionCalls, {"adminListCoupons"}, {"mount"})]

AllCouponsActs ==
  [save   |-> [closes |-> "coupon", then |-> {"coupons"}]
                 @@ Act(AdminSubscriptionCalls, <<"adminUpdateCoupon">>),
   delete |-> [flag |-> "deleting", closes |-> "delete coupon", then |-> {"coupons"},
               waits |-> TRUE] @@ Act(AdminSubscriptionCalls, <<"adminDeleteCoupon">>)]

AllCouponsList == Part("page", {"coupons"}, {}, On({"coupon", "delete coupon"}, {}))

AllCouponsDialog == Dialog("coupon", {}, {}, {}, On({"save"}, {}))

AllCouponsDelete ==
  Dialog("delete coupon", {}, {"deleting"}, {}, On({"delete"}, {"deleting"}))

AllCouponsPage ==
  Page(AllCouponsLoads, AllCouponsActs,
       Covered({"loading"}, {AllCouponsList, AllCouponsDialog, AllCouponsDelete}))

-----------------------------------------------------------------------------
(* Prices of all tenants.                                                   *)

AllPricesLoads ==
  [tenants |-> Load(AdminTenantApi, {"getTenantList"}, {"mount"}),
   prices  |-> [flag |-> "loading"] @@
     Load(AdminSubscriptionCalls, {"adminListPrices", "adminListPlans"}, {"mount", "query"})]

AllPricesActs ==
  [save   |-> [closes |-> "price", then |-> {"prices"}]
                 @@ Act(AdminSubscriptionCalls, <<"adminUpdatePrice">>),
   delete |-> [flag |-> "deleting", closes |-> "delete price", then |-> {"prices"},
               waits |-> TRUE] @@ Act(AdminSubscriptionCalls, <<"adminDeletePrice">>)]

AllPricesList ==
  Part("page", {"tenants", "prices"}, {}, On({"query", "price", "delete price"}, {}))

AllPricesDialog == Dialog("price", {}, {}, {}, On({"save"}, {}))

AllPricesDelete ==
  Dialog("delete price", {}, {"deleting"}, {}, On({"delete"}, {"deleting"}))

AllPricesPage ==
  Page(AllPricesLoads, AllPricesActs,
       Covered({"loading"}, {AllPricesList, AllPricesDialog, AllPricesDelete}))

-----------------------------------------------------------------------------
(* Plans of all tenants.                                                    *)

AllPlansLoads ==
  [tenants |-> Load(AdminTenantApi, {"getTenantList"}, {"mount"}),
   plans   |-> [flag |-> "loading"] @@
     Load(AdminSubscriptionCalls, {"adminListPlans", "adminListProducts"}, {"mount", "query"})]

AllPlansActs ==
  [save   |-> [closes |-> "plan", then |-> {"plans"}]
                 @@ Act(AdminSubscriptionCalls, <<"adminUpdatePlan">>),
   delete |-> [flag |-> "deleting", closes |-> "delete plan", then |-> {"plans"},
               waits |-> TRUE] @@ Act(AdminSubscriptionCalls, <<"adminDeletePlan">>)]

AllPlansList ==
  Part("page", {"tenants", "plans"}, {}, On({"query", "plan", "delete plan"}, {}))

AllPlansDialog == Dialog("plan", {}, {}, {}, On({"save"}, {}))

AllPlansDelete ==
  Dialog("delete plan", {}, {"deleting"}, {}, On({"delete"}, {"deleting"}))

AllPlansPage ==
  Page(AllPlansLoads, AllPlansActs,
       Covered({"loading"}, {AllPlansList, AllPlansDialog, AllPlansDelete}))

-----------------------------------------------------------------------------
(* Products of all tenants.                                                 *)

AllProductsLoads ==
  [tenants  |-> Load(AdminTenantApi, {"getTenantList"}, {"mount"}),
   products |-> [flag |-> "loading"]
     @@ Load(AdminSubscriptionCalls, {"adminListProducts"}, {"mount", "query"})]

AllProductsActs ==
  [save   |-> [closes |-> "product", then |-> {"products"}]
                 @@ Act(AdminSubscriptionCalls, <<"adminUpdateProduct">>),
   delete |-> [flag |-> "deleting", closes |-> "delete product", then |-> {"products"},
               waits |-> TRUE] @@ Act(AdminSubscriptionCalls, <<"adminDeleteProduct">>)]

AllProductsList ==
  Part("page", {"tenants", "products"}, {}, On({"query", "product", "delete product"}, {}))

AllProductsDialog == Dialog("product", {}, {}, {}, On({"save"}, {}))

AllProductsDelete ==
  Dialog("delete product", {}, {"deleting"}, {}, On({"delete"}, {"deleting"}))

AllProductsPage ==
  Page(AllProductsLoads, AllProductsActs,
       Covered({"loading"}, {AllProductsList, AllProductsDialog, AllProductsDelete}))

-----------------------------------------------------------------------------
(* The OAuth client of one app.  Saving and a new secret share one flag.    *)

ClientConfigLoads ==
  [scopes |-> [flag |-> "scopeLoading"] @@ Load(OAuthClientApi, {"listScopes"}, {"mount"}),
   client |-> [flag |-> "loading"] @@ Load(AdminAppApi, {"getOAuthClient"}, {"mount"})]

ClientConfigActs ==
  [save       |-> [flag |-> "saving", then |-> {"client"}, waits |-> TRUE]
                     @@ Act(AdminAppApi, <<"updateOAuthClient">>),
   regenerate |-> [asks |-> TRUE, flag |-> "saving", then |-> {"client"}, waits |-> TRUE]
                     @@ Act(AdminAppApi, <<"regenerateClientSecret">>)]

ClientConfigSecret == Part("page", {"client"}, {}, On({"regenerate"}, {"saving"}))

ClientConfigForm == Part("page", {"client"}, {}, On({"save"}, {"saving"}))

ClientConfigScopes == Part("page", {"scopes"}, {"scopeLoading"}, On({}, {}))

ClientConfigPage ==
  Page(ClientConfigLoads, ClientConfigActs,
       Covered({"loading"}, {ClientConfigSecret, ClientConfigForm, ClientConfigScopes}))

-----------------------------------------------------------------------------
(* Notifications of the whole system.                                       *)

AllNoticesLoads ==
  [notifications |-> [flag |-> "loading"]
     @@ Load(AdminNotificationApi, {"getNotifications"}, {"mount", "query"})]

AllNoticesActs ==
  [create |-> [flag |-> "creating", closes |-> "notification", then |-> {"notifications"},
               waits |-> TRUE] @@ Act(AdminNotificationApi, <<"createNotification">>),
   delete |-> [asks |-> TRUE, then |-> {"notifications"}]
                 @@ Act(AdminNotificationApi, <<"deleteNotification">>)]

AllNoticesHeader == Part("page", {}, {}, On({"notification"}, {}))

AllNoticesList == Part("page", {"notifications"}, {"loading"}, On({"delete", "query"}, {}))

AllNoticesDialog == Dialog("notification", {}, {}, {}, On({"create"}, {"creating"}))

AllNoticesPage ==
  Page(AllNoticesLoads, AllNoticesActs, {AllNoticesHeader, AllNoticesList, AllNoticesDialog})

-----------------------------------------------------------------------------
(* Settings of one category, edited in place and saved together.            *)

SettingsLoads ==
  [settings |-> [flag |-> "loading"] @@ Load(AdminSettingsApi, {"listSettings"}, {"mount"})]

SettingsActs ==
  [save |-> [flag |-> "saving", patch |-> {"settings"}]
               @@ Act(AdminSettingsApi, <<"bulkUpdateSettings">>)]

SettingsHeader == Part("page", {}, {}, On({"save"}, {"saving"}))

SettingsFields == Part("page", {"settings"}, {"loading"}, On({}, {}))

SettingsPage == Page(SettingsLoads, SettingsActs, {SettingsHeader, SettingsFields})

-----------------------------------------------------------------------------
(* Global roles.  The dialog of a role's permissions opens at once, the     *)
(* permissions it ticks come later.                                         *)

RolesLoads ==
  [roles       |-> Load(AdminRoleApi, {"listRoles"}, {"mount"}),
   permissions |-> Load(AdminPermissionApi, {"listPermissions"}, {"mount"})]

RolesChecked == [checked |-> Load(AdminPermissionApi, {"getRolePermissions"}, {"open"})]

RolesCreate ==
  [create |-> [flag |-> "creating", closes |-> "role", then |-> {"roles"}]
                 @@ Act(Writes({"createRole"}, {"roles"}), <<"createRole">>)]

RolesAssign ==
  [assign |-> [flag |-> "savingPerms", closes |-> "permissions of role"]
                 @@ Act(AdminPermissionApi, <<"setRolePermissions">>)]

RolesList == Part("page", {"roles"}, {}, On({"role", "permissions of role"}, {}))

RolesDialog == Dialog("role", {}, {}, {}, On({"create"}, {"creating"}))

RolesPermissions ==
  Dialog("permissions of role", {"checked"}, {}, {"permissions", "checked"},
         On({"assign"}, {"savingPerms"}))

RolesPage ==
  Page(RolesLoads @@ RolesChecked, RolesCreate @@ RolesAssign,
       {RolesList, RolesDialog, RolesPermissions})

-----------------------------------------------------------------------------
(* A new tenant, and the form of an existing one.                           *)

NewTenantActs ==
  [create |-> [flag |-> "loading", goes |-> TRUE] @@ Act(AdminTenantApi, <<"createTenant">>),
   leave  |-> [goes |-> TRUE] @@ Act(AdminTenantApi, <<>>)]

NewTenantForm == Part("page", {}, {}, On({"leave"}, {}))

NewTenantSubmit == Part("page", {}, {}, On({"create"}, {"loading"}))

NewTenantPage == Page(None, NewTenantActs, {NewTenantForm, NewTenantSubmit})


EditTenantLoads ==
  [tenant |-> [flag |-> "loading"] @@ Load(AdminTenantApi, {"getTenantDetail"}, {"mount"})]

EditTenantActs ==
  [save  |-> [flag |-> "saving", goes |-> TRUE] @@ Act(AdminTenantApi, <<"updateTenant">>),
   leave |-> [goes |-> TRUE] @@ Act(AdminTenantApi, <<>>)]

EditTenantHeader == Part("page", {"tenant"}, {}, On({"leave"}, {}))

EditTenantForm == Part("page", {"tenant"}, {}, On({"save"}, {"saving"}))

EditTenantPage ==
  Page(EditTenantLoads, EditTenantActs, Covered({"loading"}, {EditTenantHeader, EditTenantForm}))

-----------------------------------------------------------------------------
(* A new app from the admin console.  The secret of its first OAuth client  *)
(* is shown once; closing the box leaves the page.                          *)

NewAppActs ==
  [create |-> [flag |-> "loading", opens |-> "credentials"]
                 @@ Act(TenantAppApi, <<"createTenantApp">>),
   leave  |-> [goes |-> TRUE] @@ Act(TenantAppApi, <<>>)]

NewAppForm == Part("page", {}, {}, On({"leave"}, {}))

NewAppSubmit == Part("page", {}, {}, On({"create"}, {"loading"}))

NewAppSecret == Tab("credentials", {}, {}, {}, On({"leave"}, {}))

NewAppPage == Page(None, NewAppActs, {NewAppForm, NewAppSubmit, NewAppSecret})

-----------------------------------------------------------------------------
(* The dashboard.  Figures that cannot be had are replaced by made-up ones. *)

AdminHomeLoads ==
  [figures |-> [flag |-> "isLoading", fails |-> "clear"]
                  @@ Load(AdminApi, {"getDashboardStats", "getRecentActivities"}, {"mount"})]

AdminHomeCheck ==
  [liveness |-> [flag |-> "isCheckingLiveness"]
                   @@ Load(AdminApi, {"triggerAdminLivenessCheck"}, {"button"})]

AdminHomeHeader ==
  Part("page", {"figures", "liveness"}, {}, On({"liveness"}, {"isCheckingLiveness"}))

AdminHomeActivities == Part("page", {"figures"}, {}, On({}, {}))

AdminHomePage ==
  Page(AdminHomeLoads @@ AdminHomeCheck, None,
       Covered({"isLoading"}, {AdminHomeHeader, AdminHomeActivities}))

-----------------------------------------------------------------------------
(* All tenants.  A deletion waits for the rows, which cover the page.       *)

TenantsLoads ==
  [tenants |-> [flag |-> "loading"]
                  @@ Load(AdminTenantApi, {"getTenantList"}, {"mount", "query"})]

TenantsActs ==
  [delete |-> [asks |-> TRUE, then |-> {"tenants"}] @@ Act(AdminTenantApi, <<"deleteTenant">>)]

TenantsRows == Part("page", {"tenants"}, {"loading"}, On({"query", "delete"}, {}))

TenantsPage == Page(TenantsLoads, TenantsActs, {TenantsRows})

-----------------------------------------------------------------------------
(* All teams, as the page of a tenant's teams, but that nothing covers the  *)
(* teams while they are fetched again.                                      *)

AllTeamsLoads ==
  [teams   |-> [flag |-> "loading"] @@ Load(AdminTeamApi, {"list"}, {"mount", "query"}),
   members |-> [flag |-> "memberLoading", resets |-> TRUE]
                  @@ Load(AdminTeamApi, {"listMembers"}, {"open"})]

AllTeamsActs ==
  [create |-> [closes |-> "new team", then |-> {"teams"}] @@ Act(AdminTeamApi, <<"create">>),
   toggle |-> [then |-> {"teams"}] @@ Act(AdminTeamApi, <<"toggleActive">>),
   save   |-> [closes |-> "edit team", then |-> {"teams"}] @@ Act(AdminTeamApi, <<"update">>),
   remove |-> [asks |-> TRUE, then |-> {"teams"}] @@ Act(AdminTeamApi, <<"remove">>)]

AllTeamsMemberActs ==
  [addMember     |-> [then |-> {"members"}] @@ Act(AdminTeamApi, <<"addMember">>),
   changeRole    |-> [then |-> {"members"}] @@ Act(AdminTeamApi, <<"updateMemberRole">>),
   removeMember  |-> [asks |-> TRUE, then |-> {"members"}]
                        @@ Act(AdminTeamApi, <<"removeMember">>),
   transferOwner |-> [asks |-> TRUE, flag |-> "transferring", then |-> {"teams", "members"}]
                        @@ Act(AdminTeamApi, <<"transferOwnership">>)]

AllTeamsList ==
  Part("page", {"teams"}, {},
       On({"new team", "query", "toggle", "members of team", "edit team", "remove"}, {}))

AllTeamsForms ==
  {Dialog("new team", {}, {}, {}, On({"create"}, {})),
   Dialog("edit team", {}, {}, {}, On({"save"}, {}))}

AllTeamsMembers ==
  {Dialog("members of team", {"members"}, {}, {}, On({"addMember"}, {})),
   Part("members of team", {"members"}, {"memberLoading"},
        On({"changeRole", "removeMember"}, {}) @@ On({"transferOwner"}, {"transferring"}))}

AllTeamsPage ==
  Page(AllTeamsLoads, AllTeamsActs @@ AllTeamsMemberActs,
       {AllTeamsList} \cup AllTeamsForms \cup AllTeamsMembers)

-----------------------------------------------------------------------------
(* Permissions.  One form creates and updates; nothing is covered.          *)

PermissionsLoads ==
  [permissions |-> [flag |-> "loading"]
                      @@ Load(AdminPermissionApi, {"listPermissions"}, {"mount"})]

PermissionsActs ==
  [create |-> [then |-> {"permissions"}] @@ Act(AdminPermissionApi, <<"createPermission">>),
   update |-> [then |-> {"permissions"}] @@ Act(AdminPermissionApi, <<"updatePermission">>),
   delete |-> [asks |-> TRUE, then |-> {"permissions"}]
                 @@ Act(AdminPermissionApi, <<"deletePermission">>)]

PermissionsTable ==
  Part("page", {"permissions"}, {}, On({"create", "update", "delete"}, {}))

PermissionsPage == Page(PermissionsLoads, PermissionsActs, {PermissionsTable})

-----------------------------------------------------------------------------
(* Invitations to all teams, by page, status, keyword and team.             *)

AllInvitesLoads ==
  [invitations |-> [flag |-> "loading"]
                      @@ Load(AdminInvitationApi, {"list"}, {"mount", "query"}),
   teams       |-> Load(AdminTeamApi, {"list"}, {"mount"})]

AllInvitesActs ==
  [create       |-> [closes |-> "new invitation", then |-> {"invitations"}]
                       @@ Act(AdminInvitationApi, <<"create">>),
   updateStatus |-> [then |-> {"invitations"}] @@ Act(AdminInvitationApi, <<"updateStatus">>),
   remove       |-> [asks |-> TRUE, then |-> {"invitations"}]
                       @@ Act(AdminInvitationApi, <<"remove">>)]

AllInvitesFilters == Part("page", {"teams"}, {}, On({"new invitation", "query"}, {}))

AllInvitesTable ==
  Part("page", {"invitations"}, {"loading"}, On({"updateStatus", "remove"}, {}))

AllInvitesCreate == Dialog("new invitation", {}, {}, {"teams"}, On({"create"}, {}))

AllInvitesPage ==
  Page(AllInvitesLoads, AllInvitesActs, {AllInvitesFilters, AllInvitesTable, AllInvitesCreate})

-----------------------------------------------------------------------------
(* All apps.                                                                *)

AllAppsLoads ==
  [apps |-> [flag |-> "loading"] @@ Load(AdminAppApi, {"listApps"}, {"mount", "query"})]

AllAppsActs ==
  [delete |-> [asks |-> TRUE, then |-> {"apps"}] @@ Act(AdminAppApi, <<"deleteApp">>)]

AllAppsRows == Part("page", {"apps"}, {"loading"}, On({"query", "delete"}, {}))

AllAppsPage == Page(AllAppsLoads, AllAppsActs, {AllAppsRows})

-----------------------------------------------------------------------------
(* A test of the mail settings.                                             *)

MailTestLoads ==
  [config |-> [flag |-> "configLoading"] @@ Load(AdminEmailApi, {"getEmailConfig"}, {"mount"})]

MailTestActs == [send |-> [flag |-> "loading"] @@ Act(AdminEmailApi, <<"sendTestEmail">>)]

MailTestConfig == Part("page", {"config"}, {"configLoading"}, None)

MailTestForm == Part("page", {}, {}, On({"send"}, {"loading", "configLoading"}))

MailTestPage == Page(MailTestLoads, MailTestActs, {MailTestConfig, MailTestForm})

-----------------------------------------------------------------------------
(* The audit log.                                                           *)

LogsLoads == [logs |-> [flag |-> "loading"] @@ Load(AdminApi, {"listLogs"}, {"mount"})]

LogsHeader == Part("page", {}, {}, On({"logs"}, {"loading"}))

LogsTable == Part("page", {"logs"}, {"loading"}, None)

LogsPage == Page(LogsLoads, None, {LogsHeader, LogsTable})

============================================================================
