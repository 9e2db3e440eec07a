---------------------------- MODULE ConsoleApi ----------------------------
(* The typed client of the consoles (shared/api/): which of the server's    *)
(* data each call reads and which it changes.  A change of one entity shows *)
(* in every panel that reads it.  Calls no page makes are left out.         *)
EXTENDS ConsoleKit

-----------------------------------------------------------------------------
(* Admin console.                                                           *)

AdminApi ==
  Reads({"listLogs"}, {"logs"}) @@ Writes({"approveTx"}, {"wallets"})
    @@ Reads({"listWallets"}, {"wallets"})
    @@ Reads({"getDashboardStats"}, {"users", "tenants", "apps", "wallets"})
    @@ Reads({"getRecentActivities"}, {"logs"})
    @@ Reads({"triggerAdminLivenessCheck"}, {})

AdminAppApi ==
  Reads({"listApps", "getApp"}, {"apps"})
    @@ Writes({"createApp", "updateApp", "deleteApp"}, {"apps"})
    @@ Reads({"getOAuthClient"}, {"clients"})
    @@ Writes({"createOAuthClient", "updateOAuthClient", "regenerateClientSecret"}, {"clients"})

AdminEmailApi ==
  Reads({"getEmailConfig"}, {"settings"}) @@ Writes({"sendTestEmail"}, {})

AdminGiftCardApi == Reads({"getByCode"}, {"gift cards"})

AdminInvitationApi ==
  Reads({"list"}, {"invitations"})
    @@ Writes({"create", "updateStatus", "remove"}, {"invitations"})

AdminNotificationApi ==
  Reads({"getNotifications", "getNotificationStats"}, {"notifications"})
    @@ Reads({"getAllUsers"}, {"users"}) @@ Reads({"getAllTenants"}, {"tenants"})
    @@ Writes({"createNotification", "deleteNotification",
               "batchDeleteNotifications", "resendNotification"}, {"notifications"})

AdminPermissionApi ==
  Reads({"listPermissions"}, {"permissions"})
    @@ Reads({"getRolePermissions"}, {"role permissions"})
    @@ Writes({"createPermission", "updatePermission", "deletePermission"}, {"permissions"})
    @@ Writes({"setRolePermissions", "removeRolePermission"}, {"role permissions"})

AdminRoleApi == Reads({"listRoles"}, {"roles"})

AdminSettingsApi ==
  Reads({"listSettings", "getSetting"}, {"settings"})
    @@ Writes({"upsertSetting", "bulkUpdateSettings"}, {"settings"})

AdminTeamApi ==
  Reads({"list", "get"}, {"teams"}) @@ Reads({"listMembers"}, {"members"})
    @@ Writes({"create", "update", "remove", "toggleActive", "transferOwnership"}, {"teams"})
    @@ Writes({"addMember", "removeMember", "updateMemberRole"}, {"members"})

AdminTenantApi ==
  Reads({"getTenantList", "getTenantDetail", "getTenantStats"}, {"tenants"})
    @@ Reads({"getTenantAuthSettings"}, {"auth settings"})
    @@ Reads({"getTenantUsers", "getTenantUserDetail"}, {"tenant users"})
    @@ Writes({"createTenant", "updateTenant", "deleteTenant"}, {"tenants"})
    @@ Writes({"updateTenantAuthSettings"}, {"auth settings"})
    @@ Writes({"inviteTenantUser", "updateTenantUser", "removeTenantUser"}, {"tenant users"})
    @@ Writes({"adjustTenantUserWallet"}, {"wallets"})

AdminTenantRbacApi ==
  Reads({"listRoles"}, {"roles"}) @@ Reads({"listPermissions"}, {"permissions"})
    @@ Reads({"listUsers"}, {"users"}) @@ Reads({"getUserAccess"}, {"access"})
    @@ Reads({"getRolePermissions"}, {"role permissions"})
    @@ Writes({"createRole", "updateRole", "deleteRole"}, {"roles"})
    @@ Writes({"setRolePermissions"}, {"role permissions"})
    @@ Writes({"createPermission", "updatePermission", "deletePermission"}, {"permissions"})
    @@ Writes({"setUserAccess"}, {"access"})

AdminUserApi ==
  Reads({"getUsers", "getUser", "getUserStats"}, {"users"})
    @@ Reads({"getUserSummary"}, {"users", "wallets"})
    @@ Writes({"updateUser", "banUser", "deleteUser", "createUser",
               "assignGlobalRole", "removeGlobalRole"}, {"users"})

AdminWalletApi ==
  Reads({"getWallets", "getWallet", "getWalletStats", "getUserWallets", "getTeamWallets"},
        {"wallets"})
    @@ Reads({"getWalletTransactions"}, {"transactions"})
    @@ Reads({"getCurrencies"}, {"currencies"})
    @@ Writes({"createWallet", "freezeWallet", "unfreezeWallet", "deleteWallet"}, {"wallets"})
    @@ Writes({"adjustBalance", "adjustUserWallet", "adjustTeamWallet"},
              {"wallets", "transactions"})

OAuthClientApi ==
  Reads({"listClients", "getClient"}, {"clients"})
    @@ Reads({"getClientStats"}, {"tokens"}) @@ Reads({"listScopes"}, {})
    @@ Writes({"createClient", "updateClient", "deleteClient"}, {"clients"})
    @@ Writes({"regenerateSecret", "revokeClientTokens"}, {"tokens"})

-----------------------------------------------------------------------------
(* Tenant console.                                                          *)

TenantAppUserCalls ==
  Reads({"getAppUsers", "getAppUsersByStatus", "getAppUserStats"}, {"app users"})
    @@ Writes({"updateUserStatus", "revokeUserAuthorization"}, {"app users"})

UserPermissionsApi ==
  Reads({"getAppPermissions"}, {"permissions"}) @@ Reads({"getAppRoles"}, {"roles"})
    @@ Reads({"getUserPermissions"}, {"user permissions"})
    @@ Reads({"getUserRoles"}, {"user roles"})
    @@ Writes({"grantUserPermissions", "revokeUserPermission"}, {"user permissions"})
    @@ Writes({"assignUserRoles", "revokeUserRole"}, {"user roles"})
    @@ Writes({"createRole", "updateRole", "deleteRole"}, {"roles"})
    @@ Writes({"createPermission", "updatePermission", "deletePermission"}, {"permissions"})

CrossAppTrustApi ==
  Reads({"list"}, {"trusts"}) @@ Reads({"listLogs"}, {"exchange log"})
    @@ Writes({"create", "update", "delete"}, {"trusts"})

TenantGiftCardApi ==
  Reads({"list"}, {"gift cards"}) @@ Writes({"createBatch", "invalidate"}, {"gift cards"})

ManualApi ==
  Reads({"listKeys"}, {"keys"}) @@ Writes({"createKey", "deleteKey"}, {"keys"})

TenantNotificationApi ==
  Reads({"getNotifications", "getNotificationStats"}, {"notifications"})
    @@ Reads({"getTenantUsers", "searchTenantUsers"}, {"tenant users"})
    @@ Reads({"getTenantApps"}, {"apps"}) @@ Reads({"getNotificationLog"}, {"notification log"})
    @@ Writes({"createNotification", "updateNotification", "deleteNotification",
               "batchDeleteNotifications", "revokeNotification"}, {"notifications"})

TenantProductCalls ==
  Reads({"listProducts", "adminListProducts", "getProduct"}, {"products"})
    @@ Writes({"createProduct", "updateProduct", "deleteProduct"}, {"products"})

TenantPlanCalls ==
  Reads({"listPlans", "adminListPlans", "getPlan"}, {"plans"})
    @@ Writes({"createPlan", "updatePlan", "deletePlan"}, {"plans"})

TenantPriceCalls ==
  Reads({"listPrices", "adminListPrices", "getPrice"}, {"prices"})
    @@ Writes({"createPrice", "updatePrice", "deletePrice"}, {"prices"})

TenantSubscriptionCalls ==
  Reads({"listSubscriptions", "adminListSubscriptions", "getSubscription",
         "adminGetSubscriptionStats", "getSubscriptionStats", "getTenantSubscription",
         "listTenantSubscriptions"},
        {"subscriptions"})
    @@ Writes({"createSubscription", "cancelSubscription"}, {"subscriptions"})

TenantCouponCalls ==
  Reads({"listCoupons", "adminListCoupons", "getCoupon"}, {"coupons"})
    @@ Writes({"createCoupon", "updateCoupon", "deleteCoupon"}, {"coupons"})

TenantInvoiceCalls ==
  Reads({"listInvoices", "adminListInvoices"}, {"invoices"})
    @@ Writes({"createInvoice"}, {"invoices"})

TenantApi ==
  Reads({"getTenantInfo"}, {"tenant"}) @@ Reads({"getStripeConfig"}, {"stripe config"})
    @@ Reads({"getAuthSettings"}, {"auth settings"}) @@ Reads({"triggerLivenessCheck"}, {})
    @@ Writes({"updateStripeConfig"}, {"stripe config"})
    @@ Writes({"updateAuthSettings"}, {"auth settings"})

TenantAppApi ==
  Reads({"listTenantApps", "getTenantApp"}, {"apps"}) @@ Reads({"getAppStats"}, {"app stats"})
    @@ Writes({"createTenantApp", "updateTenantApp", "deleteTenantApp", "toggleAppStatus"},
              {"apps"})

TenantOAuthApi ==
  Reads({"listAppsWithClients"}, {"clients"}) @@ Reads({"listScopes"}, {})
    @@ Writes({"createClient", "updateClient", "deleteClient", "regenerateSecret"}, {"clients"})

TenantPermissionApi ==
  Reads({"getTenantPermissions", "getTenantPermissionCategories"}, {"permissions"})
    @@ Reads({"getRolePermissions"}, {"role permissions"})
    @@ Writes({"createTenantPermission", "updateTenantPermission", "deleteTenantPermission"},
              {"permissions"})
    @@ Writes({"addPermissionsToRole", "removePermissionFromRole"}, {"role permissions"})

TenantRoleApi ==
  Reads({"getTenantRoles"}, {"roles"})
    @@ Reads({"getTenantUsersForRole", "getUserRoles"}, {"user roles"})
    @@ Writes({"createTenantRole", "updateTenantRole", "deleteTenantRole"}, {"roles"})
    @@ Writes({"assignUserRoles"}, {"user roles"})

TenantTeamApi ==
  Reads({"list", "get"}, {"teams"}) @@ Reads({"listMembers"}, {"members"})
    @@ Writes({"create", "update", "remove", "toggleActive", "transferOwnership"}, {"teams"})
    @@ Writes({"addMember", "removeMember", "updateMemberRole"}, {"members"})

TenantUserApi ==
  Reads({"getTenantUsers", "getTenantUserStats", "getTenantUser"}, {"tenant users"})
    @@ Reads({"getGlobalUserCandidates"}, {"tenant users"})
    @@ Writes({"updateTenantUser", "removeTenantUser", "inviteTenantUser",
               "authorizeGlobalUser"}, {"tenant users"})
    @@ Writes({"resendInvitation"}, {})

TenantWalletApi ==
  Reads({"getWallets", "getWalletStats", "getUserWallets", "getTeamWallets"}, {"wallets"})
    @@ Reads({"getCurrencies"}, {"currencies"})
    @@ Reads({"getWalletTransactions"}, {"transactions"})
    @@ Writes({"adjustUserWallet", "adjustTeamWallet"}, {"wallets", "transactions"})

-----------------------------------------------------------------------------
(* User portal.                                                             *)

PasskeyApi ==
  Reads({"listPasskeys"}, {"passkeys"})
    @@ Writes({"createPasskey", "deletePasskey"}, {"passkeys"})

OrderApi ==
  Reads({"getOrder", "getOrderByNumber", "listOrders"}, {"orders"})
    @@ Writes({"createOrder"}, {"orders"})

PaymentApi ==
  Reads({"getPaymentSession", "getPaymentIntent"}, {"payments"})
    @@ Writes({"createPaymentIntent", "createPaymentSession"}, {"payments"})
    @@ Writes({"simulatePayment"}, {"payments", "orders"})

UserSubscriptionCalls ==
  Reads({"getProducts", "getProduct"}, {"products"}) @@ Reads({"getPlan"}, {"plans"})
    @@ Reads({"getPrice"}, {"prices"}) @@ Reads({"validateCoupon"}, {"coupons"})
    @@ Reads({"getSubscriptions", "getSubscription"}, {"subscriptions"})
    @@ Writes({"cancelSubscription", "createCheckout", "quickCheckout"}, {"subscriptions"})

AdminSubscriptionCalls ==
  Reads({"adminListProducts"}, {"products"}) @@ Reads({"adminListPlans"}, {"plans"})
    @@ Reads({"adminListPrices"}, {"prices"})
    @@ Reads({"adminListCoupons", "tenantListCoupons"}, {"coupons"})
    @@ Reads({"adminListSubscriptions", "adminGetSubscription"}, {"subscriptions"})
    @@ Writes({"adminCreateProduct", "adminUpdateProduct", "adminDeleteProduct"}, {"products"})
    @@ Writes({"adminCreatePlan", "adminUpdatePlan", "adminDeletePlan"}, {"plans"})
    @@ Writes({"adminCreatePrice", "adminUpdatePrice", "adminDeletePrice"}, {"prices"})
    @@ Writes({"adminCreateCoupon", "adminUpdateCoupon", "adminDeleteCoupon",
               "tenantCreateCoupon", "tenantUpdateCoupon", "tenantDeleteCoupon"}, {"coupons"})
    @@ Writes({"adminCancelSubscription"}, {"subscriptions"})

UserAppsApi == Reads({"list"}, {"authorizations"}) @@ Writes({"revoke"}, {"authorizations"})

InvitationApi ==
  Reads({"listIncoming", "listOutgoing"}, {"invitations"})
    @@ Writes({"create", "revoke", "reject"}, {"invitations"})
    @@ Writes({"accept"}, {"invitations", "teams"})

NoticeApi ==
  Reads({"getUserNotifications", "getUnreadCount"}, {"notifications"})
    @@ Writes({"markAsRead", "markAllAsRead", "deleteNotification"}, {"notifications"})

UserNotificationApi ==
  Reads({"getNotificationSettings"}, {"notification settings"})
    @@ Writes({"updateNotificationSettings"}, {"notification settings"})

ProfileApi ==
  Reads({"getProfile", "getUserProfile"}, {"profile"})
    @@ Reads({"getGenders", "getLanguages", "getCurrencies", "getTimezones"}, {})
    @@ Writes({"updateUserProfile", "putProfile"}, {"profile"})

SecurityApi ==
  Reads({"getSecurityStatus"}, {"security"}) @@ Reads({"loginHistory"}, {"logins"})
    @@ Reads({"setup2FA"}, {})
    @@ Writes({"verify2FA", "disable2FA", "changePassword",
               "enhancedChangePassword", "updateContact", "verifyEmail", "verifyPhone"},
              {"security"})
    @@ Writes({"resendEmailVerification", "resendPhoneVerification", "startEmailChange",
               "startPasswordReset"}, {})

TeamApi ==
  Reads({"getUserTeams", "getTeam"}, {"teams"}) @@ Reads({"getTeamMembers"}, {"members"})
    @@ Writes({"createTeam", "updateTeam", "deleteTeam"}, {"teams"})
    @@ Writes({"addMember", "updateMemberRole", "removeMember"}, {"members"})
    @@ Writes({"leaveTeam"}, {"teams", "members"})

WalletApi ==
  Reads({"getBalance"}, {"wallets"}) @@ Reads({"history"}, {"transactions"})
    @@ Writes({"recharge", "withdraw"}, {"wallets", "transactions"})

CurrencyApi == Reads({"getCurrencies"}, {"currencies"})

UserGiftCardApi == Writes({"redeem"}, {"wallets", "transactions"})

-----------------------------------------------------------------------------
(* Public pages, which call the client themselves.                          *)

LoginApi == Writes({"login", "verify2FA", "passkey"}, {})

SignupApi ==
  Writes({"start", "sendEmailCode", "resendEmailCode", "verifyEmailCode", "complete"}, {})

PublicApi ==
  Reads({"fetchPublicTenantByCode"}, {"tenant"})
    @@ Writes({"joinByCode", "requestReset", "confirmReset"}, {})
============================================================================
