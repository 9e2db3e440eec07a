---------------------------- MODULE TenantPages ----------------------------
(* The pages of the tenant administrator's console, features/tenant/,       *)
(* except those of one app (TenantAppPages.tla).                            *)
EXTENDS ConsoleApi

-----------------------------------------------------------------------------
(* Members of the tenant, with a second tab that lists the apps and how     *)
(* many users each has.  The two tabs share one flag.                       *)

MembersLoads ==
  [users |-> [flag |-> "loading"] @@ Load(TenantUserApi, {"getTenantUsers"}, {"mount", "query"}),
   stats |-> Load(TenantUserApi, {"getTenantUserStats"}, {"mount", "query"}),
   apps  |-> [flag |-> "loading"]
                @@ Load(TenantAppApi @@ TenantAppUserCalls,
                        {"listTenantApps", "getAppUserStats"}, {"open"})]

MembersInvite ==
  [invite |-> [flag |-> "submitting", closes |-> "invite dialog", then |-> {"users", "stats"}]
                 @@ Act(TenantUserApi, <<"inviteTenantUser">>)]

MembersActs ==
  [update |-> [flag |-> "submitting", closes |-> "edit dialog", then |-> {"users", "stats"}]
                 @@ Act(TenantUserApi, <<"updateTenantUser">>),
   remove |-> [asks |-> TRUE, then |-> {"users", "stats"}]
                 @@ Act(TenantUserApi, <<"removeTenantUser">>),
   resend |-> Act(TenantUserApi, <<"resendInvitation">>)]

MembersRows ==
  Part("page", {"users"}, {}, On({"edit dialog", "remove", "resend"}, {}))

MembersHeader ==
  [brings |-> {"users", "stats"}] @@
    Part("page", {"stats"}, {}, On({"invite dialog", "apps tab", "query"}, {}))

MembersAppsTab == Tab("apps tab", {"apps"}, {}, {"apps"}, On({"page"}, {}))

MembersInviteDialog == Dialog("invite dialog", {}, {}, {}, On({"invite"}, {"submitting"}))

MembersEditDialog == Dialog("edit dialog", {}, {}, {}, On({"update"}, {"submitting"}))

MembersPage ==
  Page(MembersLoads, MembersInvite @@ MembersActs,
       Covered({"loading"}, {MembersRows, MembersHeader, MembersAppsTab,
                             MembersInviteDialog, MembersEditDialog}))

-----------------------------------------------------------------------------
(* Coupons.  Deleting and switching change the list in place, saving from   *)
(* the dialog fetches it again.                                             *)

CouponsLoads ==
  [coupons |-> [flag |-> "loading", fails |-> "clear"]
                  @@ Load(TenantCouponCalls, {"listCoupons"}, {"mount"})]

CouponsRowActs ==
  [delete |-> [asks |-> TRUE, patch |-> {"coupons"}] @@ Act(TenantCouponCalls, <<"deleteCoupon">>),
   toggle |-> [patch |-> {"coupons"}] @@ Act(TenantCouponCalls, <<"updateCoupon">>)]

CouponsSave ==
  [save |-> [flag |-> "submitting", closes |-> "coupon", then |-> {"coupons"}]
               @@ Act(TenantCouponCalls, <<"createCoupon">>)]

CouponsHeader == Part("page", {"coupons"}, {}, On({"coupon"}, {}))

CouponsList == Part("page", {"coupons"}, {}, On({"toggle", "coupon", "delete"}, {}))

CouponsDialog ==
  [own |-> {"submitting"}] @@ Dialog("coupon", {}, {}, {}, On({"save"}, {"submitting"}))

CouponsPage ==
  Page(CouponsLoads, CouponsRowActs @@ CouponsSave,
       Covered({"loading"}, {CouponsHeader, CouponsList, CouponsDialog}))

-----------------------------------------------------------------------------
(* Subscriptions of the tenant.  Cancelling from the details dialog closes  *)
(* it at once, before the confirmation is answered.                         *)

SubStatusLoads ==
  [subscriptions |-> [flag |-> "loading"] @@
     Load(TenantSubscriptionCalls, {"adminListSubscriptions"}, {"mount", "query"})]

SubStatusActs ==
  [cancel |-> [asks |-> TRUE, leaves |-> "details", then |-> {"subscriptions"}]
                @@ Act(TenantSubscriptionCalls, <<"cancelSubscription">>)]

SubStatusHeader == Part("page", {"subscriptions"}, {}, On({"query"}, {}))

SubStatusList == Part("page", {"subscriptions"}, {}, On({"cancel", "details"}, {}))

SubStatusDetails == Dialog("details", {}, {}, {}, On({"cancel"}, {}))

SubStatusPage ==
  Page(SubStatusLoads, SubStatusActs,
       Covered({"loading"}, {SubStatusHeader, SubStatusList, SubStatusDetails}))

-----------------------------------------------------------------------------
(* Wallets of the tenant's users and teams, and its gift cards.  One load   *)
(* fetches the wallets and then waits for the gift cards.                   *)

TenantWalletsLoads ==
  [wallets   |-> [flag |-> "loading", fails |-> "clear", next |-> {"giftCards"}, waits |-> TRUE]
                    @@ Load(TenantWalletApi, {"getWallets", "getCurrencies"}, {"mount", "query"}),
   giftCards |-> [flag |-> "giftCardLoading", fails |-> "clear"]
                    @@ Load(TenantGiftCardApi, {"list"}, {})]

TenantWalletsCards ==
  [createBatch |-> [flag |-> "giftCardSubmitting", then |-> {"giftCards"}, waits |-> TRUE]
                      @@ Act(TenantGiftCardApi, <<"createBatch">>),
   invalidate  |-> [then |-> {"giftCards"}] @@ Act(TenantGiftCardApi, <<"invalidate">>)]

TenantWalletsAdjust ==
  [quickAdjust |-> [flag |-> "submitting", then |-> {"wallets"}, waits |-> TRUE]
                      @@ Act(TenantWalletApi, <<"getUserWallets", "adjustUserWallet">>)]

TenantWalletsTransactions ==
  [transactions |-> [flag |-> "transactionLoading", fails |-> "clear"]
                       @@ Load(TenantWalletApi, {"getWalletTransactions"}, {"open"})]

TenantWalletsForm ==
  Part("page", {}, {}, On({"query"}, {}) @@ On({"wallets"}, {"loading"})
                         @@ On({"quickAdjust"}, {"submitting"}))

TenantWalletsCardForm ==
  Part("page", {}, {}, On({"createBatch"}, {"giftCardSubmitting"})
                         @@ On({"giftCards"}, {"giftCardLoading"}))

TenantWalletsTable == Part("page", {"wallets"}, {"loading"}, On({"transactions of"}, {}))

TenantWalletsCardTable == Part("page", {"giftCards"}, {"giftCardLoading"}, On({"invalidate"}, {}))

TenantWalletsHistory ==
  {Dialog("transactions of", {"transactions"}, {}, {}, None),
   Part("transactions of", {"transactions"}, {"transactionLoading"}, None)}

TenantWalletsPage ==
  Page(TenantWalletsLoads @@ TenantWalletsTransactions, TenantWalletsCards @@ TenantWalletsAdjust,
       {TenantWalletsForm, TenantWalletsCardForm, TenantWalletsTable, TenantWalletsCardTable}
       \cup TenantWalletsHistory)

-----------------------------------------------------------------------------
(* Roles of the tenant.  Roles are assigned in a dialog where a user is     *)
(* picked: the roles ticked are those of the answer that came last.         *)

TenantRolesLoads ==
  [roles |-> [flag |-> "loading"] @@ Load(TenantRoleApi, {"getTenantRoles"}, {"mount", "query"})]

TenantRolesOfUser == [userRoles |-> Load(TenantRoleApi, {"getUserRoles"}, {"ask"})]

TenantRolesActs ==
  [save   |-> [closes |-> "role", then |-> {"roles"}] @@ Act(TenantRoleApi, <<"updateTenantRole">>),
   delete |-> [asks |-> TRUE, then |-> {"roles"}] @@ Act(TenantRoleApi, <<"deleteTenantRole">>)]

TenantRolesAssign ==
  [assign |-> [closes |-> "roles of user"] @@ Act(TenantRoleApi, <<"assignUserRoles">>)]

TenantRolesHeader == Part("page", {}, {}, On({"roles of user", "role", "query"}, {}))

TenantRolesList == Part("page", {"roles"}, {"loading"}, On({"role", "delete"}, {}))

TenantRolesDialog == Dialog("role", {}, {}, {}, On({"save"}, {}))

TenantRolesUserDialog ==
  Dialog("roles of user", {}, {}, {"roles", "userRoles"}, On({"userRoles", "assign"}, {}))

TenantRolesPage ==
  Page(TenantRolesLoads @@ TenantRolesOfUser, TenantRolesActs @@ TenantRolesAssign,
       {TenantRolesHeader, TenantRolesList, TenantRolesDialog, TenantRolesUserDialog})

-----------------------------------------------------------------------------
(* Permissions of the tenant.                                               *)

TenantPermsLoads ==
  [permissions |-> [flag |-> "loading"] @@
                     Load(TenantPermissionApi, {"getTenantPermissions"}, {"mount", "query"}),
   categories  |-> Load(TenantPermissionApi, {"getTenantPermissionCategories"},
                        {"mount", "query"})]

TenantPermsActs ==
  [delete |-> [asks |-> TRUE, then |-> {"permissions"}]
                 @@ Act(TenantPermissionApi, <<"deleteTenantPermission">>),
   save   |-> [flag |-> "submitting", closes |-> "permission",
               then |-> {"permissions"}, after |-> {"categories"}, waits |-> TRUE]
                 @@ Act(TenantPermissionApi, <<"updateTenantPermission">>)]

TenantPermsRows == Part("page", {"permissions"}, {"loading"}, On({"permission", "delete"}, {}))

TenantPermsHeader ==
  Part("page", {"categories"}, {}, On({"permission", "permissions", "query"}, {}))

TenantPermsDialog == Dialog("permission", {}, {}, {"categories"}, On({"save"}, {"submitting"}))

TenantPermsPage ==
  Page(TenantPermsLoads, TenantPermsActs, {TenantPermsRows, TenantPermsHeader, TenantPermsDialog})

-----------------------------------------------------------------------------
(* Trusts between the tenant's apps, and the log of token exchanges.        *)

TrustsLoads ==
  [trusts |-> [flag |-> "loading"] @@ Load(CrossAppTrustApi, {"list"}, {"mount"}),
   apps   |-> Load(TenantAppApi, {"listTenantApps"}, {"mount"}),
   logs   |-> [flag |-> "logsLoading"] @@ Load(CrossAppTrustApi, {"listLogs"}, {})]

TrustsActs ==
  [save   |-> [flag |-> "submitting", closes |-> "trust", then |-> {"trusts"}, waits |-> TRUE]
                 @@ Act(CrossAppTrustApi, <<"create">>),
   delete |-> [asks |-> TRUE, then |-> {"trusts"}] @@ Act(CrossAppTrustApi, <<"delete">>),
   toggle |-> [then |-> {"trusts"}] @@ Act(CrossAppTrustApi, <<"update">>)]

TrustsHeader == Part("page", {}, {}, On({"trust", "log"}, {}))

TrustsList == Part("page", {"trusts"}, {"loading"}, On({"toggle", "trust", "delete", "trusts"}, {}))

TrustsLog == Tab("log", {"logs"}, {"logsLoading"}, {"logs"}, On({"logs"}, {}))

TrustsDialog == Dialog("trust", {}, {}, {"apps"}, On({"save"}, {"submitting"}))

TrustsPage ==
  Page(TrustsLoads, TrustsActs,
       {TrustsHeader, TrustsList, TrustsLog, TrustsDialog,
        Tab("log", {}, {}, {}, On({"trust", "page"}, {}))})

-----------------------------------------------------------------------------
(* Settings of the tenant: payments and sign-in.  All changes of the        *)
(* payment settings share one flag and fetch them again.                    *)

TenantSettingsLoads ==
  [tenant |-> [flag |-> "tenantLoading"] @@ Load(TenantApi, {"getTenantInfo"}, {"mount"}),
   stripe |-> [flag |-> "stripeLoading"] @@ Load(TenantApi, {"getStripeConfig"}, {"mount"}),
   auth   |-> [flag |-> "authLoading", fails |-> "clear"]
                 @@ Load(TenantApi, {"getAuthSettings"}, {"mount"})]

TenantSettingsAuth ==
  [saveAuth |-> [flag |-> "authSaving", patch |-> {"auth"}]
                   @@ Act(TenantApi, <<"updateAuthSettings">>)]

TenantSettingsStripe ==
  [a \in {"saveStripe", "clearSecretKey", "clearWebhookSecret"} |->
     [flag |-> "stripeSaving", then |-> {"stripe"}, waits |-> TRUE]
       @@ Act(TenantApi, <<"updateStripeConfig">>)]

TenantSettingsPayment ==
  Part("page", {"stripe"}, {}, On(DOMAIN TenantSettingsStripe, {"stripeSaving"}))

TenantSettingsSignIn == Part("page", {"auth"}, {"authLoading"}, On({"saveAuth"}, {"authSaving"}))

TenantSettingsLinks == Part("page", {"tenant"}, {}, None)

TenantSettingsPage ==
  Page(TenantSettingsLoads, TenantSettingsAuth @@ TenantSettingsStripe,
       Covered({"tenantLoading"},
               {TenantSettingsPayment, TenantSettingsSignIn, TenantSettingsLinks}))

-----------------------------------------------------------------------------
(* Prices.  The dialog holds its own flag: covering the page while the list *)
(* is fetched again mounts the dialog anew.                                 *)

PricesLoads ==
  [prices |-> [flag |-> "loading"] @@
     Load(TenantPriceCalls @@ TenantPlanCalls, {"listPrices", "listPlans"}, {"mount"})]

PricesDelete ==
  [delete |-> [asks |-> TRUE, then |-> {"prices"}] @@ Act(TenantPriceCalls, <<"deletePrice">>)]

PricesSave ==
  [save |-> [flag |-> "submitting", closes |-> "price", then |-> {"prices"}]
               @@ Act(TenantPriceCalls, <<"updatePrice">>)]

PricesList == Part("page", {"prices"}, {}, On({"price", "delete"}, {}))

PricesDialog ==
  [own |-> {"submitting"}] @@
    Dialog("price", {}, {}, {"prices"}, On({"save"}, {"submitting"}))

PricesPage == Page(PricesLoads, PricesDelete @@ PricesSave,
                   Covered({"loading"}, {PricesList, PricesDialog}))

-----------------------------------------------------------------------------
(* Plans, in the same way.                                                  *)

PlansLoads ==
  [plans |-> [flag |-> "loading"] @@
     Load(TenantPlanCalls @@ TenantProductCalls, {"listPlans", "listProducts"}, {"mount"})]

PlansDelete ==
  [delete |-> [asks |-> TRUE, then |-> {"plans"}] @@ Act(TenantPlanCalls, <<"deletePlan">>)]

PlansSave ==
  [save |-> [flag |-> "submitting", closes |-> "plan", then |-> {"plans"}]
               @@ Act(TenantPlanCalls, <<"updatePlan">>)]

PlansList == Part("page", {"plans"}, {}, On({"plan", "delete"}, {}))

PlansDialog ==
  [own |-> {"submitting"}] @@ Dialog("plan", {}, {}, {"plans"}, On({"save"}, {"submitting"}))

PlansPage == Page(PlansLoads, PlansDelete @@ PlansSave,
                  Covered({"loading"}, {PlansList, PlansDialog}))

-----------------------------------------------------------------------------
(* The dashboard: five calls of which all must succeed.                     *)

TenantHomeLoads ==
  [stats |-> [flag |-> "loading"] @@
               Load(TenantAppApi @@ TenantUserApi @@ TenantNotificationApi
                      @@ TenantSubscriptionCalls @@ TenantApi,
                    {"listTenantApps", "getTenantUserStats", "getNotificationStats",
                     "getSubscriptionStats", "getTenantInfo"}, {"mount"})]

TenantHomeLiveness ==
  [liveness |-> [flag |-> "isCheckingLiveness"] @@
     Load(TenantApi, {"triggerLivenessCheck"}, {"button"})]

TenantHomeCards ==
  Part("page", {"stats", "liveness"}, {}, On({"liveness"}, {"isCheckingLiveness"}))

TenantHomeLinks == Part("page", {"stats"}, {}, None)

TenantHomePage ==
  Page(TenantHomeLoads @@ TenantHomeLiveness, None,
       Covered({"loading"}, {TenantHomeCards, TenantHomeLinks}))

-----------------------------------------------------------------------------
(* Information about the tenant.                                            *)

TenantInfoLoads ==
  [tenant |-> [flag |-> "loading"] @@ Load(TenantApi, {"getTenantInfo"}, {"mount"})]

TenantInfoBasics == Part("page", {"tenant"}, {}, On({"tenant"}, {}))

TenantInfoUsage == Part("page", {"tenant"}, {}, None)

TenantInfoPage ==
  Page(TenantInfoLoads, None, Covered({"loading"}, {TenantInfoBasics, TenantInfoUsage}))

-----------------------------------------------------------------------------
(* The pages the tenant's subscription menu leads to: each a list, a dialog *)
(* that saves without a flag and one that deletes.  Coupons first.          *)

ShopCouponsLoads ==
  [coupons |-> [flag |-> "loading"] @@
     Load(TenantCouponCalls, {"adminListCoupons"}, {"mount"})]

ShopCouponsSave ==
  [save |-> [closes |-> "coupon", then |-> {"coupons"}]
               @@ Act(TenantCouponCalls, <<"updateCoupon">>)]

ShopCouponsDelete ==
  [delete |-> [flag |-> "deleting", closes |-> "delete coupon", then |-> {"coupons"},
               waits |-> TRUE] @@ Act(TenantCouponCalls, <<"deleteCoupon">>)]

ShopCouponsList == Part("page", {"coupons"}, {}, On({"coupon", "delete coupon"}, {}))

ShopCouponsDialog == Dialog("coupon", {}, {}, {}, On({"save"}, {}))

ShopCouponsDeleteDialog ==
  Dialog("delete coupon", {}, {}, {}, On({"delete"}, {"deleting"}))

ShopCouponsPage ==
  Page(ShopCouponsLoads, ShopCouponsSave @@ ShopCouponsDelete,
       Covered({"loading"}, {ShopCouponsList, ShopCouponsDialog, ShopCouponsDeleteDialog}))

-----------------------------------------------------------------------------

(* Products.                                                                *)

ShopProductsLoads ==
  [products |-> [flag |-> "loading"] @@
     Load(TenantProductCalls, {"adminListProducts"}, {"mount"})]

ShopProductsSave ==
  [save |-> [closes |-> "product", then |-> {"products"}]
               @@ Act(TenantProductCalls, <<"updateProduct">>)]

ShopProductsDelete ==
  [delete |-> [flag |-> "deleting", closes |-> "delete product", then |-> {"products"},
               waits |-> TRUE] @@ Act(TenantProductCalls, <<"deleteProduct">>)]

ShopProductsList == Part("page", {"products"}, {}, On({"product", "delete product"}, {}))

ShopProductsDialog == Dialog("product", {}, {}, {}, On({"save"}, {}))

ShopProductsDeleteDialog ==
  Dialog("delete product", {}, {}, {}, On({"delete"}, {"deleting"}))

ShopProductsPage ==
  Page(ShopProductsLoads, ShopProductsSave @@ ShopProductsDelete,
       Covered({"loading"}, {ShopProductsList, ShopProductsDialog, ShopProductsDeleteDialog}))

-----------------------------------------------------------------------------

(* Plans, with the products they belong to.                                 *)

ShopPlansLoads ==
  [plans |-> [flag |-> "loading"] @@
     Load(TenantPlanCalls @@ TenantProductCalls, {"adminListPlans", "adminListProducts"},
          {"mount"})]

ShopPlansSave ==
  [save |-> [closes |-> "plan", then |-> {"plans"}]
               @@ Act(TenantPlanCalls, <<"updatePlan">>)]

ShopPlansDelete ==
  [delete |-> [flag |-> "deleting", closes |-> "delete plan", then |-> {"plans"},
               waits |-> TRUE] @@ Act(TenantPlanCalls, <<"deletePlan">>)]

ShopPlansList == Part("page", {"plans"}, {}, On({"plan", "delete plan"}, {}))

ShopPlansDialog == Dialog("plan", {}, {}, {}, On({"save"}, {}))

ShopPlansDeleteDialog ==
  Dialog("delete plan", {}, {}, {}, On({"delete"}, {"deleting"}))

ShopPlansPage ==
  Page(ShopPlansLoads, ShopPlansSave @@ ShopPlansDelete,
       Covered({"loading"}, {ShopPlansList, ShopPlansDialog, ShopPlansDeleteDialog}))

-----------------------------------------------------------------------------

(* Prices, with the plans they are of.                                      *)

ShopPricesLoads ==
  [prices |-> [flag |-> "loading"] @@
     Load(TenantPriceCalls @@ TenantPlanCalls, {"adminListPrices", "adminListPlans"}, {"mount"})]

ShopPricesSave ==
  [save |-> [closes |-> "price", then |-> {"prices"}]
               @@ Act(TenantPriceCalls, <<"updatePrice">>)]

ShopPricesDelete ==
  [delete |-> [flag |-> "deleting", closes |-> "delete price", then |-> {"prices"},
               waits |-> TRUE] @@ Act(TenantPriceCalls, <<"deletePrice">>)]

ShopPricesList == Part("page", {"prices"}, {}, On({"price", "delete price"}, {}))

ShopPricesDialog == Dialog("price", {}, {}, {}, On({"save"}, {}))

ShopPricesDeleteDialog ==
  Dialog("delete price", {}, {}, {}, On({"delete"}, {"deleting"}))

ShopPricesPage ==
  Page(ShopPricesLoads, ShopPricesSave @@ ShopPricesDelete,
       Covered({"loading"}, {ShopPricesList, ShopPricesDialog, ShopPricesDeleteDialog}))

-----------------------------------------------------------------------------

(* Invoices are only added.                                                 *)

ShopInvoicesLoads ==
  [invoices |-> [flag |-> "loading"]
                   @@ Load(TenantInvoiceCalls, {"adminListInvoices"}, {"mount"})]

ShopInvoicesActs ==
  [create |-> [closes |-> "invoice", then |-> {"invoices"}]
                 @@ Act(TenantInvoiceCalls, <<"createInvoice">>)]

ShopInvoicesList == Part("page", {"invoices"}, {}, On({"invoice"}, {}))

ShopInvoicesDialog == Dialog("invoice", {}, {}, {}, On({"create"}, {}))

ShopInvoicesPage ==
  Page(ShopInvoicesLoads, ShopInvoicesActs,
       Covered({"loading"}, {ShopInvoicesList, ShopInvoicesDialog}))

-----------------------------------------------------------------------------
(* Subscriptions with a status filter.                                      *)

ShopSubsLoads ==
  [subscriptions |-> [flag |-> "loading"] @@
     Load(TenantSubscriptionCalls, {"listTenantSubscriptions"}, {"mount", "query"})]

ShopSubsActs ==
  [cancel |-> [flag |-> "cancelling", closes |-> "cancel subscription",
               then |-> {"subscriptions"}, waits |-> TRUE]
                 @@ Act(TenantSubscriptionCalls, <<"cancelSubscription">>)]

ShopSubsHeader == Part("page", {}, {}, On({"query"}, {}))

ShopSubsList == Part("page", {"subscriptions"}, {}, On({"cancel subscription"}, {}))

ShopSubsDialog ==
  Dialog("cancel subscription", {}, {}, {}, On({"cancel"}, {"cancelling"}))

ShopSubsPage ==
  Page(ShopSubsLoads, ShopSubsActs,
       Covered({"loading"}, {ShopSubsHeader, ShopSubsList, ShopSubsDialog}))

-----------------------------------------------------------------------------
(* Figures about subscriptions.                                             *)

ShopHomeLoads ==
  [stats |-> [flag |-> "loading"]
     @@ Load(TenantSubscriptionCalls, {"adminGetSubscriptionStats"}, {"mount"})]

ShopHomeFigures == Part("page", {"stats"}, {}, On({}, {}))

ShopHomeLinks == Part("page", {"stats"}, {}, On({}, {}))

ShopHomePage ==
  Page(ShopHomeLoads, None, Covered({"loading"}, {ShopHomeFigures, ShopHomeLinks}))

-----------------------------------------------------------------------------
(* Notifications of the tenant.  The page number comes with the answer, so  *)
(* turning a page is a load on request.                                     *)

NoticesLoads ==
  [notifications |-> [flag |-> "loading", fails |-> "clear"]
     @@ Load(TenantNotificationApi, {"getNotifications"}, {"mount", "button"})]

NoticesActs ==
  [create |-> [closes |-> "notification", then |-> {"notifications"}]
                 @@ Act(TenantNotificationApi, <<"createNotification">>),
   delete |-> [then |-> {"notifications"}]
                 @@ Act(TenantNotificationApi, <<"deleteNotification">>)]

NoticesHeader == Part("page", {}, {}, On({"notification"}, {}))

NoticesList == Part("page", {"notifications"}, {"loading"}, On({"delete"}, {}))

NoticesPager == Part("page", {}, {}, On({"notifications"}, {}))

NoticesDialog == Dialog("notification", {}, {}, {}, On({"create"}, {}))

NoticesPage ==
  Page(NoticesLoads, NoticesActs, {NoticesHeader, NoticesList, NoticesPager, NoticesDialog})

-----------------------------------------------------------------------------
(* Teams of the tenant and the members of one of them.  The members are     *)
(* fetched again for the team the handler was made for.                     *)

TeamsLoads ==
  [teams |-> [flag |-> "loading"] @@ Load(TenantTeamApi, {"list"}, {"mount", "query"})]

TeamsMembersLoad ==
  [members |-> [flag |-> "memberLoading", resets |-> TRUE]
                  @@ Load(TenantTeamApi, {"listMembers"}, {"open"})]

TeamsActs ==
  [create |-> [closes |-> "new team", then |-> {"teams"}] @@ Act(TenantTeamApi, <<"create">>),
   toggle |-> [then |-> {"teams"}] @@ Act(TenantTeamApi, <<"toggleActive">>),
   save   |-> [closes |-> "edit team", then |-> {"teams"}] @@ Act(TenantTeamApi, <<"update">>)]

TeamsMemberActs ==
  [addMember    |-> [then |-> {"members"}] @@ Act(TenantTeamApi, <<"addMember">>),
   removeMember |-> [asks |-> TRUE, then |-> {"members"}]
                       @@ Act(TenantTeamApi, <<"removeMember">>),
   changeRole   |-> [then |-> {"members"}] @@ Act(TenantTeamApi, <<"updateMemberRole">>)]

TeamsOwnerActs ==
  [transferOwner |-> [asks |-> TRUE, flag |-> "transferring", then |-> {"teams", "members"}]
                        @@ Act(TenantTeamApi, <<"transferOwnership">>),
   remove        |-> [asks |-> TRUE, then |-> {"teams"}] @@ Act(TenantTeamApi, <<"remove">>)]

TeamsHeader == Part("page", {}, {}, On({"new team", "query"}, {}))

TeamsList ==
  Part("page", {"teams"}, {"loading"}, On({"toggle", "members of team", "edit team", "remove"}, {}))

TeamsDialogs ==
  {Dialog("new team", {}, {}, {}, On({"create"}, {})),
   Dialog("edit team", {}, {}, {}, On({"save"}, {}))}

TeamsMembers == Dialog("members of team", {"members"}, {}, {}, On({"addMember"}, {}))

TeamsMemberRows ==
  Part("members of team", {"members"}, {"memberLoading"},
       On({"changeRole", "removeMember"}, {}) @@ On({"transferOwner"}, {"transferring"}))

TeamsPage ==
  Page(TeamsLoads @@ TeamsMembersLoad, TeamsActs @@ TeamsMemberActs @@ TeamsOwnerActs,
       {TeamsHeader, TeamsList, TeamsMembers, TeamsMemberRows} \cup TeamsDialogs)

-----------------------------------------------------------------------------
(* Gift cards of the tenant.                                                *)

GiftCardsLoads ==
  [currencies |-> Load(TenantWalletApi, {"getCurrencies"}, {"mount"}),
   giftCards  |-> [flag |-> "loading", fails |-> "clear"]
                     @@ Load(TenantGiftCardApi, {"list"}, {"mount", "query"})]

GiftCardsActs ==
  [createBatch |-> [flag |-> "submitting", then |-> {"giftCards"}, waits |-> TRUE]
                      @@ Act(TenantGiftCardApi, <<"createBatch">>),
   invalidate  |-> [then |-> {"giftCards"}] @@ Act(TenantGiftCardApi, <<"invalidate">>)]

GiftCardsForm ==
  Part("page", {"currencies"}, {},
       On({"createBatch"}, {"submitting"}) @@ On({"giftCards"}, {"loading"}))

GiftCardsFilters == Part("page", {}, {}, On({"query"}, {}))

GiftCardsList == Part("page", {"giftCards"}, {"loading"}, On({"invalidate"}, {}))

GiftCardsPage ==
  Page(GiftCardsLoads, GiftCardsActs, {GiftCardsForm, GiftCardsFilters, GiftCardsList})

-----------------------------------------------------------------------------
(* API keys of the tenant.  A new key's secret is shown once.               *)

ApiKeysLoads ==
  [keys |-> [flag |-> "loading", fails |-> "clear"] @@ Load(ManualApi, {"listKeys"}, {"mount"})]

ApiKeysActs ==
  [create |-> [flag |-> "submitting", closes |-> "new key", then |-> {"keys"}, waits |-> TRUE]
                 @@ Act(ManualApi, <<"createKey">>),
   delete |-> [asks |-> TRUE, then |-> {"keys"}] @@ Act(ManualApi, <<"deleteKey">>)]

ApiKeysHeader == Part("page", {}, {}, On({"new key"}, {}))

ApiKeysList == Part("page", {"keys"}, {"loading"}, On({"delete"}, {}))

ApiKeysCreate == Dialog("new key", {}, {}, {}, On({"create"}, {"submitting"}))

ApiKeysPage == Page(ApiKeysLoads, ApiKeysActs, {ApiKeysHeader, ApiKeysList, ApiKeysCreate})

-----------------------------------------------------------------------------
(* Users of the whole system, to be taken into the tenant.  The flag names  *)
(* one row and disables only its button.                                    *)

GlobalUsersLoads ==
  [users |-> [flag |-> "loading"]
                @@ Load(TenantUserApi, {"getGlobalUserCandidates"}, {"mount", "query"})]

GlobalUsersActs ==
  [authorize |-> [asks |-> TRUE, flag |-> "submittingUserId", then |-> {"users"}, waits |-> TRUE]
                    @@ Act(TenantUserApi, <<"authorizeGlobalUser">>)]

GlobalUsersRows ==
  Part("page", {"users"}, {"loading"}, On({"query", "users", "authorize"}, {}))

GlobalUsersPage == Page(GlobalUsersLoads, GlobalUsersActs, {GlobalUsersRows})

-----------------------------------------------------------------------------
(* One subscription of the tenant's products.                               *)

ShopSubLoads ==
  [subscription |-> [flag |-> "loading"]
                       @@ Load(TenantSubscriptionCalls, {"getTenantSubscription"}, {"mount"})]

ShopSubActs ==
  [cancel |-> [asks |-> TRUE, then |-> {"subscription"}]
                 @@ Act(TenantSubscriptionCalls, <<"cancelSubscription">>)]

ShopSubDetail ==
  Part("page", {"subscription"}, {"loading"}, On({"cancel", "subscription"}, {}))

ShopSubPage == Page(ShopSubLoads, ShopSubActs, {ShopSubDetail})

============================================================================
