--------------------------- MODULE MCConsolePage ---------------------------
(* The pages written down as records, run by ConsolePage, and where a       *)
(* property has exceptions, which pages they are.                           *)
EXTENDS ConsolePage, AdminPages, TenantPages, TenantAppPages, UserPages, AuthPages

AllPages ==
  [Users |-> UsersPage, Wallets |-> WalletsPage,
   TenantDetail |-> TenantDetailPage, TenantUsers |-> TenantUsersPage,
   UserDetail |-> UserDetailPage, OAuthClients |-> OAuthClientsPage,
   TenantRbac |-> TenantRbacPage, AllSubs |-> AllSubsPage,
   AllCoupons |-> AllCouponsPage, AllPrices |-> AllPricesPage,
   AllPlans |-> AllPlansPage, AllProducts |-> AllProductsPage,
   ClientConfig |-> ClientConfigPage, AllNotices |-> AllNoticesPage,
   Settings |-> SettingsPage, Roles |-> RolesPage,
   NewTenant |-> NewTenantPage, EditTenant |-> EditTenantPage,
   NewApp |-> NewAppPage, AdminHome |-> AdminHomePage,
   Tenants |-> TenantsPage, AllTeams |-> AllTeamsPage,
   Permissions |-> PermissionsPage, AllInvites |-> AllInvitesPage,
   AllApps |-> AllAppsPage, MailTest |-> MailTestPage, Logs |-> LogsPage,
   Members |-> MembersPage, Coupons |-> CouponsPage,
   SubStatus |-> SubStatusPage, TenantWallets |-> TenantWalletsPage,
   TenantRoles |-> TenantRolesPage, TenantPerms |-> TenantPermsPage,
   Trusts |-> TrustsPage, TenantSettings |-> TenantSettingsPage,
   Prices |-> PricesPage, Plans |-> PlansPage, TenantHome |-> TenantHomePage,
   TenantInfo |-> TenantInfoPage, ShopCoupons |-> ShopCouponsPage,
   ShopProducts |-> ShopProductsPage, ShopPlans |-> ShopPlansPage,
   ShopPrices |-> ShopPricesPage, ShopInvoices |-> ShopInvoicesPage,
   ShopSubs |-> ShopSubsPage, ShopHome |-> ShopHomePage,
   Notices |-> NoticesPage, Teams |-> TeamsPage, GiftCards |-> GiftCardsPage,
   ApiKeys |-> ApiKeysPage, GlobalUsers |-> GlobalUsersPage, ShopSub |-> ShopSubPage,
   AppUsers |-> AppUsersPage, AppDetail |-> AppDetailPage,
   TenantClients |-> TenantClientsPage, AppSettings |-> AppSettingsPage,
   Apps |-> AppsPage, AppStats |-> AppStatsPage, CreateApp |-> CreateAppPage,
   AppRoles |-> AppRolesPage, AppPermissions |-> AppPermissionsPage,
   UserHome |-> UserHomePage, Wallet |-> WalletPage, History |-> HistoryPage,
   Recharge |-> RechargePage, Withdraw |-> WithdrawPage,
   Redeem |-> RedeemPage, Profile |-> ProfilePage,
   MySettings |-> MySettingsPage, Security |-> SecurityPage,
   TwoFA |-> TwoFAPage, Passkeys |-> PasskeysPage, Logins |-> LoginsPage,
   MyApps |-> MyAppsPage, MyApp |-> MyAppPage, Team |-> TeamPage,
   EditTeam |-> EditTeamPage, MyTeams |-> MyTeamsPage,
   NewTeam |-> NewTeamPage, Invite |-> InvitePage,
   MyMembers |-> MyMembersPage, Inbox |-> InboxPage, MySubs |-> MySubsPage,
   Shop |-> ShopPage, Checkout |-> CheckoutPage, Confirm |-> ConfirmPage,
   Orders |-> OrdersPage, Paid |-> PaidPage, Payment |-> PaymentPage,
   UserNotices |-> UserNoticesPage, Bell |-> BellPage, Login |-> LoginPage,
   TenantLogin |-> TenantLoginPage, Register |-> RegisterPage,
   TenantRegister |-> TenantRegisterPage, Join |-> JoinPage,
   Reset |-> ResetPage, Consent |-> ConsentPage]

Pages == {[name |-> name] @@ AllPages[name] : name \in DOMAIN AllPages}

(* The pages with dialogs about rows, on which a third event matters.  The  *)
(* pages of an app's users and of all wallets are left at two: with three   *)
(* each has more states than all the others together.                       *)
DialogPages ==
  {"AllSubs", "AllCoupons", "AllPlans", "MySubs", "TenantRoles", "TenantUsers",
   "TenantRbac", "TenantDetail", "Coupons", "ShopSubs", "AllTeams", "Roles",
   "Teams", "AllPrices", "AllProducts"}

(* A dialog closed while its act runs and opened again, the act sent again. *)
ReopeningPages == {"Coupons", "Prices", "Plans"}

Clicks ==
  [name \in DOMAIN AllPages |-> IF name \in ReopeningPages THEN 4
                                ELSE IF name \in DialogPages THEN 3 ELSE 2]

InAll == [name \in DOMAIN AllPages |-> IF name \in ReopeningPages THEN 4 ELSE 3]

-----------------------------------------------------------------------------
(* Where the pages fall short.  Without an entry TLC shows the steps, for   *)
(* the transactions of Wallets only when that page is explored with three   *)
(* clicks and for the apps of Members with four.                            *)

Each(name, acts, ls) == {name} \X acts \X ls
Of(name, ls) == {name} \X ls

(* The panel may miss what the user did on the same page.                   *)
PanelsLeftStale ==
  (* Nothing fetches it again, or only one of the ways out of a dialog.     *)
  Each("AppDetail", {"createClient"}, {"app"})
  \cup Each("TenantClients", {"createClient"}, {"clients"})
  \cup Each("TenantPerms", {"delete"}, {"categories"})
  \cup Each("Users", {"banUser", "createUser", "deleteUser"}, {"stats"})
  \cup Each("TenantWallets", {"quickAdjust"}, {"transactions"})
  \cup Each("Wallets", {"adjustBalance", "quickAdjust"}, {"transactions"})
  \cup Each("Wallets", {"adjustBalance", "createWallet", "deleteWallet", "freezeWallet",
                         "quickAdjust", "unfreezeWallet"}, {"stats"})
  \cup Each("TenantUsers", {"remove", "edit", "invite"}, {"detail"})
  \cup Each("AllSubs", {"cancel"}, {"detail"})
  \cup Each("TenantRbac", {"saveAccess"}, {"access"})
  \cup Each("TenantRbac", {"saveRolePermissions"}, {"rolePermissions"})
  (* Changed in place, and then overwritten by an answer of before.         *)
  \cup Each("Bell", {"delete", "read", "readAll"}, {"list"})
  \cup Each("Bell", {"readAll"}, {"unread"})
  \cup Each("UserNotices", {"delete", "read", "readAll"}, {"notifications"})
  \cup Each("Coupons", {"delete", "toggle"}, {"coupons"})
  \cup Each("TenantDetail", {"saveAuth"}, {"authSettings"})
  (* One call of the handler was done, another refused.                     *)
  \cup Each("MySettings", {"save"}, {"settings"})
  \cup Each("Profile", {"save"}, {"profile"})
  \cup Each("Settings", {"save"}, {"settings"})

(* NotificationContext catches the refusal, the page changes its list.      *)
RefusalsHidden == Each("UserNotices", {"delete", "read", "readAll"}, {"notifications"})

(* An answer to the filters, the page or the row of before may stay.        *)
PanelsOvertaken ==
  Of("AllApps", {"apps"}) \cup Of("AllInvites", {"invitations"})
  \cup Of("AllNotices", {"notifications"}) \cup Of("AllPlans", {"plans"})
  \cup Of("AllPrices", {"prices"}) \cup Of("AllProducts", {"products"})
  \cup Of("AllTeams", {"members", "teams"}) \cup Of("GlobalUsers", {"users"})
  \cup Of("Tenants", {"tenants"}) \cup Of("AppStats", {"app", "stats"}) \cup Of("AppUsers", {"app", "granted", "users"})
  \cup Of("GiftCards", {"giftCards"}) \cup Of("Members", {"apps", "stats", "users"})
  \cup Of("OAuthClients", {"clients"}) \cup Of("Payment", {"balance"})
  \cup Of("Roles", {"checked"}) \cup Of("ShopSubs", {"subscriptions"})
  \cup Of("SubStatus", {"subscriptions"}) \cup Of("Teams", {"members", "teams"})
  \cup Of("TenantClients", {"clients"}) \cup Of("TenantPerms", {"categories", "permissions"})
  \cup Of("TenantRbac", {"access", "context", "rolePermissions"})
  \cup Of("TenantRoles", {"roles", "userRoles"})
  \cup Of("TenantUsers", {"detail", "tenant", "users"})
  \cup Of("TenantWallets", {"transactions", "wallets"})
  \cup Of("UserNotices", {"notifications"}) \cup Of("Users", {"users"})
  \cup Of("Wallets", {"transactions", "wallets"})

(* A dialog that keeps the rows of another row until its own have come.     *)
DialogsThatMix ==
  Of("AppUsers", {"granted"}) \cup Of("Roles", {"checked"}) \cup Of("TenantRoles", {"userRoles"})

(* The busy flag lives in the dialog, which a click beside it closes while  *)
(* the call runs: opened again, it can be saved again.  Or it names one row *)
(* and the button of another raises and lowers it meanwhile.  Or the first  *)
(* of two calls sent together is refused, which lowers it while the other   *)
(* is under way.                                                            *)
SentTwice ==
  (ReopeningPages \X {"save"})
    \cup {<<"GlobalUsers", "authorize">>, <<"MyApps", "revoke">>, <<"Inbox", "accept">>,
          <<"Inbox", "reject">>, <<"Shop", "subscribe">>, <<"MySettings", "save">>}

(* All pages but these fetch again what they write: these leave it to the   *)
(* next opening of the dialog, or change the panel in place.                *)
ASSUME DiligentPages ==
  \A P \in Pages : P.name \in {"Roles", "TenantRoles", "TenantSettings"} \/ Diligent(P)

(* The dialogs about rows of all pages come up bare or with their row, but  *)
(* for those listed above.                                                  *)
ASSUME RowsApartPages == \A P \in Pages : RowsApart(P)

(* The rows are those of the filters, page or dialog on the screen, but for *)
(* those listed above.  The page of all subscriptions is left to the run:   *)
(* its dialog holds the page while a subscription is cancelled.             *)
ASSUME InOrderPages == \A P \in Pages : P.name = "AllSubs" \/ InOrder(P)
=============================================================================
