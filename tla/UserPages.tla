----------------------------- MODULE UserPages -----------------------------
(* The pages of the user portal (features/user), one after the other.       *)
EXTENDS ConsoleApi

(* Wallet amounts are entered in a currency picked from this selector.      *)

CurrencyList(by) == [flag |-> "selector"] @@ Load(CurrencyApi, {"getCurrencies"}, by)

CurrencySelector(offers) == Part("page", {"currencies"}, {"selector"}, offers)

-----------------------------------------------------------------------------
(* Overview.                                                                *)

UserHomeLoads ==
  [overview |-> [flag |-> "isLoading"]
                   @@ Load(ProfileApi @@ SecurityApi @@ WalletApi,
                           {"getProfile", "getSecurityStatus", "history"}, {"mount"})]

UserHomeHeader == Part("page", {"overview"}, {}, On({"overview"}, {}))

UserHomeActions == Part("page", {"overview"}, {}, None)

UserHomeRecent == Part("page", {"overview"}, {}, None)

UserHomePage ==
  Page(UserHomeLoads, None,
       Covered({"isLoading"}, {UserHomeHeader, UserHomeActions, UserHomeRecent}))

-----------------------------------------------------------------------------
(* Wallet.  The default currency comes first; the selector is mounted, and  *)
(* asks for the currencies again, each time the balance has arrived.        *)

WalletLoads ==
  [default    |-> [flag |-> "isLoading", next |-> {"balance"}]
                     @@ Load(CurrencyApi, {"getCurrencies"}, {"mount"}),
   balance    |-> [flag |-> "isLoading", fails |-> "clear", next |-> {"currencies"},
                   always |-> TRUE] @@ Load(WalletApi, {"getBalance", "history"}, {"query"}),
   currencies |-> CurrencyList({})]

WalletHeader == Part("page", {"balance"}, {}, None)

WalletFigures == Part("page", {"balance"}, {}, None)

WalletRecent == Part("page", {"balance"}, {}, None)

WalletPage ==
  Page(WalletLoads, None,
       Covered({"isLoading"}, {WalletHeader, WalletFigures, WalletRecent,
                               CurrencySelector(On({"query"}, {}))}))

-----------------------------------------------------------------------------
(* Wallet history; three made-up transactions stand in when it cannot be    *)
(* had.                                                                     *)

HistoryLoads ==
  [history |-> [flag |-> "isLoading", fails |-> "clear"]
                  @@ Load(WalletApi, {"history"}, {"mount"})]

HistoryHeader == Part("page", {"history"}, {}, None)

HistoryRows == Part("page", {"history"}, {}, None)

HistoryPage ==
  Page(HistoryLoads, None, Covered({"isLoading"}, {HistoryHeader, HistoryRows}))

-----------------------------------------------------------------------------
(* Recharge, or redeem a gift card; a timer leaves the page after success.  *)

RechargeLoads == [currencies |-> CurrencyList({"mount"})]

RechargeActs ==
  [recharge |-> [flag |-> "isLoading", opens |-> "success"] @@ Act(WalletApi, <<"recharge">>),
   redeem   |-> [flag |-> "giftRedeeming", opens |-> "success"]
                   @@ Act(UserGiftCardApi, <<"redeem">>),
   leave    |-> [goes |-> TRUE] @@ Act(WalletApi, <<>>)]

RechargeGift == Part("page", {}, {}, On({"redeem"}, {"giftRedeeming"}) @@ On({"leave"}, {}))

RechargeForm == Part("page", {}, {}, On({"recharge"}, {"isLoading"}))

RechargeNotes == Part("page", {}, {}, None)

RechargeDone == Tab("success", {}, {}, {}, On({"leave"}, {}))

RechargePage ==
  Page(RechargeLoads, RechargeActs,
       {RechargeGift, RechargeForm, RechargeNotes, RechargeDone, CurrencySelector(None)})

-----------------------------------------------------------------------------
(* Withdrawal.                                                              *)

WithdrawLoads == [currencies |-> CurrencyList({"mount"})]

WithdrawActs ==
  [withdraw |-> [flag |-> "isLoading", opens |-> "success"] @@ Act(WalletApi, <<"withdraw">>),
   leave    |-> [goes |-> TRUE] @@ Act(WalletApi, <<>>)]

WithdrawHeader == Part("page", {}, {}, On({"leave"}, {}))

WithdrawForm == Part("page", {}, {}, On({"withdraw"}, {"isLoading"}))

WithdrawNotes == Part("page", {}, {}, None)

WithdrawDone == Tab("success", {}, {}, {}, On({"leave"}, {}))

WithdrawPage ==
  Page(WithdrawLoads, WithdrawActs,
       {WithdrawHeader, WithdrawForm, WithdrawNotes, WithdrawDone, CurrencySelector(None)})

-----------------------------------------------------------------------------
(* A gift card alone.                                                       *)

RedeemActs ==
  [redeem |-> [flag |-> "isLoading", opens |-> "success"] @@ Act(UserGiftCardApi, <<"redeem">>),
   leave  |-> [goes |-> TRUE] @@ Act(WalletApi, <<>>)]

RedeemForm == Part("page", {}, {}, On({"redeem"}, {"isLoading"}) @@ On({"leave"}, {}))

RedeemDone == Tab("success", {}, {}, {}, On({"leave"}, {}))

RedeemPage == Page(None, RedeemActs, {RedeemForm, RedeemDone})

-----------------------------------------------------------------------------
(* Profile; its calls go to the client without a function in between.       *)

ProfileLoads ==
  [profile |-> [flag |-> "isLoading"]
                  @@ Load(ProfileApi, {"getProfile", "getUserProfile"}, {"mount"})]

ProfileActs ==
  [save |-> [flag |-> "isSaving", patch |-> {"profile"}] @@ Act(ProfileApi, <<"putProfile">>)]

ProfileHeader == Part("page", {"profile"}, {}, On({"profile"}, {}))

ProfileForm == Part("page", {"profile"}, {}, On({"save"}, {"isSaving"}))

ProfileAccount == Part("page", {"profile"}, {}, None)

ProfilePage ==
  Page(ProfileLoads, ProfileActs,
       Covered({"isLoading"}, {ProfileHeader, ProfileForm, ProfileAccount}))

-----------------------------------------------------------------------------
(* Settings: two saves under way together, of the profile and of the        *)
(* notifications.  The first that is refused ends the handler and lowers    *)
(* its flag, while the other goes on; when neither is, both answers come    *)
(* back into the form.                                                      *)

MySettingsLoads ==
  [settings |-> [flag |-> "loading"]
                   @@ Load(ProfileApi @@ UserNotificationApi,
                           {"getUserProfile", "getGenders", "getLanguages", "getCurrencies",
                            "getTimezones", "getNotificationSettings"}, {"mount"})]

MySettingsActs ==
  [save |-> [flag |-> "saving", patch |-> {"settings"}, together |-> TRUE]
               @@ Act(ProfileApi @@ UserNotificationApi,
                      <<"updateUserProfile", "updateNotificationSettings">>)]

MySettingsForm == Part("page", {"settings"}, {}, None)

MySettingsSave == Part("page", {"settings"}, {}, On({"save"}, {"saving"}))

MySettingsPage ==
  Page(MySettingsLoads, MySettingsActs, Covered({"loading"}, {MySettingsForm, MySettingsSave}))

-----------------------------------------------------------------------------
(* Security: password, second factor and e-mail; none of its forms has a    *)
(* flag.                                                                    *)

SecurityLoads ==
  [security |-> [flag |-> "isLoading"]
                   @@ Load(SecurityApi @@ PasskeyApi, {"getSecurityStatus", "listPasskeys"},
                           {"mount"})]

SecurityActs ==
  [changePassword |-> [then |-> {"security"}] @@ Act(SecurityApi, <<"enhancedChangePassword">>),
   changeEmail    |-> Act(SecurityApi, <<"startEmailChange">>),
   disable2FA     |-> [asks |-> TRUE, then |-> {"security"}]
                         @@ Act(SecurityApi, <<"disable2FA">>),
   resend         |-> Act(SecurityApi, <<"resendEmailVerification">>)]

SecurityScore == Part("page", {"security"}, {}, None)

SecurityPassword == Part("page", {"security"}, {}, On({"changePassword"}, {}))

SecurityFactor == Part("page", {"security"}, {}, On({"disable2FA"}, {}))

SecurityContact == Part("page", {"security"}, {}, On({"changeEmail", "resend"}, {}))

SecurityMore == Part("page", {"security"}, {}, None)

SecurityPage ==
  Page(SecurityLoads, SecurityActs,
       Covered({"isLoading"}, {SecurityScore, SecurityPassword, SecurityFactor,
                               SecurityContact, SecurityMore}))

-----------------------------------------------------------------------------
(* Second factor: mounting the page draws the secret, verify confirms it.   *)

TwoFALoads ==
  [secret |-> [flag |-> "isLoading"] @@ Load(SecurityApi, {"setup2FA"}, {"mount"})]

TwoFAActs == [verify |-> [flag |-> "isVerifying"] @@ Act(SecurityApi, <<"verify2FA">>)]

TwoFACode == Part("page", {"secret"}, {}, On({"verify"}, {"isVerifying"}))

TwoFASecret == Part("page", {"secret"}, {}, None)

TwoFAPage == Page(TwoFALoads, TwoFAActs, Covered({"isLoading"}, {TwoFACode, TwoFASecret}))

-----------------------------------------------------------------------------
(* Passkeys; a list that cannot be had is shown empty.                      *)

PasskeysLoads ==
  [passkeys |-> [flag |-> "isLoading", fails |-> "clear"]
                   @@ Load(PasskeyApi, {"listPasskeys"}, {"mount"})]

PasskeysActs ==
  [create |-> [flag |-> "isCreating", then |-> {"passkeys"}, waits |-> TRUE]
                 @@ Act(PasskeyApi, <<"createPasskey">>),
   delete |-> [asks |-> TRUE, then |-> {"passkeys"}] @@ Act(PasskeyApi, <<"deletePasskey">>)]

PasskeysForm == Part("page", {}, {}, On({"create"}, {"isCreating"}))

PasskeysList == Part("page", {"passkeys"}, {"isLoading"}, On({"delete"}, {}))

PasskeysPage == Page(PasskeysLoads, PasskeysActs, {PasskeysForm, PasskeysList})

-----------------------------------------------------------------------------
(* Past logins, page by page.                                               *)

LoginsLoads ==
  [records |-> [flag |-> "isLoading", fails |-> "clear"]
                  @@ Load(SecurityApi, {"loginHistory"}, {"mount", "query"})]

LoginsRows == Part("page", {"records"}, {"isLoading"}, On({"records"}, {}))

LoginsPager == Part("page", {}, {}, On({"query"}, {"isLoading"}))

LoginsPage == Page(LoginsLoads, None, {LoginsRows, LoginsPager})

-----------------------------------------------------------------------------
(* Authorized apps; only the row being revoked is disabled.                 *)

MyAppsLoads ==
  [apps |-> [flag |-> "loading"] @@ Load(UserAppsApi, {"list"}, {"mount"})]

MyAppsActs ==
  [revoke |-> [asks |-> TRUE, flag |-> "revokingId", then |-> {"apps"}, waits |-> TRUE]
                 @@ Act(UserAppsApi, <<"revoke">>)]

MyAppsList == Part("page", {"apps"}, {"loading"}, On({"revoke", "apps"}, {}))

MyAppsPage == Page(MyAppsLoads, MyAppsActs, {MyAppsList})

-----------------------------------------------------------------------------
(* One authorized app.                                                      *)

MyAppLoads ==
  [app |-> [flag |-> "loading"] @@ Load(UserAppsApi, {"list"}, {"mount"})]

MyAppActs ==
  [revoke |-> [flag |-> "revoking", lowers |-> {"refused"}, asks |-> TRUE, goes |-> TRUE]
                 @@ Act(UserAppsApi, <<"revoke">>)]

MyAppView == Part("page", {"app"}, {}, On({"revoke"}, {"revoking"}) @@ On({"app"}, {}))

MyAppPage == Page(MyAppLoads, MyAppActs, Covered({"loading"}, {MyAppView}))

-----------------------------------------------------------------------------
(* One team; the confirmation closes before its call is sent.               *)

TeamLoads ==
  [team        |-> [flag |-> "loading"] @@ Load(TeamApi, {"getTeam"}, {"mount"}),
   invitations |-> [flag |-> "invitationsLoading"]
                      @@ Load(InvitationApi, {"listOutgoing"}, {"button"})]

TeamActs ==
  [revoke |-> [then |-> {"invitations"}] @@ Act(InvitationApi, <<"revoke">>),
   delete |-> [leaves |-> "confirm", goes |-> TRUE] @@ Act(TeamApi, <<"deleteTeam">>),
   quit   |-> [leaves |-> "confirm", goes |-> TRUE] @@ Act(TeamApi, <<"leaveTeam">>)]

TeamHeader == Part("page", {"team"}, {}, On({"invitations", "confirm"}, {}))

TeamInvitations == Part("page", {"invitations"}, {"invitationsLoading"}, On({"revoke"}, {}))

TeamConfirm == Dialog("confirm", {}, {}, {}, On({"delete", "quit"}, {}))

TeamPage ==
  Page(TeamLoads, TeamActs,
       Covered({"loading"}, {TeamHeader, TeamInvitations, TeamConfirm}))

-----------------------------------------------------------------------------
(* A team's name and description: the call that would save them is          *)
(* commented out, and the page is left as if it had been made.              *)

EditTeamLoads ==
  [team |-> [flag |-> "loading"] @@ Load(TeamApi, {"getTeam"}, {"mount"})]

EditTeamActs == [save |-> [flag |-> "saving", goes |-> TRUE] @@ Act(TeamApi, <<>>)]

EditTeamForm == Part("page", {"team"}, {}, On({"save"}, {"saving"}))

EditTeamPage == Page(EditTeamLoads, EditTeamActs, Covered({"loading"}, {EditTeamForm}))

-----------------------------------------------------------------------------
(* The user's teams.                                                        *)

MyTeamsLoads ==
  [teams |-> [flag |-> "loading"] @@ Load(TeamApi, {"getUserTeams"}, {"mount"})]

MyTeamsCards == Part("page", {"teams"}, {}, None)

MyTeamsPage == Page(MyTeamsLoads, None, Covered({"loading"}, {MyTeamsCards}))

-----------------------------------------------------------------------------
(* A new team.                                                              *)

NewTeamActs ==
  [create |-> [flag |-> "loading", goes |-> TRUE] @@ Act(TeamApi, <<"createTeam">>),
   leave  |-> [goes |-> TRUE] @@ Act(TeamApi, <<>>)]

NewTeamForm == Part("page", {}, {}, On({"create"}, {"loading"}) @@ On({"leave"}, {}))

NewTeamPage == Page(None, NewTeamActs, {NewTeamForm})

-----------------------------------------------------------------------------
(* Invitations to a team.                                                   *)

InviteActs ==
  [invite |-> [flag |-> "loading", goes |-> TRUE] @@ Act(InvitationApi, <<"create">>),
   leave  |-> [goes |-> TRUE] @@ Act(InvitationApi, <<>>)]

InviteForm == Part("page", {}, {}, On({"invite"}, {"loading"}) @@ On({"leave"}, {}))

InvitePage == Page(None, InviteActs, {InviteForm})

-----------------------------------------------------------------------------
(* Members of a team: the list is a stub, and so are its row buttons.       *)

MyMembersLoads ==
  [role |-> [flag |-> "loading"] @@ Load(TeamApi, {"getTeam"}, {"mount"})]

MyMembersList == Part("page", {"role"}, {}, None)

MyMembersPage == Page(MyMembersLoads, None, Covered({"loading"}, {MyMembersList}))

-----------------------------------------------------------------------------
(* Invitations received; only the row being answered is disabled.           *)

InboxLoads ==
  [invitations |-> [flag |-> "loading"]
                      @@ Load(InvitationApi, {"listIncoming"}, {"mount", "button"})]

InboxActs ==
  [accept |-> [flag |-> "actionLoading", then |-> {"invitations"}]
                 @@ Act(InvitationApi, <<"accept">>),
   reject |-> [flag |-> "actionLoading", then |-> {"invitations"}]
                 @@ Act(InvitationApi, <<"reject">>)]

InboxList ==
  Part("page", {"invitations"}, {"loading"}, On({"accept", "reject", "invitations"}, {}))

InboxPage == Page(InboxLoads, InboxActs, {InboxList})

-----------------------------------------------------------------------------
(* The user's subscriptions.                                                *)

MySubsLoads ==
  [subscriptions |-> [flag |-> "loading"]
                        @@ Load(UserSubscriptionCalls, {"getSubscriptions"}, {"mount"})]

MySubsActs ==
  [cancel |-> [flag |-> "canceling", closes |-> "cancelling", then |-> {"subscriptions"},
               waits |-> TRUE] @@ Act(UserSubscriptionCalls, <<"cancelSubscription">>)]

MySubsCards == Part("page", {"subscriptions"}, {}, On({"cancelling"}, {}))

MySubsDialog == Dialog("cancelling", {}, {"canceling"}, {}, On({"cancel"}, {"canceling"}))

MySubsPage == Page(MySubsLoads, MySubsActs, Covered({"loading"}, {MySubsCards, MySubsDialog}))

-----------------------------------------------------------------------------
(* Products on offer; only the price being ordered is disabled.             *)

ShopLoads ==
  [products |-> [flag |-> "loading"]
                   @@ Load(UserSubscriptionCalls, {"getProducts"}, {"mount"})]

ShopActs ==
  [subscribe |-> [flag |-> "subscribingPrice", goes |-> TRUE]
                   @@ Act(ProfileApi @@ OrderApi, <<"getProfile", "createOrder">>)]

ShopHeader == Part("page", {"products"}, {}, None)

ShopOffers == Part("page", {"products"}, {}, On({"subscribe"}, {}))

ShopPage == Page(ShopLoads, ShopActs, Covered({"loading"}, {ShopHeader, ShopOffers}))

-----------------------------------------------------------------------------
(* Quick checkout in three steps.                                           *)

CheckoutLoads ==
  [products |-> Load(UserSubscriptionCalls, {"getProducts"}, {"mount"}),
   coupon   |-> [fails |-> "clear"]
                   @@ Load(UserSubscriptionCalls, {"validateCoupon"}, {"button"})]

CheckoutActs ==
  [checkout |-> [flag |-> "loading", opens |-> "result"]
                   @@ Act(UserSubscriptionCalls, <<"quickCheckout">>),
   leave    |-> [goes |-> TRUE] @@ Act(UserSubscriptionCalls, <<>>)]

CheckoutForm ==
  Part("page", {"products", "coupon"}, {}, On({"coupon"}, {}) @@ On({"checkout"}, {"loading"}))

CheckoutResult == Tab("result", {}, {}, {}, On({"leave", "page"}, {}))

CheckoutPage == Page(CheckoutLoads, CheckoutActs, {CheckoutForm, CheckoutResult})

-----------------------------------------------------------------------------
(* An order to be paid: a payment intent, its session, then Stripe's page.  *)

ConfirmLoads == [order |-> [flag |-> "loading"] @@ Load(OrderApi, {"getOrder"}, {"mount"})]

ConfirmActs ==
  [pay |-> [flag |-> "paying", goes |-> TRUE]
              @@ Act(PaymentApi, <<"createPaymentIntent", "createPaymentSession">>)]

ConfirmOrder == Part("page", {"order"}, {}, None)

ConfirmPay == Part("page", {"order"}, {}, On({"pay"}, {"paying"}))

ConfirmPage == Page(ConfirmLoads, ConfirmActs, Covered({"loading"}, {ConfirmOrder, ConfirmPay}))

-----------------------------------------------------------------------------
(* The user's orders.                                                       *)

OrdersLoads ==
  [orders |-> [flag |-> "loading", fails |-> "clear"]
                 @@ Load(OrderApi, {"listOrders"}, {"mount", "button"})]

OrdersList == Part("page", {"orders"}, {}, On({"orders"}, {}))

OrdersPage == Page(OrdersLoads, None, Covered({"loading"}, {OrdersList}))

-----------------------------------------------------------------------------
(* The order after payment; reading it may activate its subscription.       *)

PaidLoads == [order |-> [flag |-> "loading"] @@ Load(OrderApi, {"getOrder"}, {"mount"})]

PaidOrder == Part("page", {"order"}, {}, None)

PaidPage == Page(PaidLoads, None, Covered({"loading"}, {PaidOrder}))

-----------------------------------------------------------------------------
(* Recharge through the payment service: an intent, then a session.         *)

PaymentLoads == [balance |-> Load(WalletApi, {"getBalance"}, {"mount", "query"})]

PaymentActs ==
  [intent  |-> [flag |-> "loading"] @@ Act(PaymentApi, <<"createPaymentIntent">>),
   session |-> [flag |-> "loading"] @@ Act(PaymentApi, <<"createPaymentSession">>),
   leave   |-> [goes |-> TRUE] @@ Act(PaymentApi, <<>>)]

PaymentForm ==
  Part("page", {"balance"}, {}, On({"intent"}, {"loading"}) @@ On({"query"}, {}))

PaymentSession ==
  Part("page", {}, {}, On({"session"}, {"loading"}) @@ On({"leave"}, {}))

PaymentPage == Page(PaymentLoads, PaymentActs, {PaymentForm, PaymentSession})

-----------------------------------------------------------------------------
(* Notifications of the user.  The acts are the context's, which swallows a *)
(* refusal; the page's list is changed in place in either case.             *)

UserNoticesLoads ==
  [notifications |-> [flag |-> "loading"]
                        @@ Load(NoticeApi, {"getUserNotifications"}, {"mount", "query"})]

UserNoticesActs ==
  LET OnList(call) == [patch |-> {"notifications"}, blind |-> TRUE] @@ Act(NoticeApi, <<call>>)
  IN [read    |-> OnList("markAsRead"),
      readAll |-> OnList("markAllAsRead"),
      delete  |-> OnList("deleteNotification")]

UserNoticesHeader == Part("page", {}, {}, On({"readAll", "query"}, {}))

UserNoticesList ==
  Part("page", {"notifications"}, {"loading"}, On({"read", "delete"}, {}))

UserNoticesPage == Page(UserNoticesLoads, UserNoticesActs, {UserNoticesHeader, UserNoticesList})

-----------------------------------------------------------------------------
(* The bell of a layout: the latest notifications and the unread count,     *)
(* which a timer asks for again every 30 seconds.                           *)

BellLoads ==
  [list   |-> Load(NoticeApi, {"getUserNotifications"}, {"mount"}),
   unread |-> Load(NoticeApi, {"getUnreadCount"}, {"mount"})]

BellActs ==
  [read    |-> [patch |-> {"list"}, then |-> {"unread"}] @@ Act(NoticeApi, <<"markAsRead">>),
   readAll |-> [patch |-> {"list", "unread"}] @@ Act(NoticeApi, <<"markAllAsRead">>),
   delete  |-> [patch |-> {"list"}, then |-> {"unread"}]
                  @@ Act(NoticeApi, <<"deleteNotification">>)]

BellTimer == Part("page", {"unread"}, {}, On({"unread"}, {}))

BellList == Part("page", {"list"}, {}, On({"read", "readAll", "delete"}, {}))

BellPage == Page(BellLoads, BellActs, {BellTimer, BellList})

============================================================================
