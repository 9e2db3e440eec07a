----------------------------- MODULE AuthPages -----------------------------
(* The public pages (features/auth): sign-in, sign-up, reset, consent.      *)
EXTENDS ConsoleApi

(* Sign-in at the platform.  The password's answer signs in, or asks for a  *)
(* second factor; the form of the second factor can be left at any time,    *)
(* its answer still signs in.                                               *)

LoginActs ==
  LET SignsIn(call) == [flag |-> "isLoading", goes |-> TRUE] @@ Act(LoginApi, <<call>>)
  IN [signIn    |-> SignsIn("login"),
      challenge |-> [flag |-> "isLoading", opens |-> "second"] @@ Act(LoginApi, <<"login">>),
      verify    |-> SignsIn("verify2FA"),
      passkey   |-> SignsIn("passkey")]

LoginForm == Part("page", {}, {}, On({"signIn", "challenge"}, {"isLoading"}))

LoginSecond ==
  Tab("second", {}, {}, {}, On({"verify", "passkey"}, {"isLoading"}) @@ On({"page"}, {}))

LoginPage == Page(None, LoginActs, {LoginForm, LoginSecond})

-----------------------------------------------------------------------------
(* Sign-in at a tenant.                                                     *)

TenantInfoLoad ==
  [tenant |-> [flag |-> "loadingTenant", fails |-> "clear"]
                 @@ Load(PublicApi, {"fetchPublicTenantByCode"}, {"mount"})]

TenantLoginActs == LoginActs

TenantLoginForm ==
  Part("page", {"tenant"}, {"loadingTenant"}, On({"signIn", "challenge"}, {"isLoading"}))

TenantLoginSecond ==
  Tab("second", {}, {}, {}, On({"verify", "passkey"}, {"isLoading"}) @@ On({"page"}, {}))

TenantLoginPage ==
  Page(TenantInfoLoad, TenantLoginActs, {TenantLoginForm, TenantLoginSecond})

-----------------------------------------------------------------------------
(* Sign-up: data, then the code sent by e-mail, then the account.  Sending  *)
(* the code again has a cooldown of its own.                                *)

RegisterActs ==
  [submit |-> [flag |-> "isLoading", opens |-> "code"]
                 @@ Act(SignupApi, <<"start", "sendEmailCode">>),
   verify |-> [flag |-> "isVerifying", opens |-> "complete"]
                 @@ Act(SignupApi, <<"verifyEmailCode", "complete">>),
   resend |-> [flag |-> "isSendingCode"] @@ Act(SignupApi, <<"resendEmailCode">>),
   leave  |-> [goes |-> TRUE] @@ Act(SignupApi, <<>>)]

RegisterDone == Tab("complete", {}, {}, {}, On({"leave"}, {}))

RegisterCode ==
  Tab("code", {}, {}, {}, On({"verify"}, {"isVerifying"}) @@ On({"resend"}, {"isSendingCode"})
                            @@ On({"page"}, {}))

RegisterForm == Part("page", {}, {}, On({"submit"}, {"isLoading"}))

RegisterPage == Page(None, RegisterActs, {RegisterForm, RegisterCode, RegisterDone})

-----------------------------------------------------------------------------
(* The same for a tenant, whose data comes first.                           *)

TenantRegisterLoads ==
  [tenant |-> [flag |-> "loadingTenant"]
                 @@ Load(PublicApi, {"fetchPublicTenantByCode"}, {"mount"})]

TenantRegisterActs ==
  [submit |-> [flag |-> "isLoading", opens |-> "code"]
                 @@ Act(SignupApi, <<"start", "sendEmailCode">>),
   verify |-> [flag |-> "isVerifying", opens |-> "complete"]
                 @@ Act(SignupApi, <<"verifyEmailCode", "complete">>),
   resend |-> [flag |-> "isSendingCode"] @@ Act(SignupApi, <<"resendEmailCode">>),
   leave  |-> [goes |-> TRUE] @@ Act(SignupApi, <<>>)]

TenantRegisterDone == Tab("complete", {}, {}, {}, On({"leave"}, {}))

TenantRegisterCode ==
  Tab("code", {}, {}, {}, On({"verify"}, {"isVerifying"}) @@ On({"resend"}, {"isSendingCode"})
                            @@ On({"page"}, {}))

TenantRegisterForm == Part("page", {"tenant"}, {}, On({"submit"}, {"isLoading"}))

TenantRegisterPage ==
  Page(TenantRegisterLoads, TenantRegisterActs,
       Covered({"loadingTenant"}, {TenantRegisterForm, TenantRegisterCode, TenantRegisterDone}))

-----------------------------------------------------------------------------
(* Joining a tenant with an account of the platform.                        *)

JoinActs == [join |-> [flag |-> "joining", asks |-> TRUE] @@ Act(PublicApi, <<"joinByCode">>)]

JoinView == Part("page", {"tenant"}, {}, On({"join"}, {"joining"}))

JoinPage == Page(TenantInfoLoad, JoinActs, Covered({"loadingTenant"}, {JoinView}))

-----------------------------------------------------------------------------
(* A forgotten password: the link is asked for, or, with its token, a new   *)
(* password is set.  Which of the two it is, is in the address.             *)

ResetActs ==
  [request |-> [flag |-> "isLoading"] @@ Act(PublicApi, <<"requestReset">>),
   reset   |-> [flag |-> "isLoading", opens |-> "done"] @@ Act(PublicApi, <<"confirmReset">>),
   leave   |-> [goes |-> TRUE] @@ Act(PublicApi, <<>>)]

ResetRequest == Part("page", {}, {}, On({"request"}, {"isLoading"}) @@ On({"leave"}, {}))

ResetForm == Part("page", {}, {}, On({"reset"}, {"isLoading"}))

ResetDone == Tab("done", {}, {}, {}, On({"leave"}, {}))

ResetPage == Page(None, ResetActs, {ResetRequest, ResetForm, ResetDone})

-----------------------------------------------------------------------------
(* Consent to an OAuth client.  The answer is posted by the browser itself, *)
(* which leaves the page.                                                   *)

ConsentActs ==
  LET Posts == [flag |-> "loading", lowers |-> {}, goes |-> TRUE] @@ Act(PublicApi, <<>>)
  IN [allow |-> Posts, deny |-> Posts]

ConsentClient == Part("page", {}, {}, None)

ConsentAnswer == Part("page", {}, {}, On({"allow", "deny"}, {"loading"}))

ConsentPage == Page(None, ConsentActs, {ConsentClient, ConsentAnswer})

============================================================================
