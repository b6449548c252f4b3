------------------------------ MODULE RequestRoutes ------------------------------
(***************************************************************************)
(* The handlers through which users and staff change a guild: for each of  *)
(* them the steps it takes, in the order of the code, with a step for      *)
(* every await of consequence and none for parsing, headers and paths.     *)
(* Handlers that do the same are equal.                                    *)
(***************************************************************************)
EXTENDS Sequences

Versioned == { "settings", "module" }
Managing  == { "cancel", "resume", "portal", "reconcile" }
Kinds     == Versioned \cup Managing \cup
  { "override", "section", "refresh", "read", "test", "checkout", "block", "unblock" }
Scopes    ==
  { "guild:read", "guild:write", "billing:read", "billing:write", "billing:reconcile" }
Vias      == { "dashboard", "api", "staff", "bot" }
Commands  == { "/config", "/settings", "/dashboard", "/onboarding" }

Route(kind, via, todo) == [ kind |-> kind, via |-> via, todo |-> todo ]

-------------------------------------------------------------------------------
\* requireLiveGuildAccess.
Live == << "token", "fetch", "receive", "sync", "check" >>

\* claimMutation comes before the session and the access, or after them.
ClaimFirst      == << "claim", "session" >> \o Live
PrepareMutation == << "session" >> \o Live \o << "claim" >>

Form(kind, todo) == Route(kind, "dashboard", todo)

\* authenticate, and the guild access guard with its scope.
Call(kind, scope, todo) == Route(kind, "api", << scope, "check" >> \o todo)

AuthorizeMutation      == << "staff", "claim" >>
AdminForm(kind, todo) == Route(kind, "staff", AuthorizeMutation \o todo)

\* A command of the bot has the precondition Authorized; a component or a modal of
\* its panel asks for Manage Guild itself.
SufBotCommand(kind, name, todo) == Route(kind, "bot", << name >> \o todo)
InteractionHandler(kind, todo)  == Route(kind, "bot", << "rights" >> \o todo)

\* A transaction that reads what it changes.
Update == << "load", "commit" >>

\* createCheckout up to the session of the provider.
CreateCheckout == << "risk", "ready", "plan", "look", "create", "sell" >>

-------------------------------------------------------------------------------
(***************************************************************************)
(* The forms of the dashboard.                                             *)
(***************************************************************************)
UpdateGuildSettings   == Form("settings", ClaimFirst \o Update)
UpdateGuildModule     == Form("module", ClaimFirst \o Update)
UpdateCommandOverride == Form("override", ClaimFirst \o Update)
RefreshGuildStatus    == Form("refresh", << "session" >> \o Live \o << "recent", "ask" >>)

UpdateOnboardingBasics == Form("section", PrepareMutation \o Update)
UpdateWelcomeConfig    == Form("section", PrepareMutation \o << "resources" >> \o Update)
UpdateGoodbyeConfig    == Form("section", PrepareMutation \o << "resources" >> \o Update)
UpdateAutoRoleConfig   == Form("section", PrepareMutation \o << "resources" >> \o Update)
UpdateWelcomeCard      == Form("section", PrepareMutation \o Update)

\* A dry run does not begin a setup.
SetupVerification ==
  { Form("section", PrepareMutation \o << "resources" >> \o begin \o << "enqueue" >>) :
      begin \in { Update, << >> } }

CreateBillingCheckout == Form("checkout", ClaimFirst \o << "installed" >> \o CreateCheckout)
CancelBilling         == Form("cancel", ClaimFirst \o << "manage" >>)
ResumeBilling         == Form("resume", ClaimFirst \o << "manage" >>)
OpenBillingPortal     == Form("portal", ClaimFirst \o << "manage" >>)

Forms ==
  { UpdateGuildSettings, UpdateGuildModule, UpdateCommandOverride, RefreshGuildStatus,
    UpdateOnboardingBasics, UpdateWelcomeConfig, UpdateGoodbyeConfig, UpdateAutoRoleConfig,
    UpdateWelcomeCard, CreateBillingCheckout, CancelBilling, ResumeBilling, OpenBillingPortal }
  \cup SetupVerification

-------------------------------------------------------------------------------
(***************************************************************************)
(* The HTTP API, and the forms of the billing staff.                       *)
(***************************************************************************)
GetGuild      == Call("read", "guild:read", << >>)
GetOnboarding == Call("read", "guild:read", << >>)
GetBilling    == Call("read", "billing:read", << >>)

PatchSettings == Call("settings", "guild:write", Update)
PatchModule   == Call("module", "guild:write", Update)
PatchBasics   == Call("section", "guild:write", Update)
PatchSection  ==
  { Call("section", "guild:write", resources \o Update) : resources \in { << "resources" >>, << >> } }

PreviewMessage == Call("read", "guild:write", << >>)
TestDelivery   == Call("test", "guild:write", << "enqueue" >>)
EnqueueSetup   ==
  { Call("section", "guild:write", << "resources" >> \o begin \o << "enqueue" >>) :
      begin \in { Update, << >> } }

PostCheckout  == Call("checkout", "billing:write", << "cooldown" >> \o CreateCheckout)
PostCancel    == Call("cancel", "billing:write", << "manage" >>)
PostResume    == Call("resume", "billing:write", << "manage" >>)
PostManage    == Call("portal", "billing:write", << "manage" >>)
PostReconcile == Call("reconcile", "billing:write", << "billing:reconcile", "claim", "manage" >>)

Calls ==
  { GetGuild, GetOnboarding, GetBilling, PatchSettings, PatchModule, PatchBasics,
    PreviewMessage, TestDelivery, PostCheckout, PostCancel, PostResume, PostManage,
    PostReconcile } \cup PatchSection \cup EnqueueSetup

AdminReconcile   == AdminForm("reconcile", << "manage" >>)
AddBillingBlock  == AdminForm("block", << "block" >>)
RevokeBillingBlock == AdminForm("unblock", << "unblock" >>)

AdminForms == { AdminReconcile, AddBillingBlock, RevokeBillingBlock }

-------------------------------------------------------------------------------
(***************************************************************************)
(* The commands of the bot that concern its configuration, and the panel   *)
(* that /settings shows.  They name no version.                            *)
(***************************************************************************)
ConfigCommand ==
  { SufBotCommand("settings", "/config", Update), SufBotCommand("read", "/config", << >>) }

SettingsCommand        == SufBotCommand("read", "/settings", << >>)
SettingsPrefixModal    == InteractionHandler("settings", Update)
SettingsLanguageSelect == InteractionHandler("settings", Update)
DashboardCommand       == SufBotCommand("read", "/dashboard", << >>)

OnboardingCommand ==
  { SufBotCommand("read", "/onboarding", << >>), SufBotCommand("test", "/onboarding", << "enqueue" >>) }

Interactions ==
  { SettingsCommand, SettingsPrefixModal, SettingsLanguageSelect, DashboardCommand }
  \cup ConfigCommand \cup OnboardingCommand

Routes == Forms \cup Calls \cup AdminForms \cup Interactions

StepNames ==
  { "claim", "session", "token", "renew", "keep", "fetch", "receive", "sync", "check",
    "recent", "ask", "load", "commit", "resources", "enqueue", "staff", "cooldown",
    "installed", "risk", "ready", "plan", "look", "create", "sell", "record", "undo",
    "manage", "block", "unblock", "rights" } \cup Scopes \cup Commands
===============================================================================
