---------------------------- MODULE RequestRouteProofs ----------------------------
(***************************************************************************)
(* What all the handlers of RequestRoutes have in common: in which order   *)
(* their steps come.  A request forgets the steps it has taken, so that    *)
(* what is said of its list has to hold of every tail of the list too.     *)
(***************************************************************************)
EXTENDS RequestRoutes, Integers, TLAPS, SequenceTheorems

\* A list of guilds is received after it was fetched, and a session sold after
\* the rows of the sale were created: unless they come first, these steps follow.
Follows(todo, step, first) ==
  \A i \in 1 .. Len(todo) : todo[i] = step => i = 1 \/ todo[i - 1] = first

\* Nothing is claimed or committed once a commit is done.
CommitsOnce(todo) ==
  \A i, j \in 1 .. Len(todo) :
    i < j /\ todo[i] = "commit" => todo[j] \notin { "claim", "commit" }

Has(todo, step) == \E i \in 1 .. Len(todo) : todo[i] = step

Discordant == { "token", "receive", "sync" }
Inserted   == { "renew", "keep", "record", "undo" }

\* What a request is like when it arrives.
Sound(route) ==
  /\ route.kind \in Kinds /\ route.via \in Vias
  /\ route.todo \in Seq(StepNames) /\ route.todo # << >>
  /\ \A step \in Inserted : ~ Has(route.todo, step)
  /\ route.todo[1] \notin { "receive", "sell" }
  /\ Follows(route.todo, "receive", "fetch")
  /\ Follows(route.todo, "sell", "create")
  /\ CommitsOnce(route.todo)
  /\ route.via \notin { "api", "bot" } /\ Has(route.todo, "commit") => Has(route.todo, "claim")
  /\ route.via = "bot" => \A step \in Discordant : ~ Has(route.todo, step)

USE DEF Sound, Follows, CommitsOnce, Has, Discordant, Inserted, Kinds, Versioned, Managing,
        Vias, StepNames, Scopes, Commands, Route

LEMMA FormsSound == \A route \in Forms : Sound(route)
  <1>1. Sound(UpdateGuildSettings)
    BY DEF UpdateGuildSettings, Form, ClaimFirst, Live, Update
  <1>2. Sound(UpdateGuildModule)
    BY DEF UpdateGuildModule, Form, ClaimFirst, Live, Update
  <1>3. Sound(UpdateCommandOverride)
    BY DEF UpdateCommandOverride, Form, ClaimFirst, Live, Update
  <1>4. Sound(RefreshGuildStatus)
    BY DEF RefreshGuildStatus, Form, Live
  <1>5. Sound(UpdateOnboardingBasics)
    BY DEF UpdateOnboardingBasics, Form, PrepareMutation, Live, Update
  <1>6. Sound(UpdateWelcomeConfig)
    BY DEF UpdateWelcomeConfig, Form, PrepareMutation, Live, Update
  <1>7. Sound(CreateBillingCheckout)
    BY DEF CreateBillingCheckout, Form, ClaimFirst, Live, CreateCheckout
  <1>8. Sound(CancelBilling) /\ Sound(ResumeBilling) /\ Sound(OpenBillingPortal)
    BY DEF CancelBilling, ResumeBilling, OpenBillingPortal, Form, ClaimFirst, Live
  <1>9. \A route \in SetupVerification : Sound(route)
    <2> DEFINE Setup(begin) ==
          Form("section", PrepareMutation \o << "resources" >> \o begin \o << "enqueue" >>)
    <2>1. Sound(Setup(Update)) /\ Sound(Setup(<< >>))
      BY DEF Form, PrepareMutation, Live, Update
    <2> HIDE DEF Setup, Sound
    <2>2. SetupVerification = { Setup(Update), Setup(<< >>) }
      BY DEF SetupVerification, Setup
    <2>3. QED
      BY <2>1, <2>2
  <1>10. /\ UpdateGoodbyeConfig = UpdateWelcomeConfig /\ UpdateAutoRoleConfig = UpdateWelcomeConfig
         /\ UpdateWelcomeCard = UpdateOnboardingBasics
    BY DEF UpdateGoodbyeConfig, UpdateAutoRoleConfig, UpdateWelcomeCard, UpdateWelcomeConfig,
           UpdateOnboardingBasics
  <1> HIDE DEF Sound
  <1>11. QED
    BY <1>1, <1>2, <1>3, <1>4, <1>5, <1>6, <1>7, <1>8, <1>9, <1>10 DEF Forms

LEMMA CallsSound == \A route \in Calls : Sound(route)
  <1>1. Sound(GetGuild) /\ Sound(GetOnboarding) /\ Sound(GetBilling) /\ Sound(PreviewMessage)
    BY DEF GetGuild, GetOnboarding, GetBilling, PreviewMessage, Call
  <1>2. Sound(PatchSettings) /\ Sound(PatchModule) /\ Sound(PatchBasics)
    BY DEF PatchSettings, PatchModule, PatchBasics, Call, Update
  <1>3. \A route \in PatchSection : Sound(route)
    <2> DEFINE Patch(resources) == Call("section", "guild:write", resources \o Update)
    <2>1. Sound(Patch(<< "resources" >>)) /\ Sound(Patch(<< >>))
      BY DEF Call, Update
    <2> HIDE DEF Patch, Sound
    <2>2. PatchSection = { Patch(<< "resources" >>), Patch(<< >>) }
      BY DEF PatchSection, Patch
    <2>3. QED
      BY <2>1, <2>2
  <1>4. Sound(TestDelivery)
    BY DEF TestDelivery, Call
  <1>5. \A route \in EnqueueSetup : Sound(route)
    <2> DEFINE Setup(begin) ==
          Call("section", "guild:write", << "resources" >> \o begin \o << "enqueue" >>)
    <2>1. Sound(Setup(Update)) /\ Sound(Setup(<< >>))
      BY DEF Call, Update
    <2> HIDE DEF Setup, Sound
    <2>2. EnqueueSetup = { Setup(Update), Setup(<< >>) }
      BY DEF EnqueueSetup, Setup
    <2>3. QED
      BY <2>1, <2>2
  <1>6. Sound(PostCheckout)
    BY DEF PostCheckout, Call, CreateCheckout
  <1>7. Sound(PostCancel) /\ Sound(PostResume) /\ Sound(PostManage) /\ Sound(PostReconcile)
    BY DEF PostCancel, PostResume, PostManage, PostReconcile, Call
  <1> HIDE DEF Sound
  <1>8. QED
    BY <1>1, <1>2, <1>3, <1>4, <1>5, <1>6, <1>7 DEF Calls

LEMMA AdminFormsSound == \A route \in AdminForms : Sound(route)
  <1>1. Sound(AdminReconcile) /\ Sound(AddBillingBlock) /\ Sound(RevokeBillingBlock)
    BY DEF AdminReconcile, AddBillingBlock, RevokeBillingBlock, AdminForm, AuthorizeMutation
  <1> HIDE DEF Sound
  <1>2. QED
    BY <1>1 DEF AdminForms

LEMMA InteractionsSound == \A route \in Interactions : Sound(route)
  <1>1. Sound(SettingsCommand) /\ Sound(DashboardCommand)
    BY DEF SettingsCommand, DashboardCommand, SufBotCommand
  <1>2. Sound(SettingsPrefixModal) /\ Sound(SettingsLanguageSelect)
    BY DEF SettingsPrefixModal, SettingsLanguageSelect, InteractionHandler, Update
  <1>3. /\ Sound(SufBotCommand("settings", "/config", Update))
        /\ Sound(SufBotCommand("read", "/config", << >>))
        /\ Sound(SufBotCommand("read", "/onboarding", << >>))
        /\ Sound(SufBotCommand("test", "/onboarding", << "enqueue" >>))
    BY DEF SufBotCommand, Update
  <1> HIDE DEF Sound
  <1>4. QED
    BY <1>1, <1>2, <1>3 DEF Interactions, ConfigCommand, OnboardingCommand

\* Every handler begins as the rest of the proofs wants it to.
THEOREM RoutesSound == \A route \in Routes : Sound(route)
  BY FormsSound, CallsSound, AdminFormsSound, InteractionsSound DEF Routes

-------------------------------------------------------------------------------
HIDE DEF Sound, Follows, CommitsOnce, Has, Discordant, Inserted, Kinds, Versioned, Managing,
        Vias, StepNames, Scopes, Commands, Route

\* What is left of a request; a renewed token is kept next, and the session of a
\* provider is the last thing a request is about.
Ordered(todo) ==
  /\ todo \in Seq(StepNames)
  /\ Follows(todo, "receive", "fetch")
  /\ Follows(todo, "sell", "create")
  /\ CommitsOnce(todo)
  /\ \A i \in 1 .. Len(todo) :
       /\ todo[i] = "renew" => i = 1 /\ Len(todo) > 1 /\ todo[2] = "keep"
       /\ todo[i] = "keep" => i = 1 \/ (i = 2 /\ todo[1] = "renew")
       /\ todo[i] \in { "record", "undo" } => Len(todo) = 1

LEMMA SoundIsOrdered == \A route : Sound(route) => Ordered(route.todo)
  BY DEF Sound, Ordered, Has, Inserted, Follows

LEMMA TailSteps ==
  ASSUME NEW todo \in Seq(StepNames), todo # << >>
  PROVE  /\ Head(todo) = todo[1] /\ todo[1] \in StepNames
         /\ Tail(todo) \in Seq(StepNames)
         /\ Len(todo) \in Nat \ { 0 }
         /\ Len(Tail(todo)) = Len(todo) - 1
         /\ \A i \in 1 .. Len(todo) - 1 : Tail(todo)[i] = todo[i + 1]
  BY HeadTailProperties

LEMMA TailEnds ==
  ASSUME NEW todo \in Seq(StepNames), todo # << >>
  PROVE  Tail(todo) = << >> <=> Len(todo) = 1
  <1>1. Len(Tail(todo)) = 0 <=> Len(todo) = 1
    BY TailSteps
  <1>2. Tail(todo) = << >> <=> Len(Tail(todo)) = 0
    BY TailSteps, EmptySeq
  <1>3. QED
    BY <1>1, <1>2

LEMMA TailHas ==
  ASSUME NEW todo \in Seq(StepNames), todo # << >>, NEW step
  PROVE  /\ Has(Tail(todo), step) => Has(todo, step)
         /\ Has(todo, step) => todo[1] = step \/ Has(Tail(todo), step)
  <1>1. Has(Tail(todo), step) => Has(todo, step)
    BY TailSteps DEF Has
  <1>2. ASSUME NEW i \in 1 .. Len(todo), todo[i] = step, i # 1 PROVE Has(Tail(todo), step)
    <2>1. i - 1 \in 1 .. Len(Tail(todo)) /\ Tail(todo)[i - 1] = step
      BY <1>2, TailSteps
    <2>2. QED
      BY <2>1 DEF Has
  <1>3. QED
    BY <1>1, <1>2 DEF Has

\* A request that has taken a step is still in order.
LEMMA TailOrdered ==
  ASSUME NEW todo, Ordered(todo), todo # << >>
  PROVE  Ordered(Tail(todo))
  <1>1. todo \in Seq(StepNames)
    BY DEF Ordered
  <1> HIDE DEF StepNames
  <1>2. QED
    BY <1>1, TailSteps DEF Ordered, Follows, CommitsOnce

\* Whose first step is not the one before is not at the step behind it next.
LEMMA NextFollows ==
  ASSUME NEW todo, Ordered(todo), todo # << >>, Tail(todo) # << >>
  PROVE  /\ Head(Tail(todo)) = "receive" => Head(todo) = "fetch"
         /\ Head(Tail(todo)) = "sell" => Head(todo) = "create"
         /\ Head(Tail(todo)) = "keep" <=> Head(todo) = "renew"
         /\ Head(Tail(todo)) \notin { "record", "undo" }
  <1>1. todo \in Seq(StepNames)
    BY DEF Ordered
  <1>2. /\ Head(Tail(todo)) = todo[2] /\ Head(todo) = todo[1]
        /\ Len(todo) \in Nat /\ Len(todo) > 1
    BY <1>1, TailSteps
  <1>3. QED
    BY <1>1, <1>2 DEF Ordered, Follows

LEMMA RenewOrdered ==
  ASSUME NEW todo, Ordered(todo), todo # << >>, Head(todo) = "token"
  PROVE  LET renewed == << "renew", "keep" >> \o Tail(todo)
         IN  Ordered(renewed) /\ renewed # << >> /\ Head(renewed) = "renew"
  <1> DEFINE renewed == << "renew", "keep" >> \o Tail(todo)
  <1>1. todo \in Seq(StepNames) /\ << "renew", "keep" >> \in Seq(StepNames)
    BY DEF Ordered, StepNames
  <1>2. /\ renewed \in Seq(StepNames)
        /\ Len(renewed) = Len(todo) + 1 /\ Len(todo) \in Nat \ { 0 }
        /\ renewed[1] = "renew" /\ renewed[2] = "keep"
        /\ \A i \in 3 .. Len(renewed) : renewed[i] = todo[i - 1]
        /\ todo[1] = "token"
    <2>1. Len(<< "renew", "keep" >>) = 2 /\ << "renew", "keep" >>[1] = "renew"
          /\ << "renew", "keep" >>[2] = "keep"
      OBVIOUS
    <2>2. QED
    BY <1>1, <2>1, TailSteps, ConcatProperties
  <1> HIDE DEF renewed
  <1>3. renewed # << >> /\ Head(renewed) = "renew"
    BY <1>2
  <1>4. ASSUME NEW step \in { "receive", "sell" }, NEW first, first # "token", Follows(todo, step, first)
        PROVE  Follows(renewed, step, first)
    <2> SUFFICES ASSUME NEW i \in 1 .. Len(renewed), renewed[i] = step, i # 1
                 PROVE  renewed[i - 1] = first
      BY DEF Follows
    <2>1. i >= 3 /\ i - 1 \in 1 .. Len(todo) /\ todo[i - 1] = step
      BY <1>2
    <2>2. i - 1 # 1 /\ todo[i - 2] = first /\ i - 2 # 1
      BY <1>2, <1>4, <2>1 DEF Follows
    <2>3. QED
      BY <1>2, <2>1, <2>2
  <1>5. CommitsOnce(renewed)
    <2> SUFFICES ASSUME NEW i \in 1 .. Len(renewed), NEW j \in 1 .. Len(renewed), i < j,
                        renewed[i] = "commit"
                 PROVE  renewed[j] \notin { "claim", "commit" }
      BY DEF CommitsOnce
    <2>1. i >= 3 /\ renewed[i] = todo[i - 1] /\ renewed[j] = todo[j - 1]
      BY <1>2
    <2>2. QED
      BY <1>1, <1>2, <2>1 DEF Ordered, CommitsOnce
  <1>6. \A i \in 1 .. Len(renewed) :
          /\ renewed[i] = "renew" => i = 1 /\ Len(renewed) > 1 /\ renewed[2] = "keep"
          /\ renewed[i] = "keep" => i = 1 \/ (i = 2 /\ renewed[1] = "renew")
          /\ renewed[i] \in { "record", "undo" } => Len(renewed) = 1
    BY <1>1, <1>2 DEF Ordered
  <1>7. QED
    BY <1>2, <1>3, <1>4, <1>5, <1>6 DEF Ordered, renewed

LEMMA RenewHas ==
  ASSUME NEW todo \in Seq(StepNames), todo # << >>, NEW step, step \notin { "renew", "keep" },
         Head(todo) # step
  PROVE  Has(<< "renew", "keep" >> \o Tail(todo), step) <=> Has(todo, step)
  <1> DEFINE renewed == << "renew", "keep" >> \o Tail(todo)
  <1>2. /\ Len(renewed) = Len(todo) + 1 /\ Len(todo) \in Nat \ { 0 }
        /\ renewed[1] = "renew" /\ renewed[2] = "keep"
        /\ \A i \in 3 .. Len(renewed) : renewed[i] = todo[i - 1]
        /\ todo[1] # step
    <2>1. Len(<< "renew", "keep" >>) = 2 /\ << "renew", "keep" >>[1] = "renew"
          /\ << "renew", "keep" >>[2] = "keep" /\ << "renew", "keep" >> \in Seq(StepNames)
      BY DEF StepNames
    <2>2. QED
    BY <2>1, TailSteps, ConcatProperties
  <1> HIDE DEF renewed
  <1>3. Has(renewed, step) => Has(todo, step)
    BY <1>2 DEF Has
  <1>4. ASSUME NEW i \in 1 .. Len(todo), todo[i] = step PROVE Has(renewed, step)
    <2>1. i + 1 \in 1 .. Len(renewed) /\ renewed[i + 1] = step
      BY <1>2, <1>4
    <2>2. QED
      BY <2>1 DEF Has
  <1>5. QED
    BY <1>3, <1>4 DEF Has, renewed

LEMMA LastStepsOrdered ==
  /\ Ordered(<< "record" >>) /\ Ordered(<< "undo" >>) /\ Ordered(<< >>)
  /\ \A step : Has(<< "record" >>, step) \/ Has(<< "undo" >>, step) => step \in { "record", "undo" }
  /\ \A step : ~ Has(<< >>, step)
  BY DEF Ordered, Follows, CommitsOnce, StepNames, Has
===============================================================================
