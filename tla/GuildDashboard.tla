------------------------------ MODULE GuildDashboard ------------------------------
(***************************************************************************)
(* One guild, the bot that reports its presence there, and the requests of *)
(* one user about it: GuildInstallation, GuildRequests and GuildPurchases  *)
(* together.  They meet in the row of the guild, which a sync of access    *)
(* grants creates and a purchase looks at, in the runtime status, whose    *)
(* companion a configuration is compared with, and in the refresh that a   *)
(* request asks the bot for.                                               *)
(***************************************************************************)
EXTENDS GuildPurchases

vars == << installationVars, requestVars, purchaseVars >>

TypeOK == InstallationTypeOK /\ RequestsTypeOK /\ PurchasesTypeOK

Init == InstallationInit /\ RequestsInit /\ PurchasesInit

botVars == << limits, member, known, process, runtime, beat, silent, moves >>

Presence  ==
  /\ InstallationStep
  /\ IF bot' = "down" THEN EndWithBot ELSE UNCHANGED requestVars
  /\ UNCHANGED purchaseVars

Requests  == RequestStep /\ UNCHANGED << botVars, mishaps, purchaseVars >>
Purchases == PurchaseStep /\ UNCHANGED installationVars
Course    == Settle /\ UNCHANGED installationVars
User      == UserStep /\ UNCHANGED << installationVars, purchaseVars >>
Clock     == TimePasses /\ RequestsAge /\ PurchasesAge

Mishap ==
  /\ mishaps < limits.mishaps /\ mishaps' = mishaps + 1
  /\ \E q \in Slots : RequestFails(q)
  /\ UNCHANGED << botVars, row, asked, purchaseVars >>

Next == Presence \/ Requests \/ Purchases \/ Course \/ User \/ Mishap \/ Clock

Spec == Init /\ [][Next]_vars

\* The event loop and the timers of a process go on, a fetch ends, and time goes
\* by; nobody has to start the bot, and no request has to be made.
GoesOn(A) == A /\ Presence

FairSpec ==
  /\ Spec
  /\ WF_vars(GoesOn(StartService \/ Started))
  /\ WF_vars(GoesOn(Deliver))
  /\ WF_vars(GoesOn(PeriodicRefresh))
  /\ \A r \in Runs : WF_vars(GoesOn(StoreInstalled(r) \/ WriteStatus(r)))
  /\ WF_vars(GoesOn(StoreRemoved \/ DeleteStatus))
  /\ WF_vars(GoesOn(CloseService \/ CloseHeartbeat \/ Exit))
  /\ \A q \in Slots : WF_vars((Receive(q) \/ Abort(q)) /\ Requests)
  /\ WF_vars(Clock)
===============================================================================
