----------------------------- MODULE MCGuildDashboard -----------------------------
(***************************************************************************)
(* Instances of GuildDashboard for TLC.                                    *)
(***************************************************************************)
EXTENDS GuildDashboard

Nobody ==
  [ bot |-> FALSE, moves |-> 0, mishaps |-> 0, staff |-> FALSE, rotation |-> "keeps", good |-> TRUE,
    kinds |-> {}, vias |-> { "dashboard" }, requests |-> 0, changes |-> 0, admin |-> FALSE,
    scopes |-> { "*" }, shop |-> "closed", plan |-> "none", blocked |-> FALSE ]

\* The bot comes, goes and dies, and others ask for refreshes.
BotAlone ==
  { [ Nobody EXCEPT !.bot = TRUE, !.moves = 2 ],
    [ Nobody EXCEPT !.bot = TRUE, !.moves = 1, !.mishaps = 1 ] }

\* The user asks the bot, which is there for the first time.
Asking == [ Nobody EXCEPT !.bot = TRUE, !.kinds = { "refresh" }, !.requests = 1 ]

\* Calls of the API overlap, with one another and with forms.
Updates  == [ Nobody EXCEPT !.kinds = Versioned, !.vias = { "api" }, !.requests = 3 ]
Resubmitted == [ Nobody EXCEPT !.kinds = { "override" }, !.requests = 2, !.mishaps = 1 ]

\* A form and the API change the settings, perhaps long after the form was rendered.
Editing == [ Nobody EXCEPT !.kinds = { "settings" }, !.vias = { "dashboard", "api" }, !.requests = 2 ]

\* The user's rights come and go.
Losing == [ Nobody EXCEPT !.kinds = { "refresh", "read" }, !.vias = { "dashboard", "api" },
                          !.requests = 3, !.changes = 1 ]
Staff  == [ Nobody EXCEPT !.kinds = { "module" }, !.requests = 1, !.changes = 1, !.staff = TRUE ]

\* The access token has run out.
Expired ==
  [ Nobody EXCEPT !.kinds = { "refresh" }, !.requests = 2, !.good = FALSE,
                  !.changes = 1, !.rotation = "rotates" ]
Renewals ==
  { Expired } \cup { [ Expired EXCEPT !.changes = 0, !.rotation = does ] : does \in { "adds", "keeps" } }

\* Two want to buy at the same time, on Stripe with a form; on PayTR, which the
\* deployment has not tried yet, through the API, and one tries once more.
Buying ==
  { [ Nobody EXCEPT !.kinds = { "checkout" }, !.vias = { "dashboard", "api" }, !.requests = 2,
                    !.shop = "STRIPE", !.plan = "configured" ],
    [ Nobody EXCEPT !.kinds = { "checkout" }, !.vias = { "api" }, !.requests = 3,
                    !.shop = "PAYTR", !.scopes = { "billing:write" } ] }

\* A process dies while it sells; the plan is not what is configured; the key may
\* not buy.
Failing ==
  { [ Nobody EXCEPT !.kinds = { "checkout" }, !.vias = { "api" }, !.requests = 2, !.mishaps = 1,
                    !.shop = "STRIPE" ],
    [ Nobody EXCEPT !.kinds = { "checkout" }, !.vias = { "api" }, !.requests = 1,
                    !.shop = "STRIPE", !.plan = "drifted" ],
    [ Nobody EXCEPT !.kinds = { "checkout", "read" }, !.vias = { "api" }, !.requests = 1,
                    !.scopes = { "guild:read" } ] }

\* Staff blocks and unblocks while somebody buys.
Blocking ==
  [ Nobody EXCEPT !.kinds = { "checkout", "block", "unblock" }, !.vias = { "api", "staff" },
                  !.requests = 3, !.shop = "STRIPE", !.admin = TRUE, !.blocked = TRUE ]

\* One of the other requests.
Other ==
  [ Nobody EXCEPT !.kinds = Managing \cup { "test", "section" }, !.vias = Vias, !.requests = 1,
                  !.admin = TRUE ]

Configuring ==
  [ Nobody EXCEPT !.bot = TRUE, !.kinds = { "section" }, !.vias = { "api" }, !.requests = 1 ]

\* Settings change through the bot, with its panel and its command, and elsewhere.
Commanding ==
  { [ Nobody EXCEPT !.bot = TRUE, !.kinds = { "settings" }, !.vias = { "bot", "api" }, !.requests = 2 ],
    [ Nobody EXCEPT !.bot = TRUE, !.kinds = { "test" }, !.vias = { "bot" }, !.requests = 1,
                    !.mishaps = 1 ] }

Scenarios ==
  BotAlone \cup Renewals \cup Buying \cup Commanding \cup Failing \cup
  { Asking, Updates, Resubmitted, Editing, Losing, Staff, Blocking, Other, Configuring }
===============================================================================
