-------------------------- MODULE EntitlementService --------------------------
(***************************************************************************)
(* What a guild is entitled to, read through the cache: EntitlementService *)
(* reads the guild's version, and believes a cached snapshot only if it    *)
(* has that version, no entitlement in it has ended, and it is young.      *)
(* Other segments of the cache (the guild's configuration, the onboarding  *)
(* configuration) are read without any check; the same module has both,    *)
(* and the scenario says which segment the key belongs to.                 *)
(*                                                                         *)
(* The guild exists.  Its entitlements are one record that ends at a given *)
(* time, or none (0).                                                      *)
(***************************************************************************)
EXTENDS DistributedCache

CONSTANTS
  Starts,      \* the scenarios that are looked at
  Writers,     \* the processes that change entitlements: all but the bot
  EndTimes,    \* when an entitlement may end; 0 is no entitlement
  MaxVersion,  \* bound: versions of the guild
  MaxClock,    \* bound: the clock stops here; entries go on expiring
  MaxAge       \* entitlementCacheTtlSeconds, in ticks

ASSUME ServiceAssumption ==
  /\ Starts \subseteq [ checked : BOOLEAN, ends : EndTimes, asking : SUBSET Readers ]
  /\ Writers \subseteq Processes
  /\ EndTimes \subseteq Nat
  /\ 0 \in EndTimes
  /\ MaxVersion \in Nat \ { 0 }
  /\ MaxClock \in Nat
  /\ MaxAge \in Nat

VARIABLES
  start,    \* the scenario; the segment is the same throughout
  guild,    \* the guild's rows: the version, and when the entitlement ends
  clock,
  reader,   \* what a reader's listGuildEntitlements is doing
  calm      \* readers during whose read nothing else has happened (auxiliary)

serviceVars == << start, guild, clock, reader, calm >>
vars == << cacheVars, serviceVars >>

Versions == 1 .. MaxVersion
Clocks   == 0 .. MaxClock

\* Whether the segment is the entitlements'.
checked == start.checked

\* What a load makes of the rows.  "of" is the version the guild really had
\* when its entitlements were read; the code does not know it.
Snapshot == [ version : Versions, of : Versions, ends : EndTimes, cachedAt : Clocks ]

ReaderSteps == { "idle", "version", "first", "invalidate", "second" }
NoReader    == [ at |-> "idle", want |-> 0 ]

TypeOK ==
  /\ CacheTypeOK(Snapshot \cup [ version : Versions ], Clocks)
  /\ start \in Starts
  /\ guild \in [ version : Versions, ends : EndTimes ]
  /\ clock \in Clocks
  /\ reader \in [ Readers -> [ at : ReaderSteps, want : 0 .. MaxVersion ] ]
  /\ calm \subseteq Readers

Init ==
  /\ CacheInit
  /\ start \in Starts
  /\ guild = [ version |-> 1, ends |-> start.ends ]
  /\ clock = 0
  /\ reader = [ r \in Readers |-> NoReader ]
  /\ calm = {}

-------------------------------------------------------------------------------
(***************************************************************************)
(* loadDatabaseSnapshot: two queries, the guild's version and then its     *)
(* entitlements that are active when the load began.                       *)
(***************************************************************************)
Active(began) == IF guild.ends > began THEN guild.ends ELSE 0

LoadVersion(p) == Loads(p, "load", "records", [ version |-> guild.version ], inflight[p].began)

LoadRecords(p) ==
  Loads(p, "records", "loaded",
        [ version |-> inflight[p].value.version, of |-> guild.version,
          ends |-> Active(inflight[p].began), cachedAt |-> clock ], 0)

LoadStep(p) ==
  /\ LoadVersion(p) \/ LoadRecords(p) \/ LoadFails(p) \/ KeepLoaded(p) \/ StoreLoaded(p)
  /\ calm' = { r \in calm : ProcessOf[r] = p }
  /\ UNCHANGED << start, guild, clock, reader >>

-------------------------------------------------------------------------------
(***************************************************************************)
(* listGuildEntitlements.                                                  *)
(***************************************************************************)
GoTo(r, at) ==
  reader' = [ reader EXCEPT ![r] = [ at |-> at, want |-> reader[r].want ] ]

\* Other readers' reads are disturbed by a step of this one.
Alone(r) == calm' = calm \cap { r }

ReadVersion(r) ==
  /\ checked
  /\ r \in start.asking
  /\ reader[r].at = "idle"
  /\ reader' = [ reader EXCEPT ![r] = [ at |-> "version", want |-> guild.version ] ]
  /\ calm' = IF inflight[ProcessOf[r]].at = "none" THEN { r } ELSE {}
  /\ UNCHANGED << cacheVars, start, guild, clock >>

\* A read of another segment begins here.
FirstLookup(r) ==
  /\ r \in start.asking
  /\ reader[r].at = IF checked THEN "version" ELSE "idle"
  /\ Lookup(r)
  /\ GoTo(r, "first")
  /\ Alone(r)
  /\ UNCHANGED << local, shared, inflight, publishing, announced, deleting, start, guild, clock >>

\* (mutant) the boundary is forgotten
OutdatedVersion(value, want) == value.version # want \/ clock - value.cachedAt > MaxAge

Outdated(value, want) ==
  \/ value.version # want
  \/ value.ends # 0 /\ value.ends <= clock
  \/ clock - value.cachedAt > MaxAge

\* (mutant) the last check is forgotten
BelievedAnyway(value, want) == value

\* Of the second snapshot only the version is checked; any other than the
\* guild's gives no entitlements.
Believed(value, want) == IF value.version = want THEN value ELSE Nothing

FirstIsBelieved(r) ==
  /\ reader[r].at = "first"
  /\ call[r].at = "got"
  /\ checked => ~ Outdated(call[r].value, reader[r].want)

SecondIsThere(r) == reader[r].at = "second" /\ call[r].at = "got"

\* The read has its result.
Returning(r) == FirstIsBelieved(r) \/ SecondIsThere(r)
Result(r)    == IF reader[r].at = "second" THEN Believed(call[r].value, reader[r].want)
                ELSE call[r].value

\* The caller has it, or the load failed and the read with it.
Return(r) ==
  /\ Returning(r) \/ call[r].at = "threw"
  /\ reader' = [ reader EXCEPT ![r] = NoReader ]
  /\ call' = [ call EXCEPT ![r] = NoCall ]
  /\ calm' = {}
  /\ UNCHANGED << local, shared, inflight, publishing, announced, deleting, start, guild, clock >>

\* The snapshot is not believed: the entry is invalidated ...
FirstIsOutdated(r) ==
  /\ reader[r].at = "first"
  /\ call[r].at = "got"
  /\ checked
  /\ Outdated(call[r].value, reader[r].want)
  /\ InvalidatesLocally(ProcessOf[r])
  /\ call' = [ call EXCEPT ![r] = NoCall ]
  /\ GoTo(r, "invalidate")
  /\ Alone(r)
  /\ UNCHANGED << shared, inflight, publishing, announced, deleting, start, guild, clock >>

\* ... and looked up a second time.
SecondLookup(r) ==
  /\ reader[r].at = "invalidate"
  /\ \/ DeletesShared /\ Alone(r)
     \/ KeepsShared /\ calm' = {}
  /\ Lookup(r)
  /\ GoTo(r, "second")
  /\ UNCHANGED << local, inflight, publishing, announced, deleting, start, guild, clock >>

CacheStep(r) ==
  /\ \/ GetShared(r) /\ Alone(r)
     \/ GetFails(r) /\ calm' = {}
     \/ TakeShared(r) /\ Alone(r)
     \/ Miss(r, clock) /\ Alone(r)
  /\ UNCHANGED << start, guild, clock, reader >>

ReadStep(r) ==
  \/ checked /\ FirstLookup(r)
  \/ CacheStep(r)
  \/ FirstIsOutdated(r)
  \/ SecondLookup(r)
  \/ Return(r)

-------------------------------------------------------------------------------
(***************************************************************************)
(* Everything else.                                                        *)
(***************************************************************************)

\* A transaction changes the guild's entitlements and its version, and then the
\* process publishes the invalidation.
Commits(p, ends) ==
  /\ guild.version < MaxVersion
  /\ publishing[p] = "idle"
  /\ guild' = [ version |-> guild.version + 1, ends |-> ends ]
  /\ publishing' = [ publishing EXCEPT ![p] = "local" ]
  /\ calm' = {}
  /\ UNCHANGED << local, shared, inflight, call, announced, deleting, start, clock, reader >>

\* The subscription's entitlements are written, or another segment's rows.
Commit(p) == \E ends \in IF checked THEN EndTimes \ { guild.ends } ELSE { 0 } : Commits(p, ends)

\* Staff add a row of their own, beside the subscription's: the later end counts.
GrantPromotion(p) ==
  /\ checked
  /\ \E ends \in EndTimes :
       /\ ends > clock
       /\ Commits(p, IF ends > guild.ends THEN ends ELSE guild.ends)

\* Staff revoke the row, and what other rows say remains: without a row that is
\* active the transaction is rolled back.
RevokePromotion(p) ==
  /\ checked
  /\ guild.ends # 0
  /\ \E ends \in EndTimes : ends <= guild.ends /\ Commits(p, ends)

PublishStep(p) ==
  /\ PublishLocal(p) \/ PublishRedis(p) \/ Announce(p)
  /\ calm' = {}
  /\ UNCHANGED << start, guild, clock, reader >>

SubscriberStep(s) ==
  /\ Receive(s) \/ ReceiverDeletes(s)
  /\ calm' = {}
  /\ UNCHANGED << start, guild, clock, reader >>

Tick ==
  /\ TimePasses
  /\ clock' = IF checked /\ clock < MaxClock THEN clock + 1 ELSE clock
  /\ calm' = {}
  /\ UNCHANGED << start, guild, reader >>

Loses(p) ==
  /\ Evict(p)
  /\ calm' = {}
  /\ UNCHANGED << start, guild, clock, reader >>

Dies(p) ==
  /\ Restart(p)
  /\ reader' = [ r \in Readers |-> IF ProcessOf[r] = p THEN NoReader ELSE reader[r] ]
  /\ calm' = {}
  /\ UNCHANGED << start, guild, clock >>

Next ==
  \/ \E r \in Readers : ReadVersion(r) \/ FirstLookup(r) \/ ReadStep(r)
  \/ \E p \in Processes : LoadStep(p) \/ Loses(p) \/ Dies(p)
  \/ \E p \in Writers : Commit(p) \/ GrantPromotion(p) \/ RevokePromotion(p) \/ PublishStep(p)
  \/ \E s \in Subscribers : SubscriberStep(s)
  \/ Tick

Spec == Init /\ [][Next]_vars

\* Time passes, and the event loop of a process comes back to the calls and the
\* load it has begun.  Nothing is assumed of publishers and messages.
FairSpec ==
  /\ Spec
  /\ WF_vars(Tick)
  /\ \A r \in Readers : WF_vars(ReadStep(r))
  /\ \A p \in Processes : WF_vars(LoadStep(p))

-------------------------------------------------------------------------------
(***************************************************************************)
(* Properties.                                                             *)
(***************************************************************************)

\* A change of the guild's rows that was committed before a read begins (a refund,
\* a suspension, a revocation) is never undone by it: the read returns nothing, or
\* rows no older than the version it has found, whatever invalidations are lost,
\* whatever loads store old values late, and whatever Redis fails to do
\* (entitlements.ts:62-117).  The end of an entitlement changes no version, and of
\* the second snapshot the code compares only that (entitlements.ts:114): where the
\* old entry survived its deletion, an entitlement that has ended is returned.
\* What is kept about the end is CalmReadIsExact.
ReadIsCurrent ==
  \A r \in Readers :
    checked /\ Returning(r) /\ Result(r) # Nothing => Result(r).of >= reader[r].want

\* A read during which nothing else happens returns exactly what the guild is
\* entitled to now, whatever earlier failures left in the process and in Redis: no
\* paying guild is refused for a stale entry, and no entitlement outlives its end
\* (entitlements.ts:97-114).
CalmReadIsExact ==
  \A r \in calm :
    checked /\ Returning(r) =>
      /\ Result(r) # Nothing
      /\ Result(r).ends = (IF guild.ends > clock THEN guild.ends ELSE 0)

CachedIsCurrent ==
  \A e \in { shared } \cup { local[p] : p \in Processes } :
    e.value # Nothing => e.value.of = guild.version

\* When the guild stops changing, every process comes to see it as it is, also
\* when no invalidation was ever delivered (docs/architecture.md:112: TTL bounds
\* stale data; index.ts:357-400).
EventuallyCurrent == <>[]CachedIsCurrent
===============================================================================
