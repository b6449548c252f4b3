--------------------------- MODULE EntitlementProofs ---------------------------
(***************************************************************************)
(* Theorems of EntitlementService, for any number of processes, readers,   *)
(* writers and messages, whatever Redis, loads and processes do.           *)
(*                                                                         *)
(* A load reads the version before the rows, so a snapshot is never older  *)
(* than the version it carries.  Copies of it travel through the caches    *)
(* unchanged, and a reader who finds in one the version it has read itself *)
(* has rows that are no older than its read.  A read that nothing disturbs *)
(* even gets the rows as they are: it meets no load but its own.           *)
(***************************************************************************)
EXTENDS EntitlementService, TLAPS

\* Snapshots that are at least as new as the version they carry.
Fresh == { v \in Snapshot : v.version <= v.of }
Kept  == Fresh \cup { Nothing }

EntriesHold ==
  /\ local \in [ Processes -> [ value : Kept, ttl : 0 .. LocalTtl ] ]
  /\ shared \in [ value : Kept, ttl : 0 .. RedisTtl ]

\* A load that has read the version has not read a later one.
LoadHolds(p) ==
  /\ inflight[p].at = "records" =>
       inflight[p].value \in [ version : Versions ] /\ inflight[p].value.version <= guild.version
  /\ inflight[p].at \in { "loaded", "store" } => inflight[p].value \in Fresh

LoadsHold ==
  /\ inflight \in [ Processes ->
       [ at : LoadSteps, value : Kept \cup [ version : Versions ], began : Clocks ] ]
  /\ \A p \in Processes : LoadHolds(p)

CallsHold ==
  /\ call \in [ Readers -> [ at : CallSteps, value : Kept ] ]
  /\ \A r \in Readers :
       /\ call[r].at = "got" => call[r].value \in Fresh
       /\ call[r].at = "wait" => inflight[ProcessOf[r]].at # "none"

MessagesHold ==
  /\ publishing \in [ Processes -> Publish ]
  /\ announced \in [ Subscribers -> 0 .. MaxMessages ]
  /\ deleting \in [ Subscribers -> 0 .. MaxMessages ]

RowsHold ==
  /\ start \in Starts
  /\ guild \in [ version : Versions, ends : EndTimes ]
  /\ clock \in Clocks
  /\ reader \in [ Readers -> [ at : ReaderSteps, want : 0 .. MaxVersion ] ]
  /\ calm \subseteq Readers

Inv == EntriesHold /\ LoadsHold /\ CallsHold /\ MessagesHold /\ RowsHold

USE CacheAssumption, ServiceAssumption

-------------------------------------------------------------------------------
LEMMA InitHolds == Init => Inv
  BY DEF Init, CacheInit, Inv, EntriesHold, LoadsHold, LoadHolds, CallsHold, MessagesHold,
         RowsHold, NoEntry, NoLoad, NoCall, NoReader, Kept, LoadSteps, CallSteps, Publish,
         ReaderSteps, Versions, Clocks

LEMMA FreshTypes ==
  /\ Nothing \notin Fresh
  /\ Kept \subseteq Snapshot \cup { Nothing }
  BY DEF Fresh, Kept, Snapshot, Nothing, Versions

LEMMA InvTypes == Inv => TypeOK
  <1> SUFFICES ASSUME Inv PROVE TypeOK
    OBVIOUS
  <1> DEFINE Values == Snapshot \cup [ version : Versions ]
  <1>1. Kept \subseteq Values \cup { Nothing }
    BY FreshTypes
  <1>2. CacheTypeOK(Values, Clocks)
    BY <1>1 DEF CacheTypeOK, Inv, EntriesHold, LoadsHold, CallsHold, MessagesHold
  <1>3. QED
    BY <1>2 DEF TypeOK, Inv, RowsHold

LEMMA InvReadsCurrent == Inv => ReadIsCurrent
  BY DEF Inv, CallsHold, RowsHold, ReadIsCurrent, Returning, FirstIsBelieved, SecondIsThere,
         Result, Believed, Outdated, Fresh, Snapshot, Versions, Nothing

-------------------------------------------------------------------------------
(***************************************************************************)
(* Steps of a reader.                                                      *)
(***************************************************************************)
LEMMA LookupFinds ==
  ASSUME Inv, NEW r \in Readers, Lookup(r), UNCHANGED inflight
  PROVE  CallsHold'
  BY FreshTypes DEF Inv, EntriesHold, CallsHold, Lookup, Kept, CallSteps

LEMMA ReaderKeeps ==
  ASSUME Inv, NEW r \in Readers, ReadVersion(r) \/ FirstLookup(r) \/ ReadStep(r)
  PROVE  Inv'
<1> USE DEF Inv, Alone, GoTo
<1> ProcessOf[r] \in Processes
  OBVIOUS
<1>1. CASE ReadVersion(r)
  BY <1>1 DEF ReadVersion, EntriesHold, LoadsHold, LoadHolds, CallsHold, MessagesHold,
              RowsHold, cacheVars, ReaderSteps, Versions
<1>2. CASE FirstLookup(r)
  <2>1. CallsHold'
    BY <1>2, LookupFinds DEF FirstLookup
  <2>2. QED
    BY <1>2, <2>1 DEF FirstLookup, EntriesHold, LoadsHold, LoadHolds, MessagesHold, RowsHold,
                      ReaderSteps
<1>3. CASE CacheStep(r)
  <2>1. RowsHold' /\ MessagesHold'
    BY <1>3 DEF CacheStep, GetShared, GetFails, TakeShared, Miss, RowsHold, MessagesHold
  <2>2. CASE GetShared(r) \/ GetFails(r)
    <3>1. UNCHANGED << local, shared, inflight, guild >>
      BY <1>3, <2>2 DEF CacheStep, GetShared, GetFails
    <3>2. EntriesHold' /\ LoadsHold'
      BY <3>1 DEF EntriesHold, LoadsHold, LoadHolds
    <3>3. CallsHold'
      BY <2>2, <3>1 DEF GetShared, GetFails, EntriesHold, CallsHold, Kept, CallSteps
    <3>4. QED
      BY <2>1, <3>2, <3>3
  <2>3. CASE TakeShared(r)
    <3>1. call[r].value \in Fresh
      BY <2>3 DEF TakeShared, CallsHold, Kept
    <3>2. EntriesHold'
      BY <2>3, <3>1 DEF TakeShared, EntriesHold, Kept
    <3>3. CallsHold'
      BY <2>3, <3>1 DEF TakeShared, CallsHold, Kept, CallSteps
    <3>4. QED
      BY <1>3, <2>1, <2>3, <3>2, <3>3 DEF CacheStep, TakeShared, LoadsHold, LoadHolds
  <2>4. CASE Miss(r, clock)
    <3>1. LoadsHold'
      BY <1>3, <2>4 DEF CacheStep, Miss, LoadsHold, LoadHolds, RowsHold, LoadSteps, Kept
    <3>2. CallsHold'
      BY <2>4 DEF Miss, CallsHold, LoadsHold, LoadSteps, Kept, CallSteps
    <3>3. QED
      BY <1>3, <2>1, <2>4, <3>1, <3>2 DEF CacheStep, Miss, EntriesHold
  <2>5. QED
    BY <1>3, <2>2, <2>3, <2>4 DEF CacheStep
<1>4. CASE FirstIsOutdated(r)
  BY <1>4 DEF FirstIsOutdated, InvalidatesLocally, EntriesHold, LoadsHold, LoadHolds, CallsHold,
              MessagesHold, RowsHold, NoEntry, NoCall, Kept, CallSteps, ReaderSteps
<1>5. CASE SecondLookup(r)
  <2>1. CallsHold'
    BY <1>5, LookupFinds DEF SecondLookup
  <2>2. QED
    BY <1>5, <2>1 DEF SecondLookup, DeletesShared, KeepsShared, NoEntry, EntriesHold, LoadsHold,
                      LoadHolds, MessagesHold, RowsHold, ReaderSteps, Kept
<1>6. CASE Return(r)
  BY <1>6 DEF Return, EntriesHold, LoadsHold, LoadHolds, CallsHold, MessagesHold, RowsHold,
              NoCall, NoReader, Kept, CallSteps, ReaderSteps
<1>7. QED
  BY <1>1, <1>2, <1>3, <1>4, <1>5, <1>6 DEF ReadStep

-------------------------------------------------------------------------------
(***************************************************************************)
(* Steps of a process: its loads, its losses and its death.                *)
(***************************************************************************)

\* The version was read before the rows are.
LEMMA LoadedIsFresh ==
  ASSUME Inv, NEW p \in Processes, LoadRecords(p)
  PROVE  inflight'[p].value \in Fresh
<1> DEFINE loaded == [ version |-> inflight[p].value.version, of |-> guild.version,
                       ends |-> Active(inflight[p].began), cachedAt |-> clock ]
<1>1. inflight'[p].value = loaded /\ inflight[p].at = "records"
  BY DEF LoadRecords, Loads, Inv, LoadsHold
<1>2. inflight[p].value.version \in Versions /\ inflight[p].value.version <= guild.version
  BY <1>1 DEF Inv, LoadsHold, LoadHolds
<1>3. guild.version \in Versions /\ Active(inflight[p].began) \in EndTimes /\ clock \in Clocks
  BY DEF Inv, RowsHold, Active
<1>4. loaded \in Snapshot
  BY <1>2, <1>3 DEF Snapshot
<1>5. QED
  BY <1>1, <1>2, <1>4 DEF Fresh

LEMMA LoadKeeps ==
  ASSUME Inv, NEW p \in Processes, LoadStep(p)
  PROVE  Inv'
<1> USE DEF Inv
<1>1. RowsHold' /\ MessagesHold'
  BY DEF LoadStep, LoadVersion, LoadRecords, Loads, LoadFails, KeepLoaded, StoreLoaded,
         RowsHold, MessagesHold
<1>2. CASE LoadVersion(p)
  <2>1. LoadsHold'
    BY <1>2 DEF LoadStep, LoadVersion, Loads, LoadsHold, LoadHolds, RowsHold, LoadSteps, Versions
  <2>2. CallsHold'
    BY <1>2 DEF LoadVersion, Loads, CallsHold, LoadsHold
  <2>3. QED
    BY <1>1, <1>2, <2>1, <2>2 DEF LoadVersion, Loads, EntriesHold
<1>3. CASE LoadRecords(p)
  <2>1. inflight'[p].value \in Fresh
    BY <1>3, LoadedIsFresh
  <2>2. LoadsHold'
    BY <1>3, <2>1 DEF LoadStep, LoadRecords, Loads, LoadsHold, LoadHolds, LoadSteps, Kept, Clocks
  <2>3. CallsHold'
    BY <1>3 DEF LoadRecords, Loads, CallsHold, LoadsHold
  <2>4. QED
    BY <1>1, <1>3, <2>2, <2>3 DEF LoadRecords, Loads, EntriesHold
<1>4. CASE LoadFails(p)
  <2>1. LoadsHold'
    BY <1>4 DEF LoadStep, LoadFails, LoadsHold, LoadHolds, NoLoad, LoadSteps, Kept, Clocks
  <2>2. CallsHold'
    BY <1>4 DEF LoadFails, Answered, Waiting, CallsHold, LoadsHold, NoLoad, CallSteps, Kept
  <2>3. QED
    BY <1>1, <1>4, <2>1, <2>2 DEF LoadFails, EntriesHold
<1>5. CASE KeepLoaded(p)
  <2>1. inflight[p].value \in Fresh
    BY <1>5 DEF KeepLoaded, LoadsHold, LoadHolds
  <2>2. EntriesHold'
    BY <1>5, <2>1 DEF KeepLoaded, EntriesHold, Kept
  <2>3. LoadsHold'
    BY <1>5, <2>1 DEF LoadStep, KeepLoaded, LoadsHold, LoadHolds, LoadSteps, Kept, Clocks
  <2>4. CallsHold'
    BY <1>5 DEF KeepLoaded, CallsHold, LoadsHold
  <2>5. QED
    BY <1>1, <2>2, <2>3, <2>4
<1>6. CASE StoreLoaded(p)
  <2>1. inflight[p].value \in Fresh
    BY <1>6 DEF StoreLoaded, LoadsHold, LoadHolds
  <2>2. EntriesHold'
    BY <1>6, <2>1 DEF StoreLoaded, KeepsShared, EntriesHold, Kept
  <2>3. LoadsHold'
    BY <1>6 DEF LoadStep, StoreLoaded, LoadsHold, LoadHolds, NoLoad, LoadSteps, Kept, Clocks
  <2>4. CallsHold'
    BY <1>6, <2>1 DEF StoreLoaded, Answered, Waiting, CallsHold, LoadsHold, NoLoad, CallSteps, Kept
  <2>5. QED
    BY <1>1, <2>2, <2>3, <2>4
<1>7. QED
  BY <1>2, <1>3, <1>4, <1>5, <1>6 DEF LoadStep

LEMMA LossKeeps ==
  ASSUME Inv, NEW p \in Processes, Loses(p) \/ Dies(p)
  PROVE  Inv'
<1> USE DEF Inv
<1>1. CASE Loses(p)
  <2>1. EntriesHold'
    BY <1>1 DEF Loses, Evict, InvalidatesLocally, EntriesHold, NoEntry, Kept
  <2>2. LoadsHold' /\ CallsHold' /\ MessagesHold' /\ RowsHold'
    BY <1>1 DEF Loses, Evict, LoadsHold, LoadHolds, CallsHold, MessagesHold, RowsHold
  <2>3. QED
    BY <2>1, <2>2
<1>2. CASE Dies(p)
  <2>1. EntriesHold'
    BY <1>2 DEF Dies, Restart, InvalidatesLocally, EntriesHold, NoEntry, Kept
  <2>2. /\ inflight' = [ inflight EXCEPT ![p] = NoLoad ]
        /\ call' = [ r \in Readers |-> IF ProcessOf[r] = p THEN NoCall ELSE call[r] ]
        /\ guild' = guild
    BY <1>2 DEF Dies, Restart
  <2>3. LoadsHold'
    <3>1. NoLoad \in [ at : LoadSteps, value : Kept \cup [ version : Versions ], began : Clocks ]
      BY DEF NoLoad, LoadSteps, Kept, Clocks
    <3>2. QED
      BY <2>2, <3>1 DEF LoadsHold, LoadHolds, NoLoad
  <2>4. CallsHold'
    <3>1. NoCall \in [ at : CallSteps, value : Kept ] /\ NoCall.at = "idle"
      BY DEF NoCall, CallSteps, Kept
    <3>2. QED
      BY <2>2, <3>1 DEF CallsHold, LoadsHold
  <2>5. MessagesHold' /\ RowsHold'
    BY <1>2 DEF Dies, Restart, MessagesHold, Publish, RowsHold, NoReader, ReaderSteps
  <2>6. QED
    BY <2>1, <2>3, <2>4, <2>5
<1>3. QED
  BY <1>1, <1>2

-------------------------------------------------------------------------------
(***************************************************************************)
(* Steps of writers and subscribers, and time.                             *)
(***************************************************************************)
LEMMA CommitKeeps ==
  ASSUME Inv, NEW p \in Processes, NEW ends \in EndTimes, Commits(p, ends)
  PROVE  Inv'
<1> USE DEF Inv, Commits
<1>1. guild'.version = guild.version + 1 /\ RowsHold'
  BY DEF RowsHold, Versions
<1>2. LoadsHold'
  BY <1>1 DEF LoadsHold, LoadHolds, RowsHold, Versions
<1>3. CallsHold' /\ EntriesHold' /\ MessagesHold'
  BY DEF CallsHold, EntriesHold, MessagesHold, Publish
<1>4. QED
  BY <1>1, <1>2, <1>3

LEMMA WriterKeeps ==
  ASSUME Inv, NEW p \in Writers,
         Commit(p) \/ GrantPromotion(p) \/ RevokePromotion(p) \/ PublishStep(p)
  PROVE  Inv'
<1>1. p \in Processes /\ guild.ends \in EndTimes
  BY DEF Inv, RowsHold
<1>2. CASE Commit(p) \/ GrantPromotion(p) \/ RevokePromotion(p)
  <2>1. PICK ends \in EndTimes : Commits(p, ends)
    BY <1>1, <1>2 DEF Commit, GrantPromotion, RevokePromotion
  <2>2. QED
    BY <1>1, <2>1, CommitKeeps
<1>3. CASE PublishStep(p)
  <2>1. EntriesHold'
    BY <1>1, <1>3 DEF PublishStep, PublishLocal, PublishRedis, Announce, InvalidatesLocally,
                      DeletesShared, KeepsShared, Inv, EntriesHold, NoEntry, Kept
  <2>2. MessagesHold'
    BY <1>1, <1>3 DEF PublishStep, PublishLocal, PublishRedis, Announce, Inv, MessagesHold, Publish
  <2>3. LoadsHold' /\ CallsHold' /\ RowsHold'
    BY <1>3 DEF PublishStep, PublishLocal, PublishRedis, Announce, Inv, LoadsHold, LoadHolds,
                CallsHold, RowsHold
  <2>4. QED
    BY <2>1, <2>2, <2>3 DEF Inv
<1>4. QED
  BY <1>2, <1>3

LEMMA SubscriberKeeps ==
  ASSUME Inv, NEW s \in Subscribers, SubscriberStep(s)
  PROVE  Inv'
<1>1. s \in Processes
  OBVIOUS
<1>2. EntriesHold'
  BY <1>1 DEF SubscriberStep, Receive, ReceiverDeletes, InvalidatesLocally, DeletesShared,
              KeepsShared, Inv, EntriesHold, NoEntry, Kept
<1>3. MessagesHold'
  BY DEF SubscriberStep, Receive, ReceiverDeletes, Inv, MessagesHold
<1>4. LoadsHold' /\ CallsHold' /\ RowsHold'
  BY DEF SubscriberStep, Receive, ReceiverDeletes, Inv, LoadsHold, LoadHolds, CallsHold, RowsHold
<1>5. QED
  BY <1>2, <1>3, <1>4 DEF Inv

LEMMA TimeKeeps ==
  ASSUME Inv, Tick
  PROVE  Inv'
<1>1. EntriesHold'
  BY DEF Tick, TimePasses, Older, Inv, EntriesHold, NoEntry, Kept
<1>2. LoadsHold' /\ CallsHold' /\ MessagesHold'
  BY DEF Tick, TimePasses, Inv, LoadsHold, LoadHolds, CallsHold, MessagesHold
<1>3. RowsHold'
  BY DEF Tick, Inv, RowsHold, Clocks
<1>4. QED
  BY <1>1, <1>2, <1>3 DEF Inv

-------------------------------------------------------------------------------
LEMMA StepHolds == Inv /\ [Next]_vars => Inv'
<1> SUFFICES ASSUME Inv, [Next]_vars PROVE Inv'
  OBVIOUS
<1>1. CASE Next
  BY <1>1, ReaderKeeps, LoadKeeps, LossKeeps, WriterKeeps, SubscriberKeeps, TimeKeeps DEF Next
<1>2. CASE UNCHANGED vars
  BY <1>2 DEF vars, cacheVars, serviceVars, Inv, EntriesHold, LoadsHold, LoadHolds, CallsHold,
              MessagesHold, RowsHold
<1>3. QED
  BY <1>1, <1>2

-------------------------------------------------------------------------------
(***************************************************************************)
(* A read that nothing disturbs is exact.                                  *)
(***************************************************************************)

\* A snapshot with the rows of the current version says what the guild is entitled
\* to, or that it is entitled to nothing any more.
Truthful(v, rows, now) ==
  v # Nothing =>
    /\ v.of <= rows.version
    /\ v.of = rows.version => v.ends = rows.ends \/ (v.ends = 0 /\ rows.ends <= now)

\* The load has read the rows, and they are on their way to the caches.
Loaded(p) == inflight[p].at \in { "loaded", "store" }

TruthsHold ==
  /\ \A p \in Processes : Truthful(local[p].value, guild, clock)
  /\ Truthful(shared.value, guild, clock)
  /\ \A r \in Readers : Truthful(call[r].value, guild, clock)
  /\ \A p \in Processes :
       /\ Loaded(p) => Truthful(inflight[p].value, guild, clock)
       /\ inflight[p].at \in { "load", "records" } => inflight[p].began <= clock

\* A reader who is not looking anything up has no call of the cache.
IdleHolds ==
  \A r \in Readers : reader[r].at \in { "idle", "version", "invalidate" } => call[r].at = "idle"

\* What a load that has just begun finds.
Exact(v, rows, now) ==
  v.version = rows.version /\ v.ends = (IF rows.ends > now THEN rows.ends ELSE 0)

\* A second lookup finds what the read has invalidated gone, and loads what is there.
SecondHolds(r, p) ==
  /\ call[r].at = "get" => shared.value = Nothing
  /\ call[r].at = "take" => call[r].value = Nothing
  /\ call[r].at = "got" => Exact(call[r].value, guild, clock)
  /\ inflight[p].at \in { "load", "records" } => inflight[p].began = clock
  /\ inflight[p].at = "records" => inflight[p].value.version = guild.version
  /\ Loaded(p) => Exact(inflight[p].value, guild, clock)

\* A read that nothing disturbs meets no load but the one it waits for.
CalmHolds(r, p) ==
  /\ reader[r].want = guild.version
  /\ inflight[p].at # "none" => call[r].at = "wait"
  /\ reader[r].at = "invalidate" => local[p].value = Nothing
  /\ reader[r].at = "second" => SecondHolds(r, p)

CalmsHold == checked => \A r \in calm : CalmHolds(r, ProcessOf[r])

CalmInv == Inv /\ TruthsHold /\ IdleHolds /\ CalmsHold

LEMMA EndTimesAreNumbers == \A e \in EndTimes : e \in Nat
  OBVIOUS

LEMMA RowTypes == Inv => guild.version \in Nat /\ guild.ends \in Nat /\ clock \in Nat
<1> SUFFICES ASSUME Inv PROVE guild.version \in Nat /\ guild.ends \in Nat /\ clock \in Nat
  OBVIOUS
<1>1. guild.version \in Versions /\ guild.ends \in EndTimes /\ clock \in Clocks
  BY DEF Inv, RowsHold
<1>2. guild.version \in Nat
  BY <1>1 DEF Versions
<1>3. guild.ends \in Nat
  BY <1>1, EndTimesAreNumbers
<1>4. clock \in Nat
  BY <1>1 DEF Clocks
<1>5. QED
  BY <1>2, <1>3, <1>4

LEMMA FreshTimes == \A v \in Fresh : v.of \in Nat /\ v.version \in Nat /\ v.ends \in Nat
<1> SUFFICES ASSUME NEW v \in Fresh PROVE v.of \in Nat /\ v.version \in Nat /\ v.ends \in Nat
  OBVIOUS
<1>1. v.of \in Versions /\ v.version \in Versions /\ v.ends \in EndTimes
  BY DEF Fresh, Snapshot
<1>2. v.of \in Nat /\ v.version \in Nat
  BY <1>1 DEF Versions
<1>3. v.ends \in Nat
  BY <1>1, EndTimesAreNumbers
<1>4. QED
  BY <1>2, <1>3

LEMMA CalmInit == Init => CalmInv
<1> SUFFICES ASSUME Init PROVE CalmInv
  OBVIOUS
<1>1. Inv
  BY InitHolds
<1>2. TruthsHold
  BY DEF Init, CacheInit, TruthsHold, Truthful, Loaded, NoEntry, NoLoad, NoCall
<1>3. IdleHolds /\ CalmsHold
  BY DEF Init, CacheInit, IdleHolds, CalmsHold, NoCall
<1>4. QED
  BY <1>1, <1>2, <1>3 DEF CalmInv

LEMMA CalmInvExact == CalmInv => CalmReadIsExact
<1> SUFFICES ASSUME CalmInv, NEW r \in calm, checked, Returning(r)
             PROVE  /\ Result(r) # Nothing
                    /\ Result(r).ends = (IF guild.ends > clock THEN guild.ends ELSE 0)
  BY DEF CalmReadIsExact
<1> DEFINE v == call[r].value
<1>1. r \in Readers /\ call[r].at = "got" /\ v \in Fresh /\ v # Nothing
  BY FreshTypes DEF CalmInv, Inv, RowsHold, CallsHold, Returning, FirstIsBelieved, SecondIsThere
<1>2. reader[r].want = guild.version /\ Truthful(v, guild, clock)
  BY <1>1 DEF CalmInv, CalmsHold, CalmHolds, TruthsHold
<1>3. guild.version \in Versions /\ guild.ends \in Nat /\ clock \in Nat
  BY RowTypes DEF CalmInv, Inv, RowsHold
<1>4. v.version <= v.of /\ v.of \in Nat /\ v.version \in Nat /\ v.ends \in Nat
  BY <1>1, FreshTimes DEF Fresh
<1>5. CASE FirstIsBelieved(r)
  <2>1. Result(r) = v
    BY <1>5 DEF FirstIsBelieved, Result
  <2>2. v.version = guild.version /\ (v.ends = 0 \/ ~ v.ends <= clock)
    BY <1>2, <1>5 DEF FirstIsBelieved, Outdated
  <2>3. v.of = guild.version
    BY <1>1, <1>2, <1>3, <1>4, <2>2 DEF Truthful, Versions
  <2>4. v.ends = guild.ends \/ (v.ends = 0 /\ guild.ends <= clock)
    BY <1>1, <1>2, <2>3 DEF Truthful
  <2>5. v.ends = (IF guild.ends > clock THEN guild.ends ELSE 0)
    BY <1>3, <1>4, <2>2, <2>4
  <2>6. QED
    BY <1>1, <2>1, <2>5
<1>6. CASE SecondIsThere(r)
  <2>1. Exact(v, guild, clock)
    BY <1>1, <1>6 DEF SecondIsThere, CalmInv, CalmsHold, CalmHolds, SecondHolds
  <2>2. Result(r) = v
    BY <1>2, <1>6, <2>1 DEF SecondIsThere, Result, Believed, Exact
  <2>3. QED
    BY <1>1, <2>1, <2>2 DEF Exact
<1>7. QED
  BY <1>5, <1>6 DEF Returning

LEMMA NothingIsTruthful == \A rows, now : Truthful(Nothing, rows, now)
  BY DEF Truthful

\* Snapshots stay truthful while time passes, and when the rows change.
LEMMA TruthLasts ==
  ASSUME NEW v \in Kept, NEW rows, NEW now \in Nat, Truthful(v, rows, now),
         NEW later, NEW after \in Nat, now <= after,
         rows.version \in Nat, rows.ends \in Nat,
         later = rows \/ later.version = rows.version + 1
  PROVE  Truthful(v, later, after)
<1>1. CASE v = Nothing
  BY <1>1 DEF Truthful
<1>2. CASE v # Nothing
  <2>1. v.of \in Nat /\ v.ends \in Nat
    BY <1>2, FreshTimes DEF Kept
  <2>2. QED
    BY <1>2, <2>1 DEF Truthful
<1>3. QED
  BY <1>1, <1>2

\* A step that leaves the loads and the calls alone, and keeps or removes entries.
LEMMA EntriesKeepTruth ==
  ASSUME Inv, TruthsHold, UNCHANGED << inflight, call >>, clock' \in Nat, clock <= clock',
         UNCHANGED guild \/ guild'.version = guild.version + 1,
         \A p \in Processes : local'[p].value \in { local[p].value, Nothing },
         shared'.value \in { shared.value, Nothing }
  PROVE  TruthsHold'
<1> DEFINE Lasting(v) == v \in Kept /\ Truthful(v, guild, clock)
<1>1. guild.version \in Nat /\ guild.ends \in Nat /\ clock \in Nat
  BY RowTypes
<1>2. ASSUME NEW v, Lasting(v) PROVE Truthful(v, guild', clock')
  <2>1. v \in Kept /\ Truthful(v, guild, clock)
    BY <1>2
  <2> HIDE DEF Lasting
  <2>2. guild' = guild \/ guild'.version = guild.version + 1
    OBVIOUS
  <2>3. QED
    BY <1>1, <2>1, <2>2, TruthLasts
<1>3. \A p \in Processes : Lasting(local[p].value)
  BY DEF Inv, EntriesHold, TruthsHold
<1>4. Lasting(shared.value)
  BY DEF Inv, EntriesHold, TruthsHold
<1>5. \A r \in Readers : Lasting(call[r].value)
  BY DEF Inv, CallsHold, TruthsHold
<1>6. \A p \in Processes : Loaded(p) => Lasting(inflight[p].value)
  BY DEF Inv, LoadsHold, LoadHolds, TruthsHold, Loaded, Kept
<1> HIDE DEF Lasting
<1>7. \A p \in Processes : Truthful(local'[p].value, guild', clock')
  BY <1>2, <1>3, NothingIsTruthful
<1>8. Truthful(shared'.value, guild', clock')
  BY <1>2, <1>4, NothingIsTruthful
<1>9. \A r \in Readers : Truthful(call'[r].value, guild', clock')
  BY <1>2, <1>5
<1>10. \A p \in Processes : Loaded(p)' => Truthful(inflight'[p].value, guild', clock')
  BY <1>2, <1>6 DEF Loaded
<1>11. ASSUME NEW p \in Processes, inflight[p].at \in { "load", "records" }
       PROVE  inflight[p].began <= clock'
  <2>1. inflight[p].began \in Nat /\ inflight[p].began <= clock
    BY <1>11 DEF Inv, LoadsHold, Clocks, TruthsHold
  <2>2. QED
    BY <1>1, <2>1
<1>12. QED
  BY <1>7, <1>8, <1>9, <1>10, <1>11 DEF TruthsHold

-------------------------------------------------------------------------------
LEMMA ReadVersionCalm ==
  ASSUME CalmInv, NEW r \in Readers, ReadVersion(r)
  PROVE  TruthsHold' /\ IdleHolds' /\ CalmsHold'
<1> USE DEF ReadVersion, cacheVars
<1>1. TruthsHold'
  BY DEF CalmInv, TruthsHold, Loaded
<1>2. IdleHolds'
  BY DEF CalmInv, IdleHolds, Inv, RowsHold
<1>3. CalmsHold'
  BY DEF CalmsHold, CalmHolds, checked, CalmInv, Inv, RowsHold
<1>4. QED
  BY <1>1, <1>2, <1>3

LEMMA FirstLookupCalm ==
  ASSUME CalmInv, NEW r \in Readers, FirstLookup(r)
  PROVE  TruthsHold' /\ IdleHolds' /\ CalmsHold'
<1> USE DEF FirstLookup, Lookup, GoTo
<1>0. ProcessOf[r] \in Processes
  OBVIOUS
<1>1. TruthsHold'
  BY <1>0 DEF CalmInv, TruthsHold, Loaded, Inv, CallsHold
<1>2. IdleHolds'
  BY DEF CalmInv, IdleHolds, Inv, RowsHold, CallsHold
<1>3. ASSUME checked', NEW s \in calm' PROVE CalmHolds(s, ProcessOf[s])'
  <2>1. s = r /\ s \in calm /\ checked
    BY <1>3 DEF Alone, checked
  <2>2. reader[r].want = guild.version /\ inflight[ProcessOf[r]].at = "none"
    BY <2>1 DEF CalmInv, CalmsHold, CalmHolds, IdleHolds
  <2>3. reader'[r].at = "first" /\ reader'[r].want = guild.version
    BY <2>2 DEF CalmInv, Inv, RowsHold
  <2>4. QED
    BY <2>1, <2>2, <2>3 DEF CalmHolds
<1>4. QED
  BY <1>1, <1>2, <1>3 DEF CalmsHold

LEMMA ReturnCalm ==
  ASSUME CalmInv, NEW r \in Readers, Return(r)
  PROVE  TruthsHold' /\ IdleHolds' /\ CalmsHold'
<1> USE DEF Return
<1>1. TruthsHold'
  BY NothingIsTruthful DEF CalmInv, TruthsHold, Loaded, Inv, CallsHold, NoCall
<1>2. IdleHolds'
  BY DEF CalmInv, IdleHolds, Inv, RowsHold, CallsHold, NoCall
<1>3. CalmsHold'
  BY DEF CalmsHold
<1>4. QED
  BY <1>1, <1>2, <1>3

LEMMA FirstIsOutdatedCalm ==
  ASSUME CalmInv, NEW r \in Readers, FirstIsOutdated(r)
  PROVE  TruthsHold' /\ IdleHolds' /\ CalmsHold'
<1> USE DEF FirstIsOutdated, GoTo, InvalidatesLocally
<1>0. ProcessOf[r] \in Processes
  OBVIOUS
<1>1. TruthsHold'
  BY <1>0, NothingIsTruthful
     DEF CalmInv, TruthsHold, Loaded, Inv, CallsHold, EntriesHold, NoCall, NoEntry
<1>2. IdleHolds'
  BY DEF CalmInv, IdleHolds, Inv, RowsHold, CallsHold, NoCall
<1>3. ASSUME checked', NEW s \in calm' PROVE CalmHolds(s, ProcessOf[s])'
  <2>1. s = r /\ s \in calm /\ checked
    BY <1>3 DEF Alone, checked
  <2>2. reader[r].want = guild.version /\ inflight[ProcessOf[r]].at = "none"
    BY <2>1 DEF CalmInv, CalmsHold, CalmHolds
  <2>3. reader'[r].at = "invalidate" /\ reader'[r].want = guild.version
    BY <2>2 DEF CalmInv, Inv, RowsHold
  <2>4. local'[ProcessOf[r]].value = Nothing
    BY <1>0 DEF CalmInv, Inv, EntriesHold, NoEntry
  <2>5. QED
    BY <2>1, <2>2, <2>3, <2>4 DEF CalmHolds
<1>4. QED
  BY <1>1, <1>2, <1>3 DEF CalmsHold

LEMMA SecondLookupCalm ==
  ASSUME CalmInv, NEW r \in Readers, SecondLookup(r)
  PROVE  TruthsHold' /\ IdleHolds' /\ CalmsHold'
<1> USE DEF SecondLookup, Lookup, GoTo
<1>0. ProcessOf[r] \in Processes
  OBVIOUS
<1>1. TruthsHold'
  BY <1>0, NothingIsTruthful
     DEF CalmInv, TruthsHold, Loaded, Inv, CallsHold, DeletesShared, KeepsShared, NoEntry
<1>2. IdleHolds'
  BY DEF CalmInv, IdleHolds, Inv, RowsHold, CallsHold
<1>3. ASSUME checked', NEW s \in calm' PROVE CalmHolds(s, ProcessOf[s])'
  <2>1. s = r /\ s \in calm /\ checked /\ DeletesShared
    BY <1>3 DEF Alone, checked
  <2>2. /\ reader[r].want = guild.version
        /\ inflight[ProcessOf[r]].at = "none"
        /\ local[ProcessOf[r]].value = Nothing
    BY <2>1 DEF CalmInv, CalmsHold, CalmHolds, IdleHolds
  <2>3. reader'[r].at = "second" /\ reader'[r].want = guild.version
    BY <2>2 DEF CalmInv, Inv, RowsHold
  <2>4. call'[r].at = "get" /\ shared'.value = Nothing
    BY <2>1, <2>2 DEF CalmInv, Inv, CallsHold, DeletesShared, NoEntry
  <2>5. SecondHolds(r, ProcessOf[r])'
    BY <2>2, <2>4 DEF SecondHolds, Loaded
  <2>6. QED
    BY <2>1, <2>2, <2>3, <2>5 DEF CalmHolds
<1>4. QED
  BY <1>1, <1>2, <1>3 DEF CalmsHold

-------------------------------------------------------------------------------
LEMMA CacheStepCalm ==
  ASSUME CalmInv, NEW r \in Readers, CacheStep(r)
  PROVE  TruthsHold' /\ IdleHolds' /\ CalmsHold'
<1>0. /\ ProcessOf[r] \in Processes
      /\ UNCHANGED << start, guild, clock, reader >>
      /\ clock \in Nat
  BY DEF CacheStep, CalmInv, Inv, RowsHold, Clocks
<1>a. GetShared(r) \/ GetFails(r) \/ TakeShared(r) \/ Miss(r, clock)
  BY DEF CacheStep
<1>1. TruthsHold'
  <2>1. CASE GetShared(r)
    BY <1>0, <2>1 DEF GetShared, CalmInv, TruthsHold, Loaded, Inv, CallsHold
  <2>2. CASE GetFails(r)
    BY <1>0, <2>2, NothingIsTruthful DEF GetFails, CalmInv, TruthsHold, Loaded, Inv, CallsHold
  <2>3. CASE TakeShared(r)
    BY <1>0, <2>3 DEF TakeShared, CalmInv, TruthsHold, Loaded, Inv, CallsHold, EntriesHold
  <2>4. CASE Miss(r, clock)
    <3>1. \A s \in Readers : Truthful(call'[s].value, guild', clock')
      BY <1>0, <2>4, NothingIsTruthful DEF Miss, CalmInv, TruthsHold, Inv, CallsHold
    <3>2. \A p \in Processes :
            \/ inflight'[p] = inflight[p]
            \/ inflight'[p] = [ at |-> "load", value |-> Nothing, began |-> clock ]
      BY <1>0, <2>4 DEF Miss, CalmInv, Inv, LoadsHold
    <3>3. QED
      BY <1>0, <2>4, <3>1, <3>2 DEF Miss, CalmInv, TruthsHold, Loaded
  <2>5. QED
    BY <1>a, <2>1, <2>2, <2>3, <2>4
<1>2. IdleHolds'
  <2>1. call[r].at \in { "get", "take" }
    BY <1>a DEF GetShared, GetFails, TakeShared, Miss
  <2>2. reader[r].at \notin { "idle", "version", "invalidate" }
    BY <2>1 DEF CalmInv, IdleHolds
  <2>3. \A s \in Readers : s # r => call'[s] = call[s]
    BY <1>a DEF GetShared, GetFails, TakeShared, Miss, CalmInv, Inv, CallsHold
  <2>4. QED
    BY <1>0, <2>2, <2>3 DEF CalmInv, IdleHolds
<1>3. ASSUME checked', NEW s \in calm' PROVE CalmHolds(s, ProcessOf[s])'
  <2>1. s = r /\ s \in calm /\ checked /\ ~ calm' = {}
    BY <1>0, <1>3 DEF CacheStep, Alone, checked
  <2>2. CalmHolds(r, ProcessOf[r])
    BY <2>1 DEF CalmInv, CalmsHold
  <2>3. call[r].at \in { "get", "take" }
    BY <1>a DEF GetShared, GetFails, TakeShared, Miss
  <2>4. inflight[ProcessOf[r]].at = "none" /\ reader[r].at # "invalidate"
    BY <2>2, <2>3 DEF CalmHolds, CalmInv, IdleHolds
  <2>5. CASE GetShared(r)
    BY <1>0, <2>1, <2>2, <2>4, <2>5
       DEF GetShared, CalmHolds, SecondHolds, Loaded, CalmInv, Inv, CallsHold
  <2>6. CASE TakeShared(r)
    BY <1>0, <2>1, <2>2, <2>4, <2>6
       DEF TakeShared, CalmHolds, SecondHolds, Loaded, CalmInv, Inv, CallsHold
  <2>7. CASE Miss(r, clock)
    <3>1. call'[r].at = "wait"
      BY <2>7 DEF Miss, CalmInv, Inv, CallsHold
    <3>2. inflight'[ProcessOf[r]] = [ at |-> "load", value |-> Nothing, began |-> clock ]
      BY <1>0, <2>4, <2>7 DEF Miss, CalmInv, Inv, LoadsHold
    <3>3. SecondHolds(r, ProcessOf[r])'
      BY <1>0, <3>1, <3>2 DEF SecondHolds, Loaded
    <3>4. QED
      BY <1>0, <2>1, <2>2, <2>4, <3>1, <3>3 DEF CalmHolds
  <2>8. QED
    BY <2>1, <2>5, <2>6, <2>7 DEF CacheStep
<1>4. QED
  BY <1>1, <1>2, <1>3 DEF CalmsHold

-------------------------------------------------------------------------------
LEMMA LoadTruths ==
  ASSUME CalmInv, NEW p \in Processes, LoadStep(p)
  PROVE  TruthsHold'
<1>0. UNCHANGED << guild, clock >> /\ guild.ends \in Nat /\ clock \in Nat
  BY RowTypes DEF LoadStep, CalmInv
<1>1. CASE LoadVersion(p)
  BY <1>0, <1>1 DEF LoadVersion, Loads, CalmInv, TruthsHold, Loaded, Inv, LoadsHold
<1>2. CASE LoadRecords(p)
  <2> DEFINE v == [ version |-> inflight[p].value.version, of |-> guild.version,
                    ends |-> Active(inflight[p].began), cachedAt |-> clock ]
  <2>1. inflight[p].began \in Nat /\ inflight[p].began <= clock
    BY <1>2 DEF LoadRecords, Loads, CalmInv, TruthsHold, Inv, LoadsHold, Clocks
  <2>2. v.of = guild.version /\ v.ends = Active(inflight[p].began)
    OBVIOUS
  <2>3. inflight' = [ inflight EXCEPT ![p] = [ at |-> "loaded", value |-> v, began |-> 0 ] ]
    BY <1>2 DEF LoadRecords, Loads
  <2> HIDE DEF v
  <2>4. v.ends = guild.ends \/ (v.ends = 0 /\ guild.ends <= clock)
    BY <1>0, <2>1, <2>2 DEF Active
  <2>5. guild.version <= guild.version
    BY DEF CalmInv, Inv, RowsHold, Versions
  <2>6. Truthful(v, guild, clock)
    BY <2>2, <2>4, <2>5 DEF Truthful
  <2>7. \A q \in Processes :
          inflight'[q] = IF q = p THEN [ at |-> "loaded", value |-> v, began |-> 0 ]
                         ELSE inflight[q]
    BY <2>3 DEF CalmInv, Inv, LoadsHold
  <2>8. QED
    BY <1>0, <1>2, <2>6, <2>7 DEF LoadRecords, Loads, CalmInv, TruthsHold, Loaded
<1>3. CASE LoadFails(p)
  <2>1. \A r \in Readers : Truthful(call'[r].value, guild', clock')
    BY <1>0, <1>3, NothingIsTruthful DEF LoadFails, Answered, CalmInv, TruthsHold
  <2>2. QED
    BY <1>0, <1>3, <2>1 DEF LoadFails, CalmInv, TruthsHold, Loaded, Inv, LoadsHold, NoLoad
<1>4. CASE KeepLoaded(p)
  <2>1. Truthful(inflight[p].value, guild, clock)
    BY <1>4 DEF KeepLoaded, CalmInv, TruthsHold, Loaded
  <2>2. \A q \in Processes : Truthful(local'[q].value, guild', clock')
    BY <1>0, <1>4, <2>1 DEF KeepLoaded, CalmInv, TruthsHold, Inv, EntriesHold
  <2>3. QED
    BY <1>0, <1>4, <2>1, <2>2 DEF KeepLoaded, CalmInv, TruthsHold, Loaded, Inv, LoadsHold
<1>5. CASE StoreLoaded(p)
  <2>1. Truthful(inflight[p].value, guild, clock)
    BY <1>5 DEF StoreLoaded, CalmInv, TruthsHold, Loaded
  <2>2. \A r \in Readers : Truthful(call'[r].value, guild', clock')
    BY <1>0, <1>5, <2>1 DEF StoreLoaded, Answered, CalmInv, TruthsHold
  <2>3. Truthful(shared'.value, guild', clock')
    BY <1>0, <1>5, <2>1 DEF StoreLoaded, KeepsShared, CalmInv, TruthsHold
  <2>4. QED
    BY <1>0, <1>5, <2>2, <2>3 DEF StoreLoaded, CalmInv, TruthsHold, Loaded, Inv, LoadsHold, NoLoad
<1>6. QED
  BY <1>1, <1>2, <1>3, <1>4, <1>5 DEF LoadStep

LEMMA LoadIdles ==
  ASSUME CalmInv, NEW p \in Processes, LoadStep(p)
  PROVE  IdleHolds'
<1>1. \A r \in Readers : call[r].at = "idle" => call'[r] = call[r]
  BY DEF LoadStep, LoadVersion, LoadRecords, Loads, LoadFails, KeepLoaded, StoreLoaded, Answered,
         Waiting
<1>2. UNCHANGED reader
  BY DEF LoadStep
<1>3. QED
  BY <1>1, <1>2 DEF CalmInv, IdleHolds

LEMMA LoadCalms ==
  ASSUME CalmInv, NEW p \in Processes, LoadStep(p), checked', NEW r \in calm'
  PROVE  CalmHolds(r, ProcessOf[r])'
<1>0. /\ UNCHANGED << start, guild, clock, reader >>
      /\ r \in calm /\ r \in Readers /\ ProcessOf[r] = p /\ checked
  BY DEF LoadStep, checked, CalmInv, Inv, RowsHold
<1>1. CalmHolds(r, p)
  BY <1>0 DEF CalmInv, CalmsHold
<1>2. inflight[p].at # "none"
  BY DEF LoadStep, LoadVersion, LoadRecords, Loads, LoadFails, KeepLoaded, StoreLoaded
<1>3. call[r].at = "wait" /\ reader[r].at # "invalidate" /\ r \in Waiting(p)
  BY <1>0, <1>1, <1>2 DEF CalmHolds, CalmInv, IdleHolds, Waiting
<1>4. inflight'[p].at # "none" => call'[r].at = "wait"
  BY <1>0, <1>3 DEF LoadStep, LoadVersion, LoadRecords, Loads, LoadFails, KeepLoaded, StoreLoaded,
                    CalmInv, Inv, LoadsHold, NoLoad
<1>5. ASSUME SecondHolds(r, p) PROVE SecondHolds(r, p)'
  <2>1. CASE LoadVersion(p)
    BY <1>0, <1>3, <1>5, <2>1 DEF LoadVersion, Loads, SecondHolds, Loaded, CalmInv, Inv, LoadsHold
  <2>2. CASE LoadRecords(p)
    <3> DEFINE v == [ version |-> inflight[p].value.version, of |-> guild.version,
                      ends |-> Active(inflight[p].began), cachedAt |-> clock ]
    <3>1. inflight'[p] = [ at |-> "loaded", value |-> v, began |-> 0 ] /\ UNCHANGED call
      BY <2>2 DEF LoadRecords, Loads, CalmInv, Inv, LoadsHold
    <3>2. Exact(v, guild, clock)
      BY <1>5, <2>2 DEF LoadRecords, Loads, SecondHolds, Exact, Active
    <3> HIDE DEF v
    <3>3. QED
      BY <1>0, <1>3, <3>1, <3>2 DEF SecondHolds, Loaded
  <2>3. CASE LoadFails(p)
    BY <1>0, <1>3, <2>3
       DEF LoadFails, Answered, SecondHolds, Loaded, CalmInv, Inv, LoadsHold, NoLoad
  <2>4. CASE KeepLoaded(p)
    BY <1>0, <1>3, <1>5, <2>4 DEF KeepLoaded, SecondHolds, Loaded, CalmInv, Inv, LoadsHold
  <2>5. CASE StoreLoaded(p)
    BY <1>0, <1>3, <1>5, <2>5
       DEF StoreLoaded, Answered, SecondHolds, Loaded, CalmInv, Inv, LoadsHold, NoLoad
  <2>6. QED
    BY <2>1, <2>2, <2>3, <2>4, <2>5 DEF LoadStep
<1>6. QED
  BY <1>0, <1>1, <1>3, <1>4, <1>5 DEF CalmHolds

-------------------------------------------------------------------------------
\* Whatever else happens, no read is calm any more.
LEMMA OthersCalm ==
  ASSUME CalmInv, calm' = {}, UNCHANGED << inflight, call, reader >>,
         clock' \in Nat, clock <= clock',
         UNCHANGED guild \/ guild'.version = guild.version + 1,
         \A p \in Processes : local'[p].value \in { local[p].value, Nothing },
         shared'.value \in { shared.value, Nothing }
  PROVE  TruthsHold' /\ IdleHolds' /\ CalmsHold'
<1>1. TruthsHold'
  BY EntriesKeepTruth DEF CalmInv
<1>2. IdleHolds' /\ CalmsHold'
  BY DEF CalmInv, IdleHolds, CalmsHold
<1>3. QED
  BY <1>1, <1>2

LEMMA ClockTypes == Inv => clock \in Nat /\ clock <= clock
  BY DEF Inv, RowsHold, Clocks

\* An entry is invalidated, and the other entries stay.
LEMMA InvalidatedEntries ==
  ASSUME Inv, NEW p \in Processes, InvalidatesLocally(p)
  PROVE  \A q \in Processes : local'[q].value \in { local[q].value, Nothing }
  BY DEF Inv, EntriesHold, InvalidatesLocally, NoEntry

LEMMA WritersCalm ==
  ASSUME CalmInv, NEW p \in Writers,
         Commit(p) \/ GrantPromotion(p) \/ RevokePromotion(p) \/ PublishStep(p)
  PROVE  TruthsHold' /\ IdleHolds' /\ CalmsHold'
<1>1. Inv /\ p \in Processes
  BY DEF CalmInv
<1>2. CASE Commit(p) \/ GrantPromotion(p) \/ RevokePromotion(p)
  <2>1. PICK ends : Commits(p, ends)
    BY <1>2 DEF Commit, GrantPromotion, RevokePromotion
  <2>2. guild'.version = guild.version + 1
    BY <2>1 DEF Commits
  <2>3. UNCHANGED << inflight, call, reader, clock, local, shared >> /\ calm' = {}
    BY <2>1 DEF Commits
  <2>4. QED
    BY <1>1, <2>2, <2>3, ClockTypes, OthersCalm
<1>3. CASE PublishStep(p)
  <2>1. UNCHANGED << inflight, call, reader, clock, guild >> /\ calm' = {}
    BY <1>3 DEF PublishStep, PublishLocal, PublishRedis, Announce
  <2>2. InvalidatesLocally(p) \/ UNCHANGED local
    BY <1>3 DEF PublishStep, PublishLocal, PublishRedis, Announce
  <2>3. \A q \in Processes : local'[q].value \in { local[q].value, Nothing }
    BY <1>1, <2>2, InvalidatedEntries
  <2>4. shared'.value \in { shared.value, Nothing }
    BY <1>3 DEF PublishStep, PublishLocal, PublishRedis, Announce, DeletesShared, KeepsShared, NoEntry
  <2>5. QED
    BY <1>1, <2>1, <2>3, <2>4, ClockTypes, OthersCalm
<1>4. QED
  BY <1>2, <1>3

LEMMA SubscribersCalm ==
  ASSUME CalmInv, NEW s \in Subscribers, SubscriberStep(s)
  PROVE  TruthsHold' /\ IdleHolds' /\ CalmsHold'
<1>1. Inv /\ s \in Processes
  BY DEF CalmInv
<1>2. UNCHANGED << inflight, call, reader, clock, guild >> /\ calm' = {}
  BY DEF SubscriberStep, Receive, ReceiverDeletes
<1>3. InvalidatesLocally(s) \/ UNCHANGED local
  BY DEF SubscriberStep, Receive, ReceiverDeletes
<1>4. \A q \in Processes : local'[q].value \in { local[q].value, Nothing }
  BY <1>1, <1>3, InvalidatedEntries
<1>5. shared'.value \in { shared.value, Nothing }
  BY DEF SubscriberStep, Receive, ReceiverDeletes, DeletesShared, KeepsShared, NoEntry
<1>6. QED
  BY <1>1, <1>2, <1>4, <1>5, ClockTypes, OthersCalm

LEMMA TimeCalm ==
  ASSUME CalmInv, Tick
  PROVE  TruthsHold' /\ IdleHolds' /\ CalmsHold'
<1>1. \A e : Older(e).value \in { e.value, Nothing }
  BY DEF Older, NoEntry
<1>2. UNCHANGED << inflight, call, reader, guild >> /\ calm' = {}
  BY DEF Tick, TimePasses
<1>3. clock' \in Nat /\ clock <= clock'
  BY DEF Tick, CalmInv, Inv, RowsHold, Clocks
<1>4. \A q \in Processes : local'[q].value \in { local[q].value, Nothing }
  BY <1>1 DEF Tick, TimePasses
<1>5. shared'.value \in { shared.value, Nothing }
  BY <1>1 DEF Tick, TimePasses
<1>6. QED
  BY <1>2, <1>3, <1>4, <1>5, OthersCalm

LEMMA LossCalm ==
  ASSUME CalmInv, NEW p \in Processes, Loses(p) \/ Dies(p)
  PROVE  TruthsHold' /\ IdleHolds' /\ CalmsHold'
<1>0. Inv
  BY DEF CalmInv
<1>1. CASE Loses(p)
  <2>1. UNCHANGED << inflight, call, reader, guild, clock, shared >> /\ calm' = {}
    BY <1>1 DEF Loses, Evict
  <2>2. \A q \in Processes : local'[q].value \in { local[q].value, Nothing }
    BY <1>0, <1>1, InvalidatedEntries DEF Loses, Evict
  <2>3. QED
    BY <1>0, <2>1, <2>2, ClockTypes, OthersCalm
<1>2. CASE Dies(p)
  <2>1. UNCHANGED << shared, guild, clock >> /\ calm' = {}
    BY <1>2 DEF Dies, Restart
  <2>2. \A q \in Processes : local'[q].value \in { local[q].value, Nothing }
    BY <1>0, <1>2, InvalidatedEntries DEF Dies, Restart
  <2>3. \A r \in Readers : call'[r] = (IF ProcessOf[r] = p THEN NoCall ELSE call[r])
    BY <1>2 DEF Dies, Restart
  <2>4. \A q \in Processes : inflight'[q] = (IF q = p THEN NoLoad ELSE inflight[q])
    BY <1>2 DEF Dies, Restart, CalmInv, Inv, LoadsHold
  <2>5. TruthsHold'
    BY <2>1, <2>2, <2>3, <2>4, NothingIsTruthful DEF CalmInv, TruthsHold, Loaded, NoCall, NoLoad
  <2>6. IdleHolds'
    BY <1>2, <2>3 DEF Dies, CalmInv, IdleHolds, NoCall
  <2>7. CalmsHold'
    BY <2>1 DEF CalmsHold
  <2>8. QED
    BY <2>5, <2>6, <2>7
<1>3. QED
  BY <1>1, <1>2

LEMMA CalmStep == CalmInv /\ [Next]_vars => CalmInv'
<1> SUFFICES ASSUME CalmInv, [Next]_vars PROVE CalmInv'
  OBVIOUS
<1>1. Inv'
  BY StepHolds DEF CalmInv
<1>2. CASE \E r \in Readers : ReadVersion(r) \/ FirstLookup(r) \/ ReadStep(r)
  BY <1>1, <1>2, ReadVersionCalm, FirstLookupCalm, CacheStepCalm, FirstIsOutdatedCalm,
     SecondLookupCalm, ReturnCalm DEF ReadStep, CalmInv
<1>3. CASE \E p \in Processes : LoadStep(p)
  BY <1>1, <1>3, LoadTruths, LoadIdles, LoadCalms DEF CalmInv, CalmsHold
<1>4. CASE \E p \in Processes : Loses(p) \/ Dies(p)
  BY <1>1, <1>4, LossCalm DEF CalmInv
<1>5. CASE \E p \in Writers : Commit(p) \/ GrantPromotion(p) \/ RevokePromotion(p) \/ PublishStep(p)
  BY <1>1, <1>5, WritersCalm DEF CalmInv
<1>6. CASE \E s \in Subscribers : SubscriberStep(s)
  BY <1>1, <1>6, SubscribersCalm DEF CalmInv
<1>7. CASE Tick
  BY <1>1, <1>7, TimeCalm DEF CalmInv
<1>8. CASE UNCHANGED vars
  <2>1. TruthsHold' /\ IdleHolds'
    BY <1>8 DEF vars, cacheVars, serviceVars, CalmInv, TruthsHold, IdleHolds, Loaded
  <2>2. CalmsHold'
    BY <1>8 DEF vars, cacheVars, serviceVars, CalmInv, CalmsHold, CalmHolds, SecondHolds, Loaded,
                checked
  <2>3. QED
    BY <1>1, <2>1, <2>2 DEF CalmInv
<1>9. QED
  BY <1>2, <1>3, <1>4, <1>5, <1>6, <1>7, <1>8 DEF Next

\* Every entry, load, call and row has its type, and a cached snapshot is at least
\* as new as the version it carries (entitlements.ts:227-268).
THEOREM TypeCorrect == Spec => []TypeOK
<1>1. Spec => []Inv
  BY InitHolds, StepHolds, PTL DEF Spec
<1>2. QED
  BY <1>1, InvTypes, PTL

\* No read of the entitlements returns rows that are older than the version it has
\* found, with any number of processes, and whatever is lost, late or fails
\* (entitlements.ts:62-117).
THEOREM ReadsAreCurrent == Spec => []ReadIsCurrent
<1>1. Spec => []Inv
  BY InitHolds, StepHolds, PTL DEF Spec
<1>2. QED
  BY <1>1, InvReadsCurrent, PTL

\* A read that nothing disturbs returns exactly what the guild is entitled to,
\* whatever stale entries earlier failures left in the caches
\* (entitlements.ts:97-114).
THEOREM CalmReadsAreExact == Spec => []CalmReadIsExact
<1>1. Spec => []CalmInv
  BY CalmInit, CalmStep, PTL DEF Spec
<1>2. QED
  BY <1>1, CalmInvExact, PTL
===============================================================================
