--------------------------- MODULE DistributedCache ---------------------------
(***************************************************************************)
(* The read-through cache of packages/cache for one key: an entry in every *)
(* process, an entry in Redis, one load in flight per process, and the     *)
(* invalidations that writers publish.  What is loaded, and by whom, is    *)
(* the matter of the module that extends this one.                         *)
(*                                                                         *)
(* Every await is a boundary between steps.  Redis may fail in every one   *)
(* of its commands; the code swallows the error and goes on.               *)
(***************************************************************************)
EXTENDS Naturals, FiniteSets

CONSTANTS
  Processes,     \* processes that hold a cache: bot, API, dashboard, worker
  Subscribers,   \* those that subscribe to invalidations: the bot
  Readers,       \* calls of getOrLoad that run at a time
  ProcessOf,     \* the process each of them runs in
  LocalTtl,      \* lifetime of a process's entry, in ticks
  RedisTtl,      \* lifetime of the entry in Redis, in ticks
  MaxMessages    \* bound: messages under way to a subscriber

ASSUME CacheAssumption ==
  /\ Subscribers \subseteq Processes
  /\ ProcessOf \in [ Readers -> Processes ]
  /\ LocalTtl \in Nat \ { 0 }
  /\ RedisTtl \in Nat \ { 0 }
  /\ MaxMessages \in Nat

VARIABLES
  local,       \* a process's entry, with the time it has left
  shared,      \* the entry in Redis, with the time it has left
  inflight,    \* a process's load, which its readers share
  call,        \* what a reader's getOrLoad is doing
  publishing,  \* how far a process's publish is
  announced,   \* messages under way to a subscriber
  deleting     \* invalidations of a subscriber that have not reached Redis

cacheVars == << local, shared, inflight, call, publishing, announced, deleting >>

Nothing   == [ version |-> 0 ]
NoEntry   == [ value |-> Nothing, ttl |-> 0 ]
NoLoad    == [ at |-> "none", value |-> Nothing, began |-> 0 ]
NoCall    == [ at |-> "idle", value |-> Nothing ]
LoadSteps == { "none", "load", "records", "loaded", "store" }
CallSteps == { "idle", "get", "take", "wait", "got", "threw" }
Publish   == { "idle", "local", "redis", "announce" }

\* The types, for the values that are cached and the times at which loads
\* begin.  Whoever waits for a load waits for one that is in flight.
CacheTypeOK(Values, Times) ==
  /\ local \in [ Processes -> [ value : Values \cup { Nothing }, ttl : 0 .. LocalTtl ] ]
  /\ shared \in [ value : Values \cup { Nothing }, ttl : 0 .. RedisTtl ]
  /\ inflight \in [ Processes ->
       [ at : LoadSteps, value : Values \cup { Nothing }, began : Times ] ]
  /\ call \in [ Readers -> [ at : CallSteps, value : Values \cup { Nothing } ] ]
  /\ publishing \in [ Processes -> Publish ]
  /\ announced \in [ Subscribers -> 0 .. MaxMessages ]
  /\ deleting \in [ Subscribers -> 0 .. MaxMessages ]
  /\ \A r \in Readers : call[r].at = "wait" => inflight[ProcessOf[r]].at # "none"

CacheInit ==
  /\ local = [ p \in Processes |-> NoEntry ]
  /\ shared = NoEntry
  /\ inflight = [ p \in Processes |-> NoLoad ]
  /\ call = [ r \in Readers |-> NoCall ]
  /\ publishing = [ p \in Processes |-> "idle" ]
  /\ announced = [ p \in Subscribers |-> 0 ]
  /\ deleting = [ p \in Subscribers |-> 0 ]

\* Redis executes the command, or it fails and nothing changes.
DeletesShared == shared' = NoEntry
KeepsShared   == UNCHANGED shared

-------------------------------------------------------------------------------
(***************************************************************************)
(* getOrLoad: the process's entry, Redis, the load that is in flight, and  *)
(* only then a load.                                                       *)
(***************************************************************************)
Lookup(r) ==
  LET value == local[ProcessOf[r]].value
  IN  call' = [ call EXCEPT ![r] =
        [ at |-> IF value = Nothing THEN "get" ELSE "got", value |-> value ] ]

\* Redis answers; the answer is under way to the process.
GetShared(r) ==
  /\ call[r].at = "get"
  /\ call' = [ call EXCEPT ![r] = [ at |-> "take", value |-> shared.value ] ]
  /\ UNCHANGED << local, shared, inflight, publishing, announced, deleting >>

\* A failure is handled like a miss.
GetFails(r) ==
  /\ call[r].at = "get"
  /\ call' = [ call EXCEPT ![r] = [ at |-> "take", value |-> Nothing ] ]
  /\ UNCHANGED << local, shared, inflight, publishing, announced, deleting >>

TakeShared(r) ==
  /\ call[r].at = "take"
  /\ call[r].value # Nothing
  /\ local' = [ local EXCEPT ![ProcessOf[r]] = [ value |-> call[r].value, ttl |-> LocalTtl ] ]
  /\ call' = [ call EXCEPT ![r] = [ at |-> "got", value |-> call[r].value ] ]
  /\ UNCHANGED << shared, inflight, publishing, announced, deleting >>

\* A miss: the reader waits for the load in flight, or begins one.
Miss(r, now) ==
  /\ call[r].at = "take"
  /\ call[r].value = Nothing
  /\ call' = [ call EXCEPT ![r] = [ at |-> "wait", value |-> Nothing ] ]
  /\ inflight' =
       IF inflight[ProcessOf[r]].at # "none" THEN inflight
       ELSE [ inflight EXCEPT ![ProcessOf[r]] =
                [ at |-> "load", value |-> Nothing, began |-> now ] ]
  /\ UNCHANGED << local, shared, publishing, announced, deleting >>

Waiting(p) == { r \in Readers : ProcessOf[r] = p /\ call[r].at = "wait" }

\* (mutant) a rejection does not reach the calls that share the load.
AnsweredOnSuccess(p, answer) ==
  [ r \in Readers |-> IF r \in Waiting(p) /\ answer.at = "got" THEN answer ELSE call[r] ]

\* All who wait for a process's load are answered.
Answered(p, answer) ==
  [ r \in Readers |-> IF r \in Waiting(p) THEN answer ELSE call[r] ]

\* A step of the load itself, to the given step with the given value.
Loads(p, from, to, value, began) ==
  /\ inflight[p].at = from
  /\ inflight' = [ inflight EXCEPT ![p] = [ at |-> to, value |-> value, began |-> began ] ]
  /\ UNCHANGED << local, shared, call, publishing, announced, deleting >>

LoadFails(p) ==
  /\ inflight[p].at \in { "load", "records" }
  /\ inflight' = [ inflight EXCEPT ![p] = NoLoad ]
  /\ call' = Answered(p, [ at |-> "threw", value |-> Nothing ])
  /\ UNCHANGED << local, shared, publishing, announced, deleting >>

\* The value is back: the process keeps it, whatever was invalidated meanwhile.
KeepLoaded(p) ==
  /\ inflight[p].at = "loaded"
  /\ local' = [ local EXCEPT ![p] = [ value |-> inflight[p].value, ttl |-> LocalTtl ] ]
  /\ inflight' = [ inflight EXCEPT ![p] =
       [ at |-> "store", value |-> inflight[p].value, began |-> 0 ] ]
  /\ UNCHANGED << shared, call, publishing, announced, deleting >>

\* It is stored in Redis, unless that fails, and the readers have their answer.
StoreLoaded(p) ==
  /\ inflight[p].at = "store"
  /\ \/ shared' = [ value |-> inflight[p].value, ttl |-> RedisTtl ]
     \/ KeepsShared
  /\ call' = Answered(p, [ at |-> "got", value |-> inflight[p].value ])
  /\ inflight' = [ inflight EXCEPT ![p] = NoLoad ]
  /\ UNCHANGED << local, publishing, announced, deleting >>

-------------------------------------------------------------------------------
(***************************************************************************)
(* invalidate and publish, after a commit; one publish of a process at a   *)
(* time (bound).                                                           *)
(***************************************************************************)
InvalidatesLocally(p) == local' = [ local EXCEPT ![p] = NoEntry ]

PublishLocal(p) ==
  /\ publishing[p] = "local"
  /\ InvalidatesLocally(p)
  /\ publishing' = [ publishing EXCEPT ![p] = "redis" ]
  /\ UNCHANGED << shared, inflight, call, announced, deleting >>

PublishRedis(p) ==
  /\ publishing[p] = "redis"
  /\ DeletesShared \/ KeepsShared
  /\ publishing' = [ publishing EXCEPT ![p] = "announce" ]
  /\ UNCHANGED << local, inflight, call, announced, deleting >>

\* Redis hands the message to whoever is connected at that moment.
Announce(p) ==
  /\ publishing[p] = "announce"
  /\ publishing' = [ publishing EXCEPT ![p] = "idle" ]
  /\ \E reached \in SUBSET Subscribers :
       /\ \A s \in reached : announced[s] < MaxMessages
       /\ announced' =
            [ s \in Subscribers |-> IF s \in reached THEN announced[s] + 1 ELSE announced[s] ]
  /\ UNCHANGED << local, shared, inflight, call, deleting >>

Receive(s) ==
  /\ announced[s] > 0
  /\ deleting[s] < MaxMessages
  /\ announced' = [ announced EXCEPT ![s] = announced[s] - 1 ]
  /\ InvalidatesLocally(s)
  /\ deleting' = [ deleting EXCEPT ![s] = deleting[s] + 1 ]
  /\ UNCHANGED << shared, inflight, call, publishing >>

ReceiverDeletes(s) ==
  /\ deleting[s] > 0
  /\ deleting' = [ deleting EXCEPT ![s] = deleting[s] - 1 ]
  /\ DeletesShared \/ KeepsShared
  /\ UNCHANGED << local, inflight, call, publishing, announced >>

-------------------------------------------------------------------------------
(***************************************************************************)
(* Time, the limit of a process's map, and restarts.                       *)
(***************************************************************************)

\* (mutant) entries are stored without an expiry
Forever(entry) == entry

Older(entry) ==
  IF entry.ttl <= 1 THEN NoEntry ELSE [ value |-> entry.value, ttl |-> entry.ttl - 1 ]

TimePasses ==
  /\ local' = [ p \in Processes |-> Older(local[p]) ]
  /\ shared' = Older(shared)
  /\ UNCHANGED << inflight, call, publishing, announced, deleting >>

\* Entries of other keys push this one out of a process's full map.
Evict(p) ==
  /\ local[p] # NoEntry
  /\ InvalidatesLocally(p)
  /\ UNCHANGED << shared, inflight, call, publishing, announced, deleting >>

\* A process dies, and its successor starts with an empty map.
Restart(p) ==
  /\ InvalidatesLocally(p)
  /\ inflight' = [ inflight EXCEPT ![p] = NoLoad ]
  /\ call' = [ r \in Readers |-> IF ProcessOf[r] = p THEN NoCall ELSE call[r] ]
  /\ publishing' = [ publishing EXCEPT ![p] = "idle" ]
  /\ announced' = [ s \in Subscribers |-> IF s = p THEN 0 ELSE announced[s] ]
  /\ deleting' = [ s \in Subscribers |-> IF s = p THEN 0 ELSE deleting[s] ]
  /\ UNCHANGED shared
===============================================================================
