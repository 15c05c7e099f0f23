-------------------------- MODULE ContractIndexer --------------------------
(***************************************************************************)
(* How a contract gets its interface: indexContract of                     *)
(* apps/indexer/src/contracts/contracts.service.ts,                        *)
(* identifyContractInterface of ethers/ethers.service.ts, the cache of     *)
(* interfaces of libs/database/lukso-structure, and the two jobs that call *)
(* indexContract.  The admin process inserts interfaces into the table and *)
(* never tells the indexer, whose cache expires after an hour.             *)
(*                                                                         *)
(* The jobs do not wait for the calls they start (promiseAllSettledPLimit  *)
(* is given promises), so their next round may start a second call for a   *)
(* contract.  A step is the code up to the next await that another call,   *)
(* or the admin process, can come between.                                 *)
(***************************************************************************)
EXTENDS Integers, Sequences

CONSTANTS
  Address, Interface,
  Copy,         \* bound: calls of indexContract under way for one contract
  Codes,        \* what a code matches: interfaces in the order they are tried
  NoCode,       \* an account's
  Unlisted,     \* interfaces whose assets are not refreshed: EOA, LSP6
  EOA,          \* eoaContractInterface, which is not in the table
  Null, Unknown,
  Interval,     \* CACHE_REFRESH_INTERVAL_IN_MS, in ticks
  MaxTime,      \* bound: ticks of the clock
  MaxFaults     \* bound: failed calls and crashes

ASSUME ContractsAssumption ==
  /\ Codes \subseteq Seq(Interface) \cup {NoCode}
  /\ NoCode \notin Seq(Interface)
  /\ EOA \in Unlisted /\ Unlisted \subseteq Interface \cup {EOA}
  /\ EOA # Null /\ EOA # Unknown /\ Null # Unknown
  /\ {EOA, Null, Unknown, "absent", "pending", ""} \cap Interface = {}
  /\ {EOA, Unknown} \cap {"absent", "pending", ""} = {}
  /\ Interval \in Nat \ {0} /\ MaxTime \in Nat /\ MaxFaults \in Nat

VARIABLES
  code,       \* the code of each address
  clock,
  added,      \* table contract_interface: when the row was committed, or Null
  cache,      \* the indexer's copy, and when it was refreshed
  contract,   \* table contract: absent, "pending" (NULL), Unknown or an interface
  call,       \* the local variables of each call of indexContract
  requested,  \* requested[a]: the interfaces a was asked to be refreshed with
  faults,
  asOf,       \* history: when the interfaces behind contract[a] were asked for
  failed,     \* history: contracts stored as unknown because a call failed
  dropped,    \* history: contracts stored by a call that did not get to its request
  passed      \* history: unknown contracts a round of updateContracts left out

history == <<asOf, failed, dropped, passed>>
vars == <<code, clock, added, cache, contract, call, requested, faults, history>>

Call == Address \X Copy
NoCall == [at |-> "idle", now |-> 0, known |-> {}, result |-> Null]
EmptyCache == [values |-> {}, lastRefresh |-> 0]

At(c, step) == call[c].at = step
GoTo(c, step) == call' = [call EXCEPT ![c].at = step]
Return(c) == call' = [call EXCEPT ![c] = NoCall]

Table == {i \in Interface : added[i] # Null}

(* The first interface that is tried and known.                            *)
FirstMatch(a, known) ==
  LET found == {k \in DOMAIN code[a] : code[a][k] \in known} IN
  IF found = {} THEN Null ELSE code[a][CHOOSE k \in found : \A j \in found : k <= j]

-----------------------------------------------------------------------------
Init ==
  /\ code \in [Address -> Codes]
  /\ clock = Interval
  /\ added = [i \in Interface |-> Null]
  /\ cache = EmptyCache
  /\ contract = [a \in Address |-> "absent"]
  /\ call = [c \in Call |-> NoCall]
  /\ requested = [a \in Address |-> {}]
  /\ faults = 0
  /\ asOf = [a \in Address |-> 0]
  /\ failed = {} /\ dropped = {} /\ passed = {}

Tick ==
  /\ clock < MaxTime
  /\ clock' = clock + 1
  /\ UNCHANGED <<code, added, cache, contract, call, requested, faults, history>>

(* The admin process inserts an interface; an id that is there already is  *)
(* an error that tryExecuting swallows.  Only its own cache is updated.    *)
InsertContractInterface(i) ==
  /\ added[i] = Null
  /\ added' = [added EXCEPT ![i] = clock]
  /\ UNCHANGED <<code, clock, cache, contract, call, requested, faults, history>>

(* A transaction or an event inserts the address, ON CONFLICT DO NOTHING.  *)
Discover(a) ==
  /\ contract[a] = "absent"
  /\ contract' = [contract EXCEPT ![a] = "pending"]
  /\ UNCHANGED <<code, clock, added, cache, call, requested, faults, history>>

(* processContractsToIndex finds a among the rows without an interface.    *)
ProcessContract(c) ==
  /\ At(c, "idle")
  /\ contract[c[1]] = "pending"
  /\ GoTo(c, "check")
  /\ UNCHANGED <<code, clock, added, cache, contract, requested, faults, history>>

(* A round of updateContracts calls indexContract for the rows whose       *)
(* interface is the empty string, which nothing stores.                    *)
UpdateContracts ==
  LET found == {a \in Address : contract[a] = ""} IN
  /\ call' = [c \in Call |->
                IF c[1] \in found /\ At(c, "idle") THEN [NoCall EXCEPT !.at = "check"] ELSE call[c]]
  /\ passed' = passed \cup {a \in Address \ found : contract[a] = Unknown}
  /\ UNCHANGED <<code, clock, added, cache, contract, requested, faults, asOf, failed, dropped>>

-----------------------------------------------------------------------------
(* indexContract.                                                          *)

(* if (await this.isContractIndexed(address)) return;                      *)
CheckIndexed(c) ==
  /\ At(c, "check")
  /\ IF contract[c[1]] = "pending" THEN GoTo(c, "code") ELSE Return(c)
  /\ UNCHANGED <<code, clock, added, cache, contract, requested, faults, history>>

(* getCode: an address without code is an EOA; for the rest the cache is   *)
(* asked, and the table when the cache is empty or too old.                *)
GetCode(c) ==
  /\ At(c, "code")
  /\ call' = [call EXCEPT ![c] =
       IF code[c[1]] = NoCode THEN [@ EXCEPT !.at = "insert", !.now = clock, !.result = EOA]
       ELSE IF cache.values = {} \/ clock - cache.lastRefresh >= Interval
       THEN [@ EXCEPT !.at = "query", !.now = clock]
       ELSE [@ EXCEPT !.at = "match", !.now = clock, !.known = cache.values]]
  /\ UNCHANGED <<code, clock, added, cache, contract, requested, faults, history>>

QueryInterfaces(c) ==
  /\ At(c, "query")
  /\ call' = [call EXCEPT ![c].at = "refresh", ![c].known = Table]
  /\ UNCHANGED <<code, clock, added, cache, contract, requested, faults, history>>

(* A regression: the cache is dated when the answer arrives.               *)
RefreshCacheAtEnd(c) ==
  /\ At(c, "refresh")
  /\ cache' = [values |-> call[c].known, lastRefresh |-> clock]
  /\ GoTo(c, "match")
  /\ UNCHANGED <<code, clock, added, contract, requested, faults, history>>

(* The cache is dated when it was asked for: an answer that took longer    *)
(* than a later one overwrites it with older rows and an older date.       *)
RefreshCache(c) ==
  /\ At(c, "refresh")
  /\ cache' = [values |-> call[c].known, lastRefresh |-> call[c].now]
  /\ GoTo(c, "match")
  /\ UNCHANGED <<code, clock, added, contract, requested, faults, history>>

(* The bytecode is searched for each interface, and supportsInterface is   *)
(* asked for each when none is found.                                      *)
MatchInterface(c) ==
  /\ At(c, "match")
  /\ call' = [call EXCEPT ![c].at = "insert", ![c].result = FirstMatch(c[1], call[c].known)]
  /\ UNCHANGED <<code, clock, added, cache, contract, requested, faults, history>>

(* A regression: a contract that is not identified is left for later.      *)
InsertOnlyIdentified(c) ==
  /\ At(c, "insert")
  /\ IF call[c].result = Null
     THEN UNCHANGED <<contract, asOf>>
     ELSE /\ contract' = [contract EXCEPT ![c[1]] = call[c].result]
          /\ asOf' = [asOf EXCEPT ![c[1]] = call[c].now]
  /\ GoTo(c, "request")
  /\ UNCHANGED <<code, clock, added, cache, requested, faults, failed, dropped, passed>>

(* A regression: no interface is stored as NULL.                           *)
InsertResult(c) ==
  /\ At(c, "insert")
  /\ contract' = [contract EXCEPT ![c[1]] = call[c].result]
  /\ asOf' = [asOf EXCEPT ![c[1]] = call[c].now]
  /\ GoTo(c, "request")
  /\ UNCHANGED <<code, clock, added, cache, requested, faults, failed, dropped, passed>>

(* insertOrUpdateContract writes over what another call has stored.        *)
InsertOrUpdateContract(c) ==
  /\ At(c, "insert")
  /\ contract' = [contract EXCEPT ![c[1]] =
                    IF call[c].result = Null THEN Unknown ELSE call[c].result]
  /\ asOf' = [asOf EXCEPT ![c[1]] = call[c].now]
  /\ GoTo(c, "request")
  /\ UNCHANGED <<code, clock, added, cache, requested, faults, failed, dropped, passed>>

(* A regression: the refresh is asked for with the interface of the row    *)
(* as this call had found it.                                              *)
RequestRefreshOfPending(c) ==
  /\ At(c, "request")
  /\ requested' = [requested EXCEPT ![c[1]] = @ \cup {Null}]
  /\ Return(c)
  /\ UNCHANGED <<code, clock, added, cache, contract, faults, history>>

RequestRefresh(c) ==
  /\ At(c, "request")
  /\ requested' = IF call[c].result \in Unlisted THEN requested
                  ELSE [requested EXCEPT ![c[1]] = @ \cup {call[c].result}]
  /\ Return(c)
  /\ UNCHANGED <<code, clock, added, cache, contract, faults, history>>

-----------------------------------------------------------------------------
(* Faults.                                                                 *)

(* A call fails while the interface is looked for: the handler of          *)
(* identifyContractInterface makes that no interface.                      *)
IdentificationFails(c) ==
  /\ call[c].at \in {"code", "query", "match"}
  /\ faults < MaxFaults
  /\ faults' = faults + 1
  /\ call' = [call EXCEPT ![c].at = "insert", ![c].now = clock, ![c].result = Null]
  /\ failed' = failed \cup {c[1]}
  /\ UNCHANGED <<code, clock, added, cache, contract, requested, asOf, dropped, passed>>

(* The indexer's process ends and starts again, with an empty cache.  Any  *)
(* other failure of a call does that: indexContract rethrows it, and no    *)
(* one handles the rejection of a promise the job does not wait for.       *)
Crash ==
  /\ faults < MaxFaults
  /\ faults' = faults + 1
  /\ call' = [c \in Call |-> NoCall]
  /\ cache' = EmptyCache
  /\ dropped' = dropped \cup {c[1] : c \in {d \in Call : At(d, "request")}}
  /\ UNCHANGED <<code, clock, added, contract, requested, asOf, failed, passed>>

-----------------------------------------------------------------------------
Step(c) ==
  \/ CheckIndexed(c) \/ GetCode(c) \/ QueryInterfaces(c) \/ RefreshCache(c)
  \/ MatchInterface(c) \/ InsertOrUpdateContract(c) \/ RequestRefresh(c)

Next ==
  \/ Tick
  \/ \E i \in Interface : InsertContractInterface(i)
  \/ \E a \in Address : Discover(a)
  \/ \E c \in Call : ProcessContract(c) \/ Step(c) \/ IdentificationFails(c)
  \/ UpdateContracts
  \/ Crash

(* Cron starts the rounds of processContractsToIndex, and what a call      *)
(* awaits settles.  Nothing has to be discovered, uploaded or to fail.     *)
Fairness ==
  /\ \A a \in Address : WF_vars(\E k \in Copy : ProcessContract(<<a, k>>))
  /\ \A c \in Call : WF_vars(Step(c))

Spec == Init /\ [][Next]_vars
FairSpec == Spec /\ Fairness

-----------------------------------------------------------------------------
(* Properties.                                                             *)

Stored(a) == contract[a] \notin {"absent", "pending"}

CallType ==
  [at : {"idle", "check", "code", "query", "refresh", "match", "insert", "request"},
   now : Nat, known : SUBSET Table, result : Interface \cup {Null, EOA}]

(* The tables, the cache and the local variables hold what the code can    *)
(* put there.                                                              *)
TypeOK ==
  /\ code \in [Address -> Codes]
  /\ clock \in Nat
  /\ added \in [Interface -> Nat \cup {Null}]
  /\ cache \in [values : SUBSET Table, lastRefresh : Nat]
  /\ contract \in [Address -> {"absent", "pending", Unknown, EOA} \cup Interface]
  /\ call \in [Call -> CallType]
  /\ requested \in [Address -> SUBSET (Interface \cup {Null})]
  /\ faults \in 0..MaxFaults
  /\ asOf \in [Address -> Nat]
  /\ failed \subseteq Address /\ dropped \subseteq Address /\ passed \subseteq Address

(* The cache is refreshed by whoever finds it old, and answers overtake    *)
(* each other.  Still no contract is stored as unknown, or with an         *)
(* interface tried later, for want of one that was in the table an         *)
(* interval before the contract was looked at, unless a call failed.       *)
StaleOnlyWithinInterval ==
  \A a \in Address \ failed : Stored(a) /\ contract[a] # EOA =>
    \A k \in DOMAIN code[a] :
      LET i == code[a][k] IN
      added[i] # Null /\ added[i] <= asOf[a] - Interval
        => \E j \in 1..k : contract[a] = code[a][j]

(* The row is written before the refresh is asked for.  With whatever      *)
(* interface the last of several calls has left in the row, the contract's *)
(* metadata is asked for with that interface, or its call is still about   *)
(* to: only a failure or a crash in between loses it, for good.            *)
StoredIsRequested ==
  \A a \in Address \ dropped : Stored(a) /\ contract[a] \notin Unlisted =>
    LET asked == IF contract[a] = Unknown THEN Null ELSE contract[a] IN
    \/ asked \in requested[a]
    \/ \E k \in Copy : At(<<a, k>>, "request") /\ call[<<a, k>>].result = asked

(* A contract that is discovered is stored with an interface or as         *)
(* unknown, through failures and crashes: until then a round finds it.     *)
DiscoveredIsStored == \A a \in Address : contract[a] = "pending" ~> Stored(a)

(* update.service.ts:40, "Try to identify contracts from our database that *)
(* were not identified, and to update them": no round of updateContracts   *)
(* leaves a contract out that is stored as unknown.  TLC refutes it: the   *)
(* query asks for the empty string.                                        *)
UnidentifiedAreRetried == passed = {}
=============================================================================
