---------------------------- MODULE EventIndexer ----------------------------
(***************************************************************************)
(* apps/indexer/src/events/events.service.ts: indexEvent, the standards it *)
(* routes an event to (standards/lsp7, erc20, lsp8, erc725), the job that  *)
(* decodes token ids (tokens/tokens.service.ts) and the tables they write. *)
(*                                                                         *)
(* A worker is one call of indexEvent; the indexer starts one for every    *)
(* log of a block at once, and hands a block out again when its run failed *)
(* or after a crash.  Each action is the code up to the next awaited call  *)
(* that reads or writes what another worker writes or reads; the chain is  *)
(* read at its latest block.                                               *)
(*                                                                         *)
(* The logs are the positions of chain, in the order of the chain.  The    *)
(* balance of a holder is the set of the transfers it took part in: two    *)
(* balances are told apart by what happened before they were read.         *)
(***************************************************************************)
EXTENDS Integers, Sequences, FiniteSets, Functions

CONSTANTS
  Worker,       \* calls of indexEvent
  Job,          \* bound: calls of indexToken under way
  Address, Holder, TokenId,
  Null,
  Chains,       \* the chains considered: sequences of logs
  EmptyId,      \* token ids that decode to the empty string
  MaxLaunches,  \* bound: calls of indexEvent for one log
  MaxFaults     \* bound: failed calls and crashes

Topic == {"DataChanged", "LSP8", "LSP7", "other"}   \* ERC20: handled as LSP7

(* What a data key makes the indexer refresh; "none": any other key.       *)
DataKey == {"contract", "token", "tokens", "none"}

(* abi: the structure database knows the event and its parameters decode;  *)
(* fits: they fit the columns; wide: the new balance of the recipient does *)
(* not fit balanceInWei, VARCHAR(26).                                      *)
LogRecord ==
  [topic: Topic, address: Address, block: Nat, from: Holder, to: Holder,
   token: TokenId, key: DataKey, abi: BOOLEAN, fits: BOOLEAN, wide: BOOLEAN]

ASSUME EventsAssumption ==
  /\ Chains \subseteq Seq(LogRecord)
  /\ Null \notin Address \cup Holder \cup TokenId
  /\ Null \notin [address : Address, owner : Holder, decoded : BOOLEAN]   \* no row
  /\ Null \notin [balance : SUBSET Nat, since : Nat]
  /\ EmptyId \subseteq TokenId
  /\ MaxLaunches \in Nat /\ MaxFaults \in Nat

VARIABLES
  chain, head,  \* the logs, and the latest block of the node
  event, eventParameter,   \* tables, by log
  contract,     \* table contract: addresses
  holder,       \* table token_holder, by <<address, holder>>
  token,        \* table contract_token, by token id
  dataChanged,  \* table erc725y_data_changed: the logs whose value is stored
  requested,    \* requested[<<a, t>>]: latest block at a request to refresh, or -1
  sending,      \* <<l, t>>: requests to refresh t for log l that nobody waits for
  worker,       \* the local variables of each call of indexEvent
  job,          \* the local variables of each call of indexToken
  launched, faults,
  applied,      \* history: logs whose worker came to its end
  faulted,      \* history: logs whose worker met a fault after its insert
  written,      \* history: <<l, p>>, the balance of p was written for log l
  overlapped,   \* history: holders whose balance two workers had read at once
  moved,        \* history: LSP8 transfers whose owner was written
  disordered,   \* history: tokens whose owner was written out of order
  overtaken,    \* history: calls of indexToken whose token was transferred meanwhile
  undelivered,  \* history: tokens the job dropped without a request
  dropped       \* history: requests under way when the process ended

chainVars == <<chain, head>>
rows == <<event, eventParameter, contract>>
requests == <<requested, sending>>
effects == <<holder, token, dataChanged, requests>>
counters == <<launched, faults>>
balanceHistory == <<written, overlapped>>
tokenHistory == <<moved, disordered, overtaken, undelivered, dropped>>
history == <<applied, faulted, balanceHistory, tokenHistory>>
vars == <<chainVars, rows, effects, worker, job, counters, history>>

Log == DOMAIN chain
Pair == Address \X Holder
Asset == Address \X (TokenId \cup {Null})

Idle == [at |-> "idle", log |-> 0, side |-> "from", balance |-> {}]
NoJob == [at |-> "idle", token |-> Null, owner |-> Null]

At(w, step) == worker[w].at = step
LogOf(w) == chain[worker[w].log]
GoTo(w, step) == worker' = [worker EXCEPT ![w].at = step]
Return(w) == worker' = [worker EXCEPT ![w] = Idle]

(* A worker that has inserted the row of its event.                        *)
Owning(w) == worker[w].at \notin {"idle", "check", "row"}
Owned(l) == \E w \in Worker : Owning(w) /\ worker[w].log = l

(* The holder whose balance a worker is updating.                          *)
PairOf(w) == <<LogOf(w).address, IF worker[w].side = "from" THEN LogOf(w).from ELSE LogOf(w).to>>

(* A worker that has read a balance and not written it.                    *)
Carrying(w) == worker[w].at \in {"insert", "update"}

Touches(l, p) ==
  /\ chain[l].topic = "LSP7"
  /\ chain[l].address = p[1]
  /\ p[2] \in {chain[l].from, chain[l].to}

(* balanceOf at block b.                                                   *)
BalanceAt(p, b) == {l \in Log : Touches(l, p) /\ chain[l].block <= b}

(* Whether a balance is too long for its column: it is the one left by a   *)
(* wide transfer to the holder.                                            *)
TooWide(p, balance) ==
  \E l \in balance : /\ chain[l].wide /\ chain[l].to = p[2]
                     /\ \A k \in balance : k <= l

-----------------------------------------------------------------------------
Init ==
  /\ chain \in Chains
  /\ head = 0
  /\ event = {} /\ eventParameter = {} /\ contract = {}
  /\ holder = [p \in Pair |-> Null]
  /\ token = [t \in TokenId |-> Null]
  /\ dataChanged = {}
  /\ requested = [a \in Asset |-> -1] /\ sending = {}
  /\ worker = [w \in Worker |-> Idle]
  /\ job = [j \in Job |-> NoJob]
  /\ launched = [l \in Log |-> 0]
  /\ faults = 0
  /\ applied = {} /\ faulted = {}
  /\ written = {} /\ overlapped = {}
  /\ moved = {} /\ disordered = {} /\ overtaken = {}
  /\ undelivered = {} /\ dropped = {}

(* A block with logs is added to the chain.                                *)
Mine ==
  /\ \E l \in Log : chain[l].block > head
  /\ head' = head + 1
  /\ UNCHANGED <<chain, rows, effects, worker, job, counters, history>>

(* indexEvent(log) is called, for a log of a block the node has.           *)
Launch(w, l) ==
  /\ At(w, "idle")
  /\ chain[l].block <= head
  /\ launched[l] < MaxLaunches
  /\ launched' = [launched EXCEPT ![l] = @ + 1]
  /\ worker' = [worker EXCEPT ![w] = [Idle EXCEPT !.at = "check", !.log = l]]
  /\ UNCHANGED <<chainVars, rows, effects, job, faults, history>>

(* if (await this.eventAlreadyIndexed(logId, log)) return;                 *)
CheckIndexed(w) ==
  /\ At(w, "check")
  /\ IF worker[w].log \in event THEN Return(w) ELSE GoTo(w, "row")
  /\ UNCHANGED <<chainVars, rows, effects, job, counters, history>>

(* A regression: the row of an event is left to be written at its end.     *)
InsertEventLater(w) ==
  /\ At(w, "row")
  /\ GoTo(w, "contract")
  /\ UNCHANGED <<chainVars, rows, effects, job, counters, history>>

(* A regression: inserting the event with ON CONFLICT DO NOTHING.          *)
InsertEventQuietly(w) ==
  /\ At(w, "row")
  /\ event' = event \cup {worker[w].log}
  /\ GoTo(w, "contract")
  /\ UNCHANGED <<chainVars, eventParameter, contract, effects, job, counters, history>>

(* insertEvent: an id that is there already throws, and the handler of     *)
(* indexEvent ends the worker.                                             *)
InsertEvent(w) ==
  /\ At(w, "row")
  /\ IF worker[w].log \in event
     THEN Return(w) /\ UNCHANGED event
     ELSE GoTo(w, "contract") /\ event' = event \cup {worker[w].log}
  /\ UNCHANGED <<chainVars, eventParameter, contract, effects, job, counters, history>>

(* A regression: the contract is left to the transaction that called it.   *)
InsertContractLater(w) ==
  /\ At(w, "contract")
  /\ GoTo(w, "params")
  /\ UNCHANGED <<chainVars, rows, effects, job, counters, history>>

InsertContract(w) ==
  /\ At(w, "contract")
  /\ contract' = contract \cup {LogOf(w).address}
  /\ GoTo(w, "params")
  /\ UNCHANGED <<chainVars, event, eventParameter, effects, job, counters, history>>

(* The worker is done with its event.                                      *)
Finish(w) ==
  /\ Return(w)
  /\ applied' = applied \cup {worker[w].log}

(* decodeLogParameters and insertEventParameters.  Without an interface no *)
(* parameter is decoded, and the standards that look for one throw;        *)
(* parameters longer than their columns are refused.  Nothing of the event *)
(* is applied then.                                                        *)
InsertParameters(w) ==
  LET l == LogOf(w) IN
  /\ At(w, "params")
  /\ IF l.abi /\ l.fits
     THEN /\ eventParameter' = eventParameter \cup {worker[w].log}
          /\ GoTo(w, "route")
     ELSE /\ UNCHANGED eventParameter
          /\ Return(w)
  /\ UNCHANGED <<chainVars, event, contract, effects, job, counters, history>>

(* routeEvent, by topic0.                                                  *)
RouteEvent(w) ==
  /\ At(w, "route")
  /\ IF LogOf(w).topic = "other"
     THEN Finish(w)
     ELSE /\ GoTo(w, CASE LogOf(w).topic = "LSP7" -> "read"
                       [] LogOf(w).topic = "LSP8" -> "token"
                       [] LogOf(w).topic = "DataChanged" -> "data")
          /\ UNCHANGED applied
  /\ UNCHANGED <<chainVars, rows, effects, job, counters,
                 faulted, balanceHistory, tokenHistory>>

-----------------------------------------------------------------------------
(* LSP7 and ERC20 transfers: updateBalance of the sender, then of the      *)
(* recipient, each under a handler of its own.                             *)

(* The side of the transfer a worker turns to next.                        *)
NextSide(w) ==
  IF worker[w].side = "from"
  THEN /\ worker' = [worker EXCEPT ![w].at = "read", ![w].side = "to", ![w].balance = {}]
       /\ UNCHANGED applied
  ELSE Finish(w)

(* A regression: balances read at the parent of the event's block.         *)
ReadBalanceOfParent(w) ==
  /\ At(w, "read")
  /\ worker' = [worker EXCEPT ![w].at = "insert",
                              ![w].balance = BalanceAt(PairOf(w), LogOf(w).block - 1)]
  /\ overlapped' = IF \E v \in Worker \ {w} : Carrying(v) /\ PairOf(v) = PairOf(w)
                   THEN overlapped \cup {PairOf(w)} ELSE overlapped
  /\ UNCHANGED <<chainVars, rows, effects, job, counters, applied, faulted,
                 written, tokenHistory>>

ReadBalance(w) ==
  /\ At(w, "read")
  /\ worker' = [worker EXCEPT ![w].at = "insert", ![w].balance = BalanceAt(PairOf(w), head)]
  /\ overlapped' = IF \E v \in Worker \ {w} : Carrying(v) /\ PairOf(v) = PairOf(w)
                   THEN overlapped \cup {PairOf(w)} ELSE overlapped
  /\ UNCHANGED <<chainVars, rows, effects, job, counters, applied, faulted,
                 written, tokenHistory>>

(* The row, or the column, of a holder's balance is written.               *)
WriteBalance(w, row) ==
  /\ holder' = [holder EXCEPT ![PairOf(w)] = row]
  /\ written' = written \cup {<<worker[w].log, PairOf(w)>>}
  /\ NextSide(w)

(* insertTokenHolder: INSERT; a row that is there already is updated by a  *)
(* second statement, and a balance that is too long is refused by either.  *)
(* An address without a contract row breaks the foreign key.               *)
InsertHolder(w) ==
  LET p == PairOf(w) IN
  /\ At(w, "insert")
  /\ IF TooWide(p, worker[w].balance) \/ p[1] \notin contract
     THEN NextSide(w) /\ UNCHANGED <<holder, written>>
     ELSE IF holder[p] = Null
     THEN WriteBalance(w, [balance |-> worker[w].balance, since |-> LogOf(w).block])
     ELSE GoTo(w, "update") /\ UNCHANGED <<holder, written, applied>>
  /\ UNCHANGED <<chainVars, rows, token, dataChanged, requests, job, counters,
                 faulted, overlapped, tokenHistory>>

(* UPDATE sets the balance alone.                                          *)
UpdateHolder(w) ==
  /\ At(w, "update")
  /\ WriteBalance(w, [holder[PairOf(w)] EXCEPT !.balance = worker[w].balance])
  /\ UNCHANGED <<chainVars, rows, token, dataChanged, requests, job, counters,
                 faulted, overlapped, tokenHistory>>

(* The calls of indexToken that hold the row of t as they read it.         *)
HoldersOf(t) == {j \in Job : job[j].token = t}

-----------------------------------------------------------------------------
(* LSP8 transfers.  insertContractToken sets the owner of a row that is    *)
(* there already and leaves its decodedTokenId alone.                      *)

(* A regression: the owner is written ON CONFLICT DO NOTHING.              *)
TokenTransferOnce(w) ==
  LET l == worker[w].log  t == LogOf(w).token IN
  /\ At(w, "token")
  /\ token' = [token EXCEPT ![t] =
       IF token[t] = Null
       THEN [address |-> LogOf(w).address, owner |-> LogOf(w).to, decoded |-> FALSE]
       ELSE @]
  /\ moved' = moved \cup {l}
  /\ disordered' = IF \E k \in moved : chain[k].token = t /\ k > l
                   THEN disordered \cup {t} ELSE disordered
  /\ overtaken' = overtaken \cup HoldersOf(t)
  /\ Finish(w)
  /\ UNCHANGED <<chainVars, rows, holder, dataChanged, requests, job, counters,
                 faulted, balanceHistory, undelivered, dropped>>

TokenTransfer(w) ==
  LET l == worker[w].log  t == LogOf(w).token IN
  /\ At(w, "token")
  /\ IF LogOf(w).address \in contract
     THEN /\ token' = [token EXCEPT ![t] =
               IF token[t] = Null
               THEN [address |-> LogOf(w).address, owner |-> LogOf(w).to, decoded |-> FALSE]
               ELSE [@ EXCEPT !.owner = LogOf(w).to]]
          /\ moved' = moved \cup {l}
          /\ disordered' = IF \E k \in moved : chain[k].token = t /\ k > l
                           THEN disordered \cup {t} ELSE disordered
          /\ overtaken' = overtaken \cup HoldersOf(t)
          /\ Finish(w)
     ELSE Return(w) /\ UNCHANGED <<token, moved, disordered, overtaken, applied>>
  /\ UNCHANGED <<chainVars, rows, holder, dataChanged, requests, job, counters,
                 faulted, balanceHistory, undelivered, dropped>>

-----------------------------------------------------------------------------
(* DataChanged events.                                                     *)

SameValueSlot(k, l) ==
  /\ chain[k].address = chain[l].address
  /\ chain[k].key = chain[l].key
  /\ chain[k].block = chain[l].block

TokensOf(a) == {t \in TokenId : token[t] # Null /\ token[t].address = a}

(* A regression: only tokens that are still to be decoded are refreshed.   *)
RefreshNewTokens(l) ==
  {t \in TokensOf(l.address) : ~token[t].decoded /\ (l.key = "token" => t = l.token)}

(* getContractTokens: the token the key names, or every token of the       *)
(* contract, as far as it is known now.                                    *)
TokensToRefresh(l) == {t \in TokensOf(l.address) : l.key = "token" => t = l.token}

(* indexDataChanged: a second value of a key in a block is a duplicate     *)
(* and ignored, but routed all the same by routeDataChanged.               *)
InsertDataChanged(w) ==
  LET l == worker[w].log IN
  /\ At(w, "data")
  /\ dataChanged' = IF \E k \in dataChanged : SameValueSlot(k, l)
                    THEN dataChanged ELSE dataChanged \cup {l}
  /\ IF LogOf(w).key = "none"
     THEN Finish(w)
     ELSE /\ GoTo(w, IF LogOf(w).key = "contract" THEN "refresh" ELSE "select")
          /\ UNCHANGED applied
  /\ UNCHANGED <<chainVars, rows, holder, token, requests, job, counters,
                 faulted, balanceHistory, tokenHistory>>

(* The contract is asked to be refreshed, and the answer awaited.          *)
RequestRefresh(w) ==
  /\ At(w, "refresh")
  /\ requested' = [requested EXCEPT ![<<LogOf(w).address, Null>>] = head]
  /\ Finish(w)
  /\ UNCHANGED <<chainVars, rows, holder, token, dataChanged, sending, job, counters,
                 faulted, balanceHistory, tokenHistory>>

(* processTokensMetadataChanges starts a request for every token and waits *)
(* for none of them (PLimit).  The limit it reads afterwards limits        *)
(* nothing, and a failure to read it leaves the requests on their way.     *)
SelectTokens(w) ==
  /\ At(w, "select")
  /\ sending' = sending \cup ({worker[w].log} \X TokensToRefresh(LogOf(w)))
  /\ Finish(w)
  /\ UNCHANGED <<chainVars, rows, holder, token, dataChanged, requested, job, counters,
                 faulted, balanceHistory, tokenHistory>>

(* One of these requests comes to its end.                                 *)
Arrive(l, t) ==
  /\ <<l, t>> \in sending
  /\ sending' = sending \ {<<l, t>>}
  /\ requested' = [requested EXCEPT ![<<chain[l].address, t>>] = head]
  /\ UNCHANGED <<chainVars, rows, holder, token, dataChanged, worker, job, counters, history>>

-----------------------------------------------------------------------------
(* processContractTokensToIndex and indexToken.  A row without a decoded   *)
(* id is read, and written back whole after two calls.  The job does not   *)
(* wait for indexToken, so its next round may list a row again.            *)

IndexToken(j, t) ==
  /\ job[j].at = "idle"
  /\ token[t] # Null
  /\ ~token[t].decoded
  /\ job' = [job EXCEPT ![j] = [at |-> "write", token |-> t, owner |-> token[t].owner]]
  /\ UNCHANGED <<chainVars, rows, effects, worker, counters, history>>

(* insertContractToken of the row that was read: an empty decodedTokenId   *)
(* is not written.                                                         *)
WriteBack(j, decoded) ==
  /\ token' = [token EXCEPT ![job[j].token].owner = job[j].owner,
                            ![job[j].token].decoded = @ \/ decoded]
  /\ disordered' = IF j \in overtaken THEN disordered \cup {job[j].token} ELSE disordered

StepJob(j, step) == job' = [job EXCEPT ![j].at = step]
EndJob(j) == job' = [job EXCEPT ![j] = NoJob] /\ overtaken' = overtaken \ {j}

(* The id was decoded.                                                     *)
WriteDecoded(j) ==
  /\ job[j].at = "write"
  /\ WriteBack(j, job[j].token \notin EmptyId)
  /\ StepJob(j, "request")
  /\ UNCHANGED <<chainVars, rows, holder, dataChanged, requests, worker, counters,
                 applied, faulted, balanceHistory, moved, overtaken, undelivered, dropped>>

RequestToken(j) ==
  /\ job[j].at = "request"
  /\ requested' = [requested EXCEPT ![<<token[job[j].token].address, job[j].token>>] = head]
  /\ EndJob(j)
  /\ UNCHANGED <<chainVars, rows, holder, token, dataChanged, sending, worker, counters,
                 applied, faulted, balanceHistory, moved, disordered, undelivered, dropped>>

(* The handler of indexToken, after any of its calls failed: the row is    *)
(* written once more as it was read, the raw id stands for the decoded     *)
(* one, and no refresh is asked for.                                       *)
WriteRaw(j) ==
  /\ job[j].at = "raw"
  /\ WriteBack(j, TRUE)
  /\ EndJob(j)
  /\ undelivered' = undelivered \cup {job[j].token}
  /\ UNCHANGED <<chainVars, rows, holder, dataChanged, requests, worker, counters,
                 applied, faulted, balanceHistory, moved, dropped>>

-----------------------------------------------------------------------------
(* Faults.                                                                 *)

(* A call of a worker fails: the handler of updateBalance goes on with the *)
(* other side, the handlers of the rest end the worker.                    *)
WorkerFails(w) ==
  /\ ~At(w, "idle")
  /\ faults < MaxFaults
  /\ faults' = faults + 1
  /\ faulted' = IF Owning(w) THEN faulted \cup {worker[w].log} ELSE faulted
  /\ IF worker[w].at \in {"read", "insert", "update"}
     THEN NextSide(w)
     ELSE Return(w) /\ UNCHANGED applied
  /\ UNCHANGED <<chainVars, rows, effects, job, launched, balanceHistory, tokenHistory>>

(* A call of indexToken fails: the request too, for it throws when Redis   *)
(* does.  Nothing catches a failure of the handler's own insert, nor one   *)
(* of a request nobody waits for: both end the process, as in Crash.       *)
JobFails(j) ==
  /\ job[j].at \in {"write", "request"}
  /\ faults < MaxFaults
  /\ faults' = faults + 1
  /\ StepJob(j, "raw")
  /\ UNCHANGED <<chainVars, rows, effects, worker, launched, history>>

(* The tokens with a decoded id that a call of indexToken is still to ask  *)
(* a refresh for.                                                          *)
Owed ==
  {t \in TokenId : /\ token[t] # Null /\ token[t].decoded
                   /\ \E j \in Job : job[j].at \in {"request", "raw"} /\ job[j].token = t}

(* The indexer's process ends and starts again.                            *)
Crash ==
  /\ faults < MaxFaults
  /\ faults' = faults + 1
  /\ worker' = [w \in Worker |-> Idle]
  /\ job' = [j \in Job |-> NoJob]
  /\ sending' = {}
  /\ faulted' = faulted \cup {l \in Log : Owned(l)}
  /\ overtaken' = {}
  /\ undelivered' = undelivered \cup Owed
  /\ dropped' = dropped \cup sending
  /\ UNCHANGED <<chainVars, rows, holder, token, dataChanged, requested, launched,
                 applied, balanceHistory, moved, disordered>>

-----------------------------------------------------------------------------
Step(w) ==
  \/ CheckIndexed(w) \/ InsertEvent(w) \/ InsertContract(w) \/ InsertParameters(w)
  \/ RouteEvent(w)
  \/ ReadBalance(w) \/ InsertHolder(w) \/ UpdateHolder(w)
  \/ TokenTransfer(w)
  \/ InsertDataChanged(w) \/ RequestRefresh(w) \/ SelectTokens(w)

Next ==
  \/ Mine
  \/ \E w \in Worker : \E l \in Log : Launch(w, l)
  \/ \E w \in Worker : Step(w) \/ WorkerFails(w)
  \/ \E l \in Log : \E t \in TokenId : Arrive(l, t)
  \/ \E j \in Job : \E t \in TokenId : IndexToken(j, t)
  \/ \E j \in Job : WriteDecoded(j) \/ RequestToken(j) \/ WriteRaw(j) \/ JobFails(j)
  \/ Crash

Spec == Init /\ [][Next]_vars
-----------------------------------------------------------------------------
(* Properties.                                                             *)

HolderRow == [balance : SUBSET Log, since : Nat]
TokenRow == [address : Address, owner : Holder, decoded : BOOLEAN]
Place ==
  {"idle", "check", "row", "contract", "params", "route", "read", "insert", "update",
   "token", "data", "select", "refresh"}
WorkerType ==
  [at : Place, log : Log \cup {0}, side : {"from", "to"}, balance : SUBSET Log]
JobType ==
  [at : {"idle", "write", "request", "raw"}, token : TokenId \cup {Null},
   owner : Holder \cup {Null}]

(* The tables and the local variables hold what their columns and the code *)
(* can put there.                                                          *)
TypeOK ==
  /\ chain \in Chains /\ head \in Nat
  /\ event \subseteq Log /\ eventParameter \subseteq event
  /\ contract \subseteq Address
  /\ holder \in [Pair -> HolderRow \cup {Null}]
  /\ token \in [TokenId -> TokenRow \cup {Null}]
  /\ dataChanged \subseteq Log
  /\ requested \in [Asset -> Nat \cup {-1}]
  /\ sending \subseteq Log \X TokenId
  /\ worker \in [Worker -> WorkerType]
  /\ job \in [Job -> JobType]
  /\ launched \in [Log -> Nat] /\ faults \in Nat

(* What the handlers of a topic leave in the tables for log l.             *)
Stored(l) ==
  CASE chain[l].topic = "LSP7" ->
         \A h \in {chain[l].from, chain[l].to} :
           \/ <<l, <<chain[l].address, h>>>> \in written
           \/ \E k \in Log : chain[k].wide /\ Touches(k, <<chain[l].address, h>>)
    [] chain[l].topic = "LSP8" -> token[chain[l].token] # Null
    [] chain[l].topic = "DataChanged" -> \E k \in dataChanged : SameValueSlot(k, l)
    [] chain[l].topic = "other" -> TRUE

(* The row of an event is written before everything else about it, and its *)
(* presence ends every later call.  So the rest must be there when the     *)
(* call that wrote it is over, unless a call of its own failed: no         *)
(* interleaving with another call, the token job or the chain loses it.    *)
RowMeansStored ==
  \A l \in event :
    ~Owned(l) /\ l \notin faulted /\ chain[l].abi /\ chain[l].fits
      => l \in eventParameter /\ Stored(l)

(* balanceOf is read, and the row is written by a later statement.  The    *)
(* row of a holder has every transfer up to the block of each event that   *)
(* wrote it, whatever the order of the events, unless two updates of that  *)
(* holder overlapped: nothing else makes a balance stale.                  *)
StaleBalanceOnlyByOverlap ==
  \A l \in Log, p \in Pair :
    <<l, p>> \in written /\ p \notin overlapped
      => holder[p] # Null /\ BalanceAt(p, chain[l].block) \subseteq holder[p].balance

(* The last known owner of a token is the recipient of the last transfer   *)
(* handled, unless a later transfer was written before an earlier one, or  *)
(* indexToken wrote back, after a transfer, the row it had read before it. *)
WrongOwnerOnlyByDisorder ==
  \A t \in TokenId :
    token[t] # Null /\ t \notin disordered =>
      \E l \in moved : /\ chain[l].token = t
                        /\ token[t].owner = chain[l].to
                        /\ \A k \in moved : chain[k].token = t => k <= l

(* What the change of log l is for.                                        *)
Targets(l) ==
  CASE chain[l].key = "contract" -> {Null}
    [] chain[l].key = "token" -> TokensOf(chain[l].address) \cap {chain[l].token}
    [] chain[l].key = "tokens" -> TokensOf(chain[l].address)
    [] chain[l].key = "none" -> {}

(* A change of the data of a collection is for its known tokens only, and  *)
(* a token becomes known at any moment; its requests go on after the call  *)
(* that started them.  Still every token is asked to be refreshed at the   *)
(* block of the change or later: by the change, whose request may still be *)
(* on its way, or by the job that decodes the id, which is still to come   *)
(* for a new token.  Only the end of the process loses one, and only a     *)
(* request that was on its way then.                                       *)
ChangesReachTheirTokens ==
  \A l \in applied :
    chain[l].topic = "DataChanged" /\ l \notin faulted =>
      \A t \in Targets(l) :
        \/ requested[<<chain[l].address, t>>] >= chain[l].block
        \/ <<l, t>> \in sending \cup dropped
        \/ t # Null /\ (~token[t].decoded \/ t \in undelivered \/ \E j \in Job : job[j].token = t)

(* Of OncePerEvent: the stage of a log.                                    *)
Stage(l) ==
  IF Owned(l) THEN "claimed"
  ELSE IF l \in applied THEN "applied"
  ELSE IF l \in event THEN "lost" ELSE "absent"

Promise == INSTANCE OncePerEvent WITH stage <- [l \in Log |-> Stage(l)]

(* However often and with however many calls at once a log is handed out,  *)
(* through faults and crashes, its effects are carried out at most once.   *)
AppliedOnce == Promise!Spec

(* docs/diagrams/database/lukso-indexing-data.md:72 has 78 characters for  *)
(* balanceInWei, which every balance fits: an event that was handled       *)
(* without a fault has the rows of both its holders written.  TLC refutes  *)
(* it: the column has 26.                                                  *)
EveryBalanceIsWritten ==
  \A l \in applied : chain[l].topic = "LSP7" /\ l \notin faulted =>
    \A h \in {chain[l].from, chain[l].to} : <<l, <<chain[l].address, h>>>> \in written
=============================================================================
