------------------------ MODULE ContractIndexer_proofs ------------------------
(***************************************************************************)
(* For every set of contracts, interfaces and calls: what a stale cache    *)
(* can do to a contract, and that no stored interface is left without its  *)
(* request.                                                                *)
(***************************************************************************)
EXTENDS ContractIndexer, WellFoundedInduction, TLAPS

-----------------------------------------------------------------------------
(* The order in which interfaces are tried.                                *)

LEMMA Least ==
  ASSUME NEW S, S \subseteq Nat, S # {}
  PROVE  \E x \in S : \A y \in S : x <= y
<1>1. PICK x \in S : \A y \in S : ~(<<y, x>> \in OpToRel(<, Nat))
  BY NatLessThanWellFounded, WFMin, Zenon
<1>2. \A y \in S : ~(y < x)
  BY <1>1, Zenon DEF OpToRel
<1>3. QED
  BY <1>2, SMT

(* FirstMatch is the interface at the first position that is known, if any.*)
LEMMA FirstMatchIsFirst ==
  ASSUME NEW a, code[a] \in Seq(Interface), NEW known
  PROVE  /\ FirstMatch(a, known) \in Interface \cup {Null}
         /\ \A k \in DOMAIN code[a] : code[a][k] \in known =>
              \E j \in 1..k : j \in DOMAIN code[a] /\ FirstMatch(a, known) = code[a][j]
<1> DEFINE found == {k \in DOMAIN code[a] : code[a][k] \in known}
<1>1. /\ DOMAIN code[a] = 1..Len(code[a]) /\ Len(code[a]) \in Nat
      /\ \A k \in DOMAIN code[a] : code[a][k] \in Interface
  OBVIOUS
<1>2. CASE found = {}
  BY <1>2 DEF FirstMatch
<1>3. CASE found # {}
  <2> DEFINE first == CHOOSE k \in found : \A j \in found : k <= j
  <2>1. found \subseteq Nat
    BY <1>1
  <2>2. \E k \in found : \A j \in found : k <= j
    BY <1>3, <2>1, Least
  <2>3. first \in found /\ \A j \in found : first <= j
    BY <2>2
  <2>4. FirstMatch(a, known) = code[a][first]
    BY <1>3 DEF FirstMatch
  <2> HIDE DEF first
  <2>5. \A k \in found : first \in 1..k
    BY <1>1, <2>3
  <2>6. QED
    BY <1>1, <2>3, <2>4, <2>5
<1>4. QED
  BY <1>2, <1>3

-----------------------------------------------------------------------------
(* The inductive invariant.                                                *)

(* Nothing is dated later than now.                                        *)
Past ==
  /\ cache.lastRefresh <= clock
  /\ \A c \in Call : call[c].now <= clock
  /\ \A a \in Address : asOf[a] <= clock
  /\ \A i \in Interface : added[i] # Null => added[i] <= clock

(* The cache has every interface that is older than its date, whichever    *)
(* answer came last.                                                       *)
CacheKnows ==
  \A i \in Interface : added[i] # Null /\ added[i] < cache.lastRefresh => i \in cache.values

(* What a call has read covers the table, up to its date or an interval    *)
(* before.                                                                 *)
CallKnows ==
  \A c \in Call : \A i \in Interface :
    added[i] # Null =>
      /\ At(c, "refresh") /\ added[i] < call[c].now => i \in call[c].known
      /\ At(c, "match") /\ added[i] <= call[c].now - Interval => i \in call[c].known

(* Accounts are told from contracts before interfaces are looked for.      *)
HasCode ==
  \A c \in Call :
    /\ call[c].at \in {"query", "refresh", "match"} => code[c[1]] # NoCode
    /\ At(c, "insert") /\ c[1] \notin failed /\ code[c[1]] = NoCode => call[c].result = EOA

(* result is no worse than the interfaces older than an interval at t.     *)
Fits(a, result, t) ==
  result # EOA => \A k \in DOMAIN code[a] :
    added[code[a][k]] # Null /\ added[code[a][k]] <= t - Interval
      => \E j \in 1..k : j \in DOMAIN code[a] /\ result = code[a][j]

ResultFits ==
  \A c \in Call : At(c, "insert") /\ c[1] \notin failed => Fits(c[1], call[c].result, call[c].now)

StoredFits ==
  \A a \in Address \ failed : Stored(a) => Fits(a, contract[a], asOf[a])

IInv ==
  /\ TypeOK
  /\ Past /\ CacheKnows /\ CallKnows /\ HasCode
  /\ ResultFits /\ StoredFits
  /\ StoredIsRequested

(* The distinct values of the columns.                                     *)
LEMMA Distinct ==
  /\ EOA # Null /\ EOA # Unknown /\ Null # Unknown
  /\ EOA \notin Interface /\ Null \notin Interface /\ Unknown \notin Interface
  /\ "absent" \notin Interface /\ "pending" \notin Interface /\ "" \notin Interface
  /\ EOA \notin {"absent", "pending", ""} /\ Unknown \notin {"absent", "pending", ""}
  BY ContractsAssumption

LEMMA CallRecord ==
  ASSUME TypeOK, NEW c \in Call
  PROVE  /\ c[1] \in Address /\ c[2] \in Copy /\ c = <<c[1], c[2]>>
         /\ code[c[1]] # NoCode => code[c[1]] \in Seq(Interface)
<1>1. c[1] \in Address /\ c[2] \in Copy /\ c = <<c[1], c[2]>>
  BY DEF Call
<1>2. code[c[1]] \in Codes
  BY <1>1 DEF TypeOK
<1>3. QED
  BY <1>1, <1>2, ContractsAssumption

LEMMA InitIInv == Init => IInv
<1> SUFFICES ASSUME Init PROVE IInv
  OBVIOUS
<1>1. TypeOK
  <2>1. NoCall \in CallType
    BY DEF NoCall, CallType
  <2>2. EmptyCache \in [values : SUBSET Table, lastRefresh : Nat]
    BY DEF EmptyCache
  <2>3. call \in [Call -> CallType]
    BY <2>1 DEF Init
  <2>4. Interval \in Nat /\ MaxFaults \in Nat
    BY ContractsAssumption
  <2>5. QED
    BY <2>2, <2>3, <2>4 DEF Init, TypeOK
<1>2. Past /\ CacheKnows /\ CallKnows /\ HasCode
  <2>1. Interval \in Nat
    BY ContractsAssumption
  <2>2. cache.lastRefresh = 0 /\ \A c \in Call : call[c].now = 0 /\ call[c].at = "idle"
    BY DEF Init, NoCall, EmptyCache
  <2>3. QED
    BY <2>1, <2>2 DEF Init, Past, CacheKnows, CallKnows, HasCode, At
<1>3. ResultFits /\ StoredFits /\ StoredIsRequested
  <2>1. \A c \in Call : call[c].at = "idle"
    BY DEF Init, NoCall
  <2>2. \A a \in Address : ~Stored(a)
    BY DEF Init, Stored
  <2>3. QED
    BY <2>1, <2>2 DEF ResultFits, StoredFits, StoredIsRequested, At
<1>4. QED
  BY <1>1, <1>2, <1>3 DEF IInv

(* updateContracts finds no row: none has the empty string.                *)
LEMMA UpdateContractsFindsNone ==
  ASSUME TypeOK, UpdateContracts
  PROVE  UNCHANGED <<code, clock, added, cache, contract, call, requested, faults, asOf, failed, dropped>>
<1>1. \A a \in Address : contract[a] # ""
  BY ContractsAssumption DEF TypeOK
<1>2. call' = [c \in Call |-> call[c]]
  BY <1>1, CallRecord DEF UpdateContracts
<1>3. call' = call
  BY <1>2 DEF TypeOK
<1>4. QED
  BY <1>3 DEF UpdateContracts

-----------------------------------------------------------------------------
(* Type correctness.                                                       *)

(* An interface that is added leaves everything else as it is typed.       *)
LEMMA TableGrows ==
  ASSUME Table \subseteq Table', call \in [Call -> CallType],
         cache \in [values : SUBSET Table, lastRefresh : Nat]
  PROVE  call \in [Call -> CallType'] /\ cache \in [values : SUBSET Table', lastRefresh : Nat]
<1>1. CallType \subseteq CallType'
  BY DEF CallType
<1>2. QED
  BY <1>1

LEMMA TypeStep == ASSUME TypeOK, HasCode, Next PROVE TypeOK'
<1>0. added' = added => Table' = Table /\ CallType' = CallType
  BY DEF Table, CallType
<1>a. MaxFaults \in Nat
  BY ContractsAssumption
<1>b. call \in [Call -> CallType] /\ clock \in Nat
  BY DEF TypeOK
<1>c. cache \in [values : SUBSET Table, lastRefresh : Nat]
  BY DEF TypeOK
<1> USE <1>0, <1>a
<1>1. CASE Tick
  BY <1>1 DEF Tick, TypeOK, history
<1>2. ASSUME NEW i \in Interface, InsertContractInterface(i) PROVE TypeOK'
  <2>1. Table \subseteq Table'
    BY <1>2 DEF InsertContractInterface, Table
  <2>2. call \in [Call -> CallType'] /\ cache \in [values : SUBSET Table', lastRefresh : Nat]
    BY <2>1, <1>b, <1>c, TableGrows
  <2>3. QED
    BY <1>2, <2>2 DEF InsertContractInterface, TypeOK, history
<1>3. ASSUME NEW a \in Address, Discover(a) PROVE TypeOK'
  BY <1>3 DEF Discover, TypeOK, history
<1>4. ASSUME NEW c \in Call, ProcessContract(c) PROVE TypeOK'
  <2>1. call' \in [Call -> CallType]
    BY <1>b, <1>4 DEF ProcessContract, GoTo, CallType
  <2>2. QED
    BY <1>4, <2>1 DEF ProcessContract, TypeOK, history
<1>5. CASE UpdateContracts
  <2>1. passed' \subseteq Address
    BY <1>5 DEF UpdateContracts, TypeOK
  <2>2. QED
    BY <1>5, <2>1, UpdateContractsFindsNone DEF TypeOK
<1>6. ASSUME NEW c \in Call, CheckIndexed(c) PROVE TypeOK'
  <2>1. call' \in [Call -> CallType]
    <3>1. NoCall \in CallType /\ [call[c] EXCEPT !.at = "code"] \in CallType
      BY <1>b DEF NoCall, CallType
    <3>2. QED
      BY <1>b, <1>6, <3>1 DEF CheckIndexed, GoTo, Return
  <2>2. QED
    BY <1>6, <2>1 DEF CheckIndexed, TypeOK, history
<1>7. ASSUME NEW c \in Call, GetCode(c) PROVE TypeOK'
  <2>1. call' \in [Call -> CallType]
    <3>1. /\ [call[c] EXCEPT !.at = "insert", !.now = clock, !.result = EOA] \in CallType
          /\ [call[c] EXCEPT !.at = "query", !.now = clock] \in CallType
          /\ [call[c] EXCEPT !.at = "match", !.now = clock, !.known = cache.values] \in CallType
      BY <1>b, <1>c DEF CallType
    <3>2. QED
      BY <1>b, <1>7, <3>1 DEF GetCode
  <2>2. QED
    BY <1>7, <2>1 DEF GetCode, TypeOK, history
<1>8. ASSUME NEW c \in Call, QueryInterfaces(c) PROVE TypeOK'
  <2>1. call' \in [Call -> CallType]
    <3>1. [call[c] EXCEPT !.at = "refresh", !.known = Table] \in CallType
      BY <1>b DEF CallType
    <3>2. QED
      BY <1>b, <1>8, <3>1 DEF QueryInterfaces
  <2>2. QED
    BY <1>8, <2>1 DEF QueryInterfaces, TypeOK, history
<1>9. ASSUME NEW c \in Call, RefreshCache(c) PROVE TypeOK'
  <2>1. call' \in [Call -> CallType]
    BY <1>b, <1>9 DEF RefreshCache, GoTo, CallType
  <2>2. cache' \in [values : SUBSET Table, lastRefresh : Nat]
    BY <1>b, <1>9 DEF RefreshCache, CallType
  <2>3. QED
    BY <1>9, <2>1, <2>2 DEF RefreshCache, TypeOK, history
<1>10. ASSUME NEW c \in Call, MatchInterface(c) PROVE TypeOK'
  <2>1. FirstMatch(c[1], call[c].known) \in Interface \cup {Null}
    BY <1>10, CallRecord, FirstMatchIsFirst DEF MatchInterface, HasCode, At
  <2>2. call' \in [Call -> CallType]
    <3>1. [call[c] EXCEPT !.at = "insert", !.result = FirstMatch(c[1], call[c].known)] \in CallType
      BY <1>b, <2>1 DEF CallType
    <3>2. QED
      BY <1>b, <1>10, <3>1 DEF MatchInterface
  <2>3. QED
    BY <1>10, <2>2 DEF MatchInterface, TypeOK, history
<1>11. ASSUME NEW c \in Call, InsertOrUpdateContract(c) PROVE TypeOK'
  <2>1. call' \in [Call -> CallType]
    BY <1>b, <1>11 DEF InsertOrUpdateContract, GoTo, CallType
  <2>2. call[c].now \in Nat /\ call[c].result \in Interface \cup {Null, EOA}
    BY <1>b DEF CallType
  <2>3. QED
    BY <1>11, <2>1, <2>2, CallRecord DEF InsertOrUpdateContract, TypeOK, history
<1>12. ASSUME NEW c \in Call, RequestRefresh(c) PROVE TypeOK'
  <2>1. call' \in [Call -> CallType]
    BY <1>b, <1>12 DEF RequestRefresh, Return, NoCall, CallType
  <2>2. call[c].result \in Unlisted \/ call[c].result \in Interface \cup {Null}
    BY <1>b, ContractsAssumption DEF CallType
  <2>3. QED
    BY <1>12, <2>1, <2>2, CallRecord DEF RequestRefresh, TypeOK, history
<1>13. ASSUME NEW c \in Call, IdentificationFails(c) PROVE TypeOK'
  <2>1. call' \in [Call -> CallType]
    <3>1. [call[c] EXCEPT !.at = "insert", !.now = clock, !.result = Null] \in CallType
      BY <1>b DEF CallType
    <3>2. QED
      BY <1>b, <1>13, <3>1 DEF IdentificationFails
  <2>2. QED
    BY <1>13, <2>1, CallRecord DEF IdentificationFails, TypeOK, history
<1>14. CASE Crash
  <2>1. dropped' \subseteq Address
    BY <1>14, CallRecord DEF Crash, TypeOK
  <2>2. call' \in [Call -> CallType] /\ cache' \in [values : SUBSET Table, lastRefresh : Nat]
    BY <1>14 DEF Crash, NoCall, EmptyCache, CallType
  <2>3. QED
    BY <1>14, <2>1, <2>2 DEF Crash, TypeOK, history
<1>15. QED
  BY <1>1, <1>2, <1>3, <1>4, <1>5, <1>6, <1>7, <1>8, <1>9, <1>10, <1>11, <1>12, <1>13, <1>14
     DEF Next, Step

-----------------------------------------------------------------------------
(* What a stale cache can do.                                              *)

(* The facts about the types that the steps need.                          *)
LEMMA Typed ==
  ASSUME TypeOK
  PROVE  /\ clock \in Nat /\ Interval \in Nat \ {0}
         /\ cache.lastRefresh \in Nat /\ cache.values \subseteq Table
         /\ \A c \in Call : /\ call[c].now \in Nat /\ call[c].known \subseteq Table
                            /\ call[c].result \in Interface \cup {Null, EOA}
                            /\ c[1] \in Address
         /\ \A a \in Address : asOf[a] \in Nat /\ code[a] \in Codes
         /\ \A i \in Interface : added[i] \in Nat \cup {Null}
<1>1. /\ call \in [Call -> CallType]
      /\ cache \in [values : SUBSET Table, lastRefresh : Nat]
  BY DEF TypeOK
<1>2. \A c \in Call : /\ call[c].now \in Nat /\ call[c].known \subseteq Table
                      /\ call[c].result \in Interface \cup {Null, EOA}
  BY <1>1 DEF CallType
<1>3. QED
  BY <1>1, <1>2, CallRecord, ContractsAssumption DEF TypeOK

(* Nothing that the staleness of the tables is about has changed.          *)
LEMMA StalenessUntouched ==
  ASSUME IInv, UNCHANGED <<code, clock, added, cache, contract, call, asOf, failed>>
  PROVE  Past' /\ CacheKnows' /\ CallKnows' /\ HasCode' /\ ResultFits' /\ StoredFits'
  BY DEF IInv, Past, CacheKnows, CallKnows, HasCode, ResultFits, StoredFits, Fits,
         Stored, At

(* A call that looks at nothing and stores nothing.                        *)
LEMMA CallsMoveOn ==
  ASSUME IInv, NEW c \in Call, UNCHANGED <<code, clock, added, cache, contract, asOf, failed>>,
         \A d \in Call \ {c} : call'[d] = call[d], call'[c].now \in {call[c].now, 0},
         call'[c].at \in {"idle", "check", "code", "request"}
  PROVE  Past' /\ CacheKnows' /\ CallKnows' /\ HasCode' /\ ResultFits' /\ StoredFits'
<1>1. clock \in Nat
  BY DEF IInv, TypeOK
<1>2. TypeOK /\ Past /\ CacheKnows /\ CallKnows /\ HasCode /\ ResultFits
  BY DEF IInv
<1>3. Past' /\ CacheKnows'
  BY <1>1, <1>2, Typed DEF Past, CacheKnows
<1>4. CallKnows' /\ HasCode' /\ ResultFits'
  BY <1>2 DEF CallKnows, HasCode, ResultFits, Fits, At
<1>5. StoredFits'
  BY DEF IInv, StoredFits, Fits, Stored
<1>6. QED
  BY <1>3, <1>4, <1>5

LEMMA StalenessStep ==
  ASSUME IInv, Next
  PROVE  Past' /\ CacheKnows' /\ CallKnows' /\ HasCode' /\ ResultFits' /\ StoredFits'
<1> DEFINE Goal == Past /\ CacheKnows /\ CallKnows /\ HasCode /\ ResultFits /\ StoredFits
<1>a. /\ call \in [Call -> CallType] /\ clock \in Nat /\ Interval \in Nat /\ Interval > 0
      /\ added \in [Interface -> Nat \cup {Null}] /\ asOf \in [Address -> Nat]
  <2>1. Interval \in Nat /\ Interval > 0
    BY Typed DEF IInv
  <2>2. QED
    BY <2>1 DEF IInv, TypeOK
<1>b. TypeOK /\ Past /\ CacheKnows /\ CallKnows /\ HasCode /\ ResultFits /\ StoredFits
  BY DEF IInv
<1>1. CASE Tick
  <2>1. Past'
    BY <1>1, <1>a, <1>b, Typed DEF Tick, Past, history
  <2>2. QED
    BY <1>1, <1>b, <2>1
       DEF Tick, history, CacheKnows, CallKnows, HasCode, ResultFits, StoredFits, Fits, Stored, At
<1>2. ASSUME NEW i \in Interface, InsertContractInterface(i) PROVE Goal'
  <2>1. /\ added' = [added EXCEPT ![i] = clock] /\ added[i] = Null
        /\ UNCHANGED <<code, clock, cache, contract, call, asOf, failed>>
    BY <1>2 DEF InsertContractInterface, history
  <2>2. \A x \in Interface : x # i => added'[x] = added[x]
    BY <2>1, <1>a
  <2>3. added'[i] = clock
    BY <2>1, <1>a
  <2>4. Past' /\ CacheKnows'
    BY <2>1, <2>2, <2>3, <1>b, <1>a, Typed DEF Past, CacheKnows
  <2>5. CallKnows'
    BY <2>1, <2>2, <2>3, <1>b, <1>a, Typed DEF Past, CallKnows, At
  <2>6. ASSUME NEW a \in Address, NEW result, NEW t \in Nat, t <= clock, Fits(a, result, t)
        PROVE  Fits(a, result, t)'
    <3>1. SUFFICES ASSUME result # EOA, NEW k \in DOMAIN code[a],
                          added'[code[a][k]] # Null, added'[code[a][k]] <= t - Interval
                   PROVE  \E j \in 1..k : j \in DOMAIN code[a] /\ result = code[a][j]
      BY <2>1 DEF Fits
    <3>2. code[a][k] # i
      BY <3>1, <2>3, <1>a, <2>6
    <3>3. added'[code[a][k]] = added[code[a][k]]
      BY <3>2, <2>1, <1>a
    <3>4. QED
      BY <3>1, <3>3, <2>6 DEF Fits
  <2>7. HasCode'
    BY <2>1, <1>b DEF HasCode, At
  <2>8. ResultFits'
    BY <2>1, <2>6, <1>b, Typed DEF ResultFits, Past, At
  <2>9. StoredFits'
    BY <2>1, <2>6, <1>b, Typed DEF StoredFits, Past, Stored
  <2>10. QED
    BY <2>4, <2>5, <2>7, <2>8, <2>9
<1>3. ASSUME NEW a \in Address, Discover(a) PROVE Goal'
  <2>1. /\ contract' = [contract EXCEPT ![a] = "pending"]
        /\ UNCHANGED <<code, clock, added, cache, call, asOf, failed>>
    BY <1>3 DEF Discover, history
  <2>2. StoredFits'
    BY <2>1, <1>b DEF StoredFits, Stored, Fits, TypeOK
  <2>3. QED
    BY <2>1, <2>2, <1>b DEF Past, CacheKnows, CallKnows, HasCode, ResultFits, Fits, At
<1>4. ASSUME NEW c \in Call, ProcessContract(c) PROVE Goal'
  <2>1. /\ UNCHANGED <<code, clock, added, cache, contract, asOf, failed>>
        /\ \A d \in Call \ {c} : call'[d] = call[d]
        /\ call'[c].now = call[c].now /\ call'[c].at = "check"
    BY <1>4, <1>a DEF ProcessContract, GoTo, history, CallType
  <2>2. QED
    BY <2>1, CallsMoveOn
<1>5. CASE UpdateContracts
  BY <1>5, <1>b, UpdateContractsFindsNone, StalenessUntouched
<1>6. ASSUME NEW c \in Call, CheckIndexed(c) PROVE Goal'
  <2>1. /\ UNCHANGED <<code, clock, added, cache, contract, asOf, failed>>
        /\ \A d \in Call \ {c} : call'[d] = call[d]
        /\ call'[c].now \in {call[c].now, 0} /\ call'[c].at \in {"code", "idle"}
    BY <1>6, <1>a DEF CheckIndexed, GoTo, Return, NoCall, history, CallType
  <2>2. QED
    BY <2>1, CallsMoveOn
<1>7. ASSUME NEW c \in Call, GetCode(c) PROVE Goal'
  <2>1. /\ UNCHANGED <<code, clock, added, cache, contract, asOf, failed>>
        /\ \A d \in Call \ {c} : call'[d] = call[d]
        /\ call'[c].now = clock
    BY <1>7, <1>a DEF GetCode, history, CallType
  <2>2. \/ At(c, "insert")' /\ call'[c].result = EOA
        \/ code[c[1]] # NoCode /\ At(c, "query")'
        \/ /\ code[c[1]] # NoCode /\ At(c, "match")' /\ call'[c].known = cache.values
           /\ clock - cache.lastRefresh < Interval
    BY <1>7, <1>a, Typed, <1>b DEF GetCode, At, CallType
  <2>3. Past' /\ CacheKnows'
    BY <2>1, <1>a, <1>b, Typed DEF Past, CacheKnows
  <2>4. ASSUME NEW x \in Interface, added'[x] # Null, At(c, "match")',
               added'[x] <= call'[c].now - Interval
        PROVE  x \in call'[c].known
    <3>1. added[x] \in Nat /\ added[x] <= clock - Interval
      BY <2>1, <2>4, <1>a
    <3>2. added[x] < cache.lastRefresh /\ call'[c].known = cache.values
      BY <3>1, <2>2, <2>4, <1>a, <1>b, Typed DEF At
    <3>3. QED
      BY <3>1, <3>2, <2>1, <2>4, <1>b DEF CacheKnows
  <2>5. CallKnows'
    BY <2>1, <2>2, <2>4, <1>b DEF CallKnows, At
  <2>6. HasCode' /\ ResultFits'
    BY <2>1, <2>2, <1>b DEF HasCode, ResultFits, Fits, At
  <2>7. StoredFits'
    BY <2>1, <1>b DEF StoredFits, Stored, Fits
  <2>8. QED
    BY <2>3, <2>5, <2>6, <2>7
<1>8. ASSUME NEW c \in Call, QueryInterfaces(c) PROVE Goal'
  <2>1. /\ UNCHANGED <<code, clock, added, cache, contract, asOf, failed>>
        /\ \A d \in Call \ {c} : call'[d] = call[d]
        /\ call'[c].now = call[c].now /\ At(c, "query") /\ At(c, "refresh")'
        /\ call'[c].known = Table
    BY <1>8, <1>a DEF QueryInterfaces, history, CallType, At
  <2>2. Past' /\ CacheKnows'
    BY <2>1, <1>b DEF Past, CacheKnows
  <2>3. CallKnows'
    BY <2>1, <1>b DEF CallKnows, At, Table
  <2>4. HasCode' /\ ResultFits' /\ StoredFits'
    BY <2>1, <1>b DEF HasCode, ResultFits, StoredFits, Stored, Fits, At
  <2>5. QED
    BY <2>2, <2>3, <2>4
<1>9. ASSUME NEW c \in Call, RefreshCache(c) PROVE Goal'
  <2>1. /\ UNCHANGED <<code, clock, added, contract, asOf, failed>>
        /\ \A d \in Call \ {c} : call'[d] = call[d]
        /\ call'[c].now = call[c].now /\ call'[c].known = call[c].known
        /\ At(c, "refresh") /\ At(c, "match")'
        /\ cache'.values = call[c].known /\ cache'.lastRefresh = call[c].now
    BY <1>9, <1>a DEF RefreshCache, GoTo, history, CallType, At
  <2>2. Past' /\ CacheKnows'
    BY <2>1, <1>b DEF Past, CacheKnows, CallKnows
  <2>3. \A x \in Interface : added[x] # Null /\ added[x] <= call[c].now - Interval
                               => added[x] < call[c].now
    BY <1>a, <1>b, Typed
  <2>4. CallKnows'
    BY <2>1, <2>3, <1>b DEF CallKnows, At
  <2>5. HasCode'
    BY <2>1, <1>b DEF HasCode, At
  <2>6. ResultFits' /\ StoredFits'
    BY <2>1, <1>b DEF ResultFits, StoredFits, Stored, Fits, At
  <2>7. QED
    BY <2>2, <2>4, <2>5, <2>6
<1>10. ASSUME NEW c \in Call, MatchInterface(c) PROVE Goal'
  <2>1. /\ UNCHANGED <<code, clock, added, cache, contract, asOf, failed>>
        /\ \A d \in Call \ {c} : call'[d] = call[d]
        /\ call'[c].now = call[c].now /\ At(c, "match") /\ At(c, "insert")'
        /\ call'[c].result = FirstMatch(c[1], call[c].known)
    BY <1>10, <1>a DEF MatchInterface, history, CallType, At
  <2>2. code[c[1]] \in Seq(Interface)
    BY <2>1, <1>b, CallRecord DEF HasCode, At
  <2>3. Fits(c[1], FirstMatch(c[1], call[c].known), call[c].now)
    <3>1. SUFFICES ASSUME NEW k \in DOMAIN code[c[1]], added[code[c[1]][k]] # Null,
                          added[code[c[1]][k]] <= call[c].now - Interval
                   PROVE  \E j \in 1..k : /\ j \in DOMAIN code[c[1]]
                                          /\ FirstMatch(c[1], call[c].known) = code[c[1]][j]
      BY DEF Fits
    <3>2. code[c[1]][k] \in Interface
      BY <2>2
    <3>3. code[c[1]][k] \in call[c].known
      BY <3>1, <3>2, <2>1, <1>b DEF CallKnows
    <3>4. QED
      BY <3>3, <2>2, FirstMatchIsFirst
  <2>4. Past' /\ CacheKnows' /\ CallKnows' /\ HasCode'
    BY <2>1, <1>b DEF Past, CacheKnows, CallKnows, HasCode, At
  <2>5. ResultFits' /\ StoredFits'
    BY <2>1, <2>3, <1>b DEF ResultFits, StoredFits, Stored, Fits, At
  <2>6. QED
    BY <2>4, <2>5
<1>11. ASSUME NEW c \in Call, InsertOrUpdateContract(c) PROVE Goal'
  <2>1. /\ UNCHANGED <<code, clock, added, cache, failed>>
        /\ \A d \in Call \ {c} : call'[d] = call[d]
        /\ call'[c].now = call[c].now /\ At(c, "insert") /\ At(c, "request")'
    BY <1>11, <1>a DEF InsertOrUpdateContract, GoTo, history, CallType, At
  <2>2. /\ \A a \in Address \ {c[1]} : contract'[a] = contract[a] /\ asOf'[a] = asOf[a]
        /\ contract'[c[1]] = IF call[c].result = Null THEN Unknown ELSE call[c].result
        /\ asOf'[c[1]] = call[c].now
    BY <1>11, <1>a, <1>b, CallRecord DEF InsertOrUpdateContract, TypeOK
  <2>3. Past' /\ CacheKnows' /\ CallKnows' /\ HasCode' /\ ResultFits'
    <3>1. Past'
      BY <2>1, <2>2, <1>b, CallRecord DEF Past
    <3>2. CacheKnows' /\ CallKnows' /\ HasCode' /\ ResultFits'
      BY <2>1, <1>b DEF CacheKnows, CallKnows, HasCode, ResultFits, Fits, At
    <3>3. QED
      BY <3>1, <3>2
  <2>4. ASSUME c[1] \notin failed PROVE Fits(c[1], contract'[c[1]], asOf'[c[1]])
    <3>1. Fits(c[1], call[c].result, call[c].now)
      BY <2>1, <2>4, <1>b DEF ResultFits
    <3>2. SUFFICES ASSUME contract'[c[1]] # EOA, NEW k \in DOMAIN code[c[1]],
                          added[code[c[1]][k]] # Null,
                          added[code[c[1]][k]] <= call[c].now - Interval
                   PROVE  \E j \in 1..k : j \in DOMAIN code[c[1]] /\ contract'[c[1]] = code[c[1]][j]
      BY <2>2 DEF Fits
    <3>3. call[c].result # EOA
      BY <3>2, <2>2, Distinct
    <3>4. PICK j \in 1..k : j \in DOMAIN code[c[1]] /\ call[c].result = code[c[1]][j]
      BY <3>1, <3>2, <3>3 DEF Fits
    <3>5. call[c].result \in Interface
      <4>1. code[c[1]] \in Seq(Interface)
        BY <2>1, <2>4, <3>3, <1>b, CallRecord DEF HasCode
      <4>2. QED
        BY <3>4, <4>1
    <3>6. QED
      BY <3>4, <3>5, <2>2, Distinct
  <2>5. StoredFits'
    BY <2>1, <2>2, <2>4, <1>b, CallRecord DEF StoredFits, Stored, Fits
  <2>6. QED
    BY <2>3, <2>5
<1>12. ASSUME NEW c \in Call, RequestRefresh(c) PROVE Goal'
  <2>1. /\ UNCHANGED <<code, clock, added, cache, contract, asOf, failed>>
        /\ \A d \in Call \ {c} : call'[d] = call[d]
        /\ call'[c].now = 0 /\ call'[c].at = "idle"
    BY <1>12, <1>a DEF RequestRefresh, Return, NoCall, history
  <2>2. QED
    BY <2>1, CallsMoveOn
<1>13. ASSUME NEW c \in Call, IdentificationFails(c) PROVE Goal'
  <2>1. /\ UNCHANGED <<code, clock, added, cache, contract, asOf>>
        /\ \A d \in Call \ {c} : call'[d] = call[d]
        /\ call'[c].now = clock /\ At(c, "insert")'
        /\ failed' = failed \cup {c[1]}
    BY <1>13, <1>a DEF IdentificationFails, CallType, At
  <2>2. Past' /\ CacheKnows'
    BY <2>1, <1>a, <1>b DEF Past, CacheKnows
  <2>3. CallKnows' /\ HasCode'
    BY <2>1, <1>b DEF CallKnows, HasCode, At
  <2>4. ResultFits' /\ StoredFits'
    BY <2>1, <1>b DEF ResultFits, StoredFits, Stored, Fits, At
  <2>5. QED
    BY <2>2, <2>3, <2>4
<1>14. CASE Crash
  <2>1. /\ UNCHANGED <<code, clock, added, contract, asOf, failed>>
        /\ \A d \in Call : call'[d].at = "idle" /\ call'[d].now = 0
        /\ cache'.values = {} /\ cache'.lastRefresh = 0
    BY <1>14 DEF Crash, NoCall, EmptyCache
  <2>2. Past' /\ CacheKnows'
    BY <2>1, <1>a, <1>b, Typed DEF Past, CacheKnows
  <2>3. CallKnows' /\ HasCode' /\ ResultFits' /\ StoredFits'
    BY <2>1, <1>b DEF CallKnows, HasCode, ResultFits, StoredFits, Stored, Fits, At
  <2>4. QED
    BY <2>2, <2>3
<1>15. QED
  BY <1>1, <1>2, <1>3, <1>4, <1>5, <1>6, <1>7, <1>8, <1>9, <1>10, <1>11, <1>12, <1>13, <1>14
     DEF Next, Step

-----------------------------------------------------------------------------
(* What is stored is asked to be refreshed.                                *)

(* Neither a row, a request nor a call that is about to request changes.   *)
LEMMA RequestsUntouched ==
  ASSUME StoredIsRequested, UNCHANGED <<contract, requested>>, dropped \subseteq dropped',
         \A c \in Call : At(c, "request") /\ c[1] \notin dropped' =>
           call'[c].at = "request" /\ call'[c].result = call[c].result
  PROVE  StoredIsRequested'
  BY DEF StoredIsRequested, Stored, At, Call

LEMMA RequestStep == ASSUME IInv, Next PROVE StoredIsRequested'
<1>a. /\ TypeOK /\ StoredIsRequested /\ call \in [Call -> CallType]
  BY DEF IInv, TypeOK
<1>1. CASE Tick
  BY <1>1, <1>a, RequestsUntouched DEF Tick, history, At
<1>2. ASSUME NEW i \in Interface, InsertContractInterface(i) PROVE StoredIsRequested'
  BY <1>2, <1>a, RequestsUntouched DEF InsertContractInterface, history, At
<1>3. ASSUME NEW a \in Address, Discover(a) PROVE StoredIsRequested'
  BY <1>3, <1>a DEF Discover, history, TypeOK, StoredIsRequested, Stored, At
<1>4. ASSUME NEW c \in Call, ProcessContract(c) PROVE StoredIsRequested'
  <2>1. /\ UNCHANGED <<contract, requested, dropped>>
        /\ \A d \in Call \ {c} : call'[d] = call[d]
        /\ ~At(c, "request")
    BY <1>4, <1>a DEF ProcessContract, GoTo, history, At
  <2>2. QED
    BY <2>1, <1>a, RequestsUntouched DEF At
<1>5. CASE UpdateContracts
  BY <1>5, <1>a, UpdateContractsFindsNone, RequestsUntouched DEF At
<1>6. ASSUME NEW c \in Call,
             CheckIndexed(c) \/ GetCode(c) \/ QueryInterfaces(c) \/ RefreshCache(c) \/ MatchInterface(c)
      PROVE  StoredIsRequested'
  <2>1. /\ UNCHANGED <<contract, requested, dropped>>
        /\ \A d \in Call \ {c} : call'[d] = call[d]
        /\ ~At(c, "request")
    BY <1>6, <1>a DEF CheckIndexed, GetCode, QueryInterfaces, RefreshCache, MatchInterface,
                      GoTo, Return, history, At
  <2>2. QED
    BY <2>1, <1>a, RequestsUntouched DEF At
<1>7. ASSUME NEW c \in Call, InsertOrUpdateContract(c) PROVE StoredIsRequested'
  <2>1. /\ UNCHANGED <<requested, dropped>>
        /\ \A d \in Call \ {c} : call'[d] = call[d]
        /\ ~At(c, "request") /\ call'[c].at = "request" /\ call'[c].result = call[c].result
        /\ contract' = [contract EXCEPT ![c[1]] =
                          IF call[c].result = Null THEN Unknown ELSE call[c].result]
    BY <1>7, <1>a DEF InsertOrUpdateContract, GoTo, At, CallType
  <2>2. call[c].result \in Interface \cup {Null, EOA}
    BY <1>a DEF CallType
  <2>3. SUFFICES ASSUME NEW a \in Address \ dropped, Stored(a)', contract'[a] \notin Unlisted
                 PROVE  LET asked == IF contract'[a] = Unknown THEN Null ELSE contract'[a] IN
                        \/ asked \in requested[a]
                        \/ \E k \in Copy : /\ call'[<<a, k>>].at = "request"
                                           /\ call'[<<a, k>>].result = asked
    BY <2>1 DEF StoredIsRequested, At
  <2>4. CASE a = c[1]
    <3>1. call[c].result = IF contract'[a] = Unknown THEN Null ELSE contract'[a]
      BY <2>1, <2>2, <2>4, <1>a, CallRecord, Distinct DEF TypeOK
    <3>2. QED
      BY <3>1, <2>1, <2>4, <1>a, CallRecord
  <2>5. CASE a # c[1]
    <3>1. contract'[a] = contract[a] /\ \A k \in Copy : <<a, k>> \in Call /\ call'[<<a, k>>] = call[<<a, k>>]
      BY <2>1, <2>5, <1>a DEF TypeOK, Call
    <3>2. QED
      BY <3>1, <2>3, <1>a DEF StoredIsRequested, Stored, At
  <2>6. QED
    BY <2>4, <2>5
<1>8. ASSUME NEW c \in Call, RequestRefresh(c) PROVE StoredIsRequested'
  <2>1. /\ UNCHANGED <<contract, dropped>>
        /\ \A d \in Call \ {c} : call'[d] = call[d]
        /\ requested' = IF call[c].result \in Unlisted THEN requested
                        ELSE [requested EXCEPT ![c[1]] = @ \cup {call[c].result}]
    BY <1>8, <1>a DEF RequestRefresh, Return, history
  <2>2. Null \notin Unlisted
    BY ContractsAssumption
  <2>3. \A a \in Address : requested[a] \subseteq requested'[a]
    BY <2>1, <1>a DEF TypeOK
  <2>4. call[c].result \notin Unlisted => call[c].result \in requested'[c[1]]
    BY <2>1, <1>a, CallRecord DEF TypeOK
  <2>5. SUFFICES ASSUME NEW a \in Address \ dropped, Stored(a), contract[a] \notin Unlisted
                 PROVE  LET asked == IF contract[a] = Unknown THEN Null ELSE contract[a] IN
                        \/ asked \in requested'[a]
                        \/ \E k \in Copy : /\ call'[<<a, k>>].at = "request"
                                           /\ call'[<<a, k>>].result = asked
    BY <2>1 DEF StoredIsRequested, Stored, At
  <2> DEFINE asked == IF contract[a] = Unknown THEN Null ELSE contract[a]
  <2>6. asked \notin Unlisted
    BY <2>2, <2>5
  <2>7. asked \in requested[a] \/ \E k \in Copy : /\ call[<<a, k>>].at = "request"
                                                  /\ call[<<a, k>>].result = asked
    BY <2>5, <1>a DEF StoredIsRequested, At
  <2> HIDE DEF asked
  <2>8. CASE asked \in requested[a]
    BY <2>3, <2>8 DEF asked
  <2>9. ASSUME NEW k \in Copy, call[<<a, k>>].at = "request", call[<<a, k>>].result = asked
        PROVE  asked \in requested'[a] \/ (call'[<<a, k>>].at = "request" /\ call'[<<a, k>>].result = asked)
    <3>1. <<a, k>> \in Call
      BY DEF Call
    <3>2. QED
      BY <3>1, <2>1, <2>4, <2>6, <2>9
  <2>10. QED
    BY <2>7, <2>8, <2>9 DEF asked
<1>9. ASSUME NEW c \in Call, IdentificationFails(c) PROVE StoredIsRequested'
  <2>1. /\ UNCHANGED <<contract, requested, dropped>>
        /\ \A d \in Call \ {c} : call'[d] = call[d]
        /\ ~At(c, "request")
    BY <1>9, <1>a DEF IdentificationFails, At
  <2>2. QED
    BY <2>1, <1>a, RequestsUntouched DEF At
<1>10. CASE Crash
  <2>1. UNCHANGED <<contract, requested>> /\ dropped \subseteq dropped'
    BY <1>10 DEF Crash
  <2>2. \A c \in Call : At(c, "request") => c[1] \in dropped'
    BY <1>10 DEF Crash
  <2>3. QED
    BY <2>1, <2>2, <1>a, RequestsUntouched
<1>11. QED
  BY <1>1, <1>2, <1>3, <1>4, <1>5, <1>6, <1>7, <1>8, <1>9, <1>10 DEF Next, Step

-----------------------------------------------------------------------------
(* The inductive invariant holds in every reachable state.                 *)
THEOREM Invariance == Spec => []IInv
<1>1. IInv /\ [Next]_vars => IInv'
  <2>1. SUFFICES ASSUME IInv, [Next]_vars PROVE IInv'
    OBVIOUS
  <2>2. CASE Next
    BY <2>1, <2>2, TypeStep, StalenessStep, RequestStep DEF IInv
  <2>3. CASE UNCHANGED vars
    <3>1. TypeOK'
      BY <2>1, <2>3 DEF IInv, vars, history, TypeOK, CallType, Table
    <3>2. QED
      BY <2>1, <2>3, <3>1, StalenessUntouched
         DEF IInv, vars, history, StoredIsRequested, Stored, At
  <2>4. QED
    BY <2>1, <2>2, <2>3
<1>2. QED
  BY <1>1, InitIInv, PTL DEF Spec

(* The tables, the cache and the calls keep their types, for any number of *)
(* contracts, interfaces and calls.                                        *)
THEOREM TypeCorrectness == Spec => []TypeOK
<1>1. IInv => TypeOK
  BY DEF IInv
<1>2. QED
  BY <1>1, Invariance, PTL

(* However the answers that refresh the cache overtake each other, no      *)
(* contract is stored without an interface, or with one tried later, that  *)
(* was in the table an interval before the contract was looked at.         *)
THEOREM StalenessBounded == Spec => []StaleOnlyWithinInterval
<1>1. IInv => StaleOnlyWithinInterval
  <2>1. SUFFICES ASSUME IInv, NEW a \in Address \ failed, Stored(a), contract[a] # EOA,
                        NEW k \in DOMAIN code[a], added[code[a][k]] # Null,
                        added[code[a][k]] <= asOf[a] - Interval
                 PROVE  \E j \in 1..k : contract[a] = code[a][j]
    BY DEF StaleOnlyWithinInterval
  <2>2. Fits(a, contract[a], asOf[a])
    BY <2>1 DEF IInv, StoredFits
  <2>3. QED
    BY <2>1, <2>2 DEF Fits
<1>2. QED
  BY <1>1, Invariance, PTL

(* The interface that the last of any number of overlapping calls left in  *)
(* a contract's row is the one its metadata is asked for with.             *)
THEOREM StoredRequested == Spec => []StoredIsRequested
<1>1. IInv => StoredIsRequested
  BY DEF IInv
<1>2. QED
  BY <1>1, Invariance, PTL
===============================================================================
