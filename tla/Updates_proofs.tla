---------------------------- MODULE Updates_proofs ----------------------------
(***************************************************************************)
(* For every set of methods, rows and uploads: a row that has no name      *)
(* although the watermark has passed its interface is about to get it, or  *)
(* was missed by one of three races.                                       *)
(***************************************************************************)
EXTENDS Updates, TLAPS

(* All rows of the interfaces created up to t are dealt with.              *)
Covered(t) ==
  \A r \in Row :
    LET m == MethodOf[r] IN
    Visible(r) /\ ~row[r].named /\ Known(m) /\ methodInterface[m] <= t
      => m \in matching \/ r \in updating \/ Missed(r)

(* UnnamedOnlyByRace is Covered(watermark), once there is a watermark.  It *)
(* is not inductive: what a round is about to write as the watermark must  *)
(* be covered as well, and a selection must start where the last one       *)
(* ended.                                                                  *)
RoundCovered ==
  /\ watermark # Null => Covered(watermark)
  /\ updater.at = "select" => watermark # Null /\ updater.since = watermark
  /\ updater.at = "set" => Covered(updater.now)

(* A row that was inserted with its interface known has its name.          *)
RowsNamed == \A r \in Row : row[r].at \in {"row", "done"} /\ row[r].found => row[r].named

IInv == TypeOK /\ RoundCovered /\ RowsNamed

LEMMA Constants ==
  /\ \A r \in Row : MethodOf[r] \in Method /\ IsEvent[r] \in BOOLEAN
  /\ \A u \in Upload : Uploads[u] \in Method
  /\ \A m \in Method : Arity[m] \in Nat
  /\ MaxTime \in Nat /\ MaxFaults \in Nat /\ Null \notin Nat
  BY UpdatesAssumption

LEMMA InitIInv == Init => IInv
<1> SUFFICES ASSUME Init PROVE IInv
  OBVIOUS
<1>1. NoRow \in RowType /\ NoUpload \in UploadType
      /\ NoRound \in [at : {"idle", "select", "set"}, since : Nat, now : Nat]
  BY DEF NoRow, RowType, NoUpload, UploadType, NoRound
<1>2. \A m \in Method : ~Known(m)
  BY DEF Init, Known
<1>3. TypeOK
  BY <1>1, <1>2, Constants DEF Init, TypeOK
<1>4. \A r \in Row : row[r].at = "absent"
  BY DEF Init, NoRow
<1>5. updater.at = "idle"
  BY DEF Init, NoRound
<1>6. QED
  BY <1>3, <1>4, <1>5 DEF IInv, RoundCovered, RowsNamed, Covered, Visible

-----------------------------------------------------------------------------
(* Type correctness.                                                       *)

LEMMA TypeStep == ASSUME TypeOK, Next PROVE TypeOK'
<1> USE Constants
<1>a. row \in [Row -> RowType] /\ upload \in [Upload -> UploadType] /\ clock \in Nat
  BY DEF TypeOK
<1>b. \A m \in Method : methodParameter[m] \subseteq Nat
  BY DEF TypeOK
<1>1. CASE Tick
  BY <1>1 DEF Tick, TypeOK, structure, admin, job, history, Known
<1>2. ASSUME NEW u \in Upload, SendInterface(u) PROVE TypeOK'
  <2>1. upload' \in [Upload -> UploadType]
    BY <1>2, <1>a DEF SendInterface, UploadType
  <2>2. QED
    BY <1>2, <2>1 DEF SendInterface, TypeOK, structure, job, history, Known
<1>3. ASSUME NEW u \in Upload, CommitInterface(u) PROVE TypeOK'
  <2>1. upload' \in [Upload -> UploadType] /\ upload[u].created \in Nat
    BY <1>3, <1>a DEF CommitInterface, UploadType
  <2>2. methodInterface' \in [Method -> Nat \cup {Null}]
    BY <1>3, <2>1 DEF CommitInterface, TypeOK
  <2>3. \A m \in Method : Known(m) => Known(m)'
    BY <1>3, <2>1 DEF CommitInterface, TypeOK, Known
  <2>4. QED
    BY <1>3, <2>1, <2>2, <2>3 DEF CommitInterface, TypeOK, job
<1>4. ASSUME NEW u \in Upload, InsertParameter(u) PROVE TypeOK'
  <2>1. upload' \in [Upload -> UploadType] /\ upload[u].n \in Nat
    BY <1>4, <1>a DEF InsertParameter, UploadType
  <2>2. Uploads[u] \in Method /\ Arity[Uploads[u]] \in Nat /\ upload[u].n \in 0..Arity[Uploads[u]] - 1
    BY <1>4, <2>1 DEF InsertParameter
  <2>3. methodParameter' \in [Method -> SUBSET Nat]
    BY <1>4, <2>1, <2>2 DEF InsertParameter, TypeOK
  <2>4. \A m \in Method : methodParameter'[m] \subseteq IF Known(m) THEN 0..Arity[m] - 1 ELSE {}
    BY <1>4, <2>1, <2>2 DEF InsertParameter, TypeOK
  <2>5. QED
    BY <1>4, <2>1, <2>3, <2>4 DEF InsertParameter, TypeOK, job, history, Known
<1>5. ASSUME NEW u \in Upload, EndUpload(u) PROVE TypeOK'
  <2>1. upload' \in [Upload -> UploadType]
    BY <1>5, <1>a DEF EndUpload, UploadType
  <2>2. QED
    BY <1>5, <2>1 DEF EndUpload, TypeOK, structure, job, Known
<1>6. CASE RestartAdmin
  <2>1. upload' \in [Upload -> UploadType]
    BY <1>6, <1>a DEF RestartAdmin, UploadType
  <2>2. QED
    BY <1>6, <2>1 DEF RestartAdmin, TypeOK, structure, job, history, Known
<1>7. ASSUME NEW r \in Row, ReadInterface(r) PROVE TypeOK'
  <2>1. row' \in [Row -> RowType]
    BY <1>7, <1>a, <1>b DEF ReadInterface, RowType, Known
  <2>2. QED
    BY <1>7, <2>1 DEF ReadInterface, TypeOK, structure, admin, job, history, Known
<1>8. ASSUME NEW r \in Row, InsertRow(r) PROVE TypeOK'
  <2>1. row' \in [Row -> RowType]
    BY <1>8, <1>a DEF InsertRow, RowType
  <2>2. QED
    BY <1>8, <2>1 DEF InsertRow, TypeOK, structure, admin, job, Known
<1>9. ASSUME NEW r \in Row, IndexEventParameters(r) PROVE TypeOK'
  <2>1. row' \in [Row -> RowType]
    <3>1. [row[r] EXCEPT !.at = "done", !.params = @ \cup methodParameter[MethodOf[r]]] \in RowType
      BY <1>a, <1>b DEF RowType
    <3>2. QED
      BY <1>9, <1>a, <3>1 DEF IndexEventParameters
  <2>2. QED
    BY <1>9, <2>1 DEF IndexEventParameters, TypeOK, structure, admin, job, history, Known
<1>10. ASSUME NEW r \in Row, IndexTransactionInput(r) PROVE TypeOK'
  <2>1. row' \in [Row -> RowType]
    BY <1>10, <1>a DEF IndexTransactionInput, RowType
  <2>2. QED
    BY <1>10, <2>1 DEF IndexTransactionInput, TypeOK, structure, admin, job, Known
<1>11. ASSUME NEW r \in Row, UpdateRow(r) PROVE TypeOK'
  <2>1. row' \in [Row -> RowType]
    BY <1>11, <1>a DEF UpdateRow, RowType
  <2>2. QED
    BY <1>11, <2>1 DEF UpdateRow, TypeOK, structure, admin, Known
<1>12. ASSUME NEW r \in Row, WorkerFails(r) PROVE TypeOK'
  <2>1. row' \in [Row -> RowType]
    <3>1. NoRow \in RowType
      BY DEF NoRow, RowType
    <3>2. [row[r] EXCEPT !.at = IF IsEvent[r] THEN "done" ELSE "lost", !.params = {}] \in RowType
      BY <1>a DEF RowType
    <3>3. QED
      BY <1>12, <1>a, <3>1, <3>2 DEF WorkerFails
  <2>2. QED
    BY <1>12, <2>1 DEF WorkerFails, TypeOK, structure, admin, job, history, Known
<1>13. CASE Round
  BY <1>13 DEF Round, StartRound, SelectInterfaces, SetWatermark, NoRound, TypeOK,
               structure, admin, history, Known
<1>14. ASSUME NEW m \in Method, SelectRows(m) PROVE TypeOK'
  BY <1>14 DEF SelectRows, TypeOK, structure, admin, history, Known
<1>15. ASSUME NEW m \in Method, SelectRowsFails(m) PROVE TypeOK'
  BY <1>15 DEF SelectRowsFails, TypeOK, structure, admin, Known
<1>16. CASE RestartIndexer
  <2>1. row' \in [Row -> RowType]
    <3>1. NoRow \in RowType
      BY DEF NoRow, RowType
    <3>2. \A r \in Row :
            [row[r] EXCEPT !.at = IF IsEvent[r] THEN "done" ELSE "lost", !.params = {}] \in RowType
      BY <1>a DEF RowType
    <3>3. QED
      BY <1>16, <1>a, <3>1, <3>2 DEF RestartIndexer
  <2>2. QED
    BY <1>16, <2>1 DEF RestartIndexer, NoRound, TypeOK, structure, admin, Known
<1>17. QED
  BY <1>1, <1>2, <1>3, <1>4, <1>5, <1>6, <1>7, <1>8, <1>9, <1>10, <1>11, <1>12,
     <1>13, <1>14, <1>15, <1>16
     DEF Next, AdminStep, RowStep

-----------------------------------------------------------------------------
(* Coverage.                                                               *)

(* Covered(t), after a step that does not move t.                          *)
Kept(t) ==
  \A r \in Row :
    LET m == MethodOf[r] IN
    Visible(r)' /\ ~row'[r].named /\ Known(m)' /\ methodInterface'[m] <= t
      => m \in matching' \/ r \in updating' \/ Missed(r)'

(* A step that leaves the watermark and the round alone.                   *)
LEMMA SameRound ==
  ASSUME TypeOK, RoundCovered, UNCHANGED <<watermark, updater>>,
         \A t \in Nat : Covered(t) => Kept(t)
  PROVE  RoundCovered'
<1>1. watermark \in Nat \cup {Null} /\ updater.now \in Nat
  BY DEF TypeOK
<1>3. watermark' # Null => Covered(watermark)'
  BY <1>1 DEF RoundCovered, Covered, Kept
<1>4. ASSUME updater'.at = "set" PROVE Covered(updater.now)'
  <2>1. Kept(updater.now)
    BY <1>1, <1>4 DEF RoundCovered
  <2>2. QED
    BY <2>1 DEF Covered, Kept
<1>5. QED
  BY <1>3, <1>4 DEF RoundCovered

(* A step that touches neither the rows nor what is about to be done.      *)
LEMMA Elsewhere ==
  ASSUME IInv, UNCHANGED <<row, methodInterface, stale, late, failed, job>>
  PROVE  RoundCovered' /\ RowsNamed'
<1>1. \A t \in Nat : Covered(t) => Kept(t)
  BY DEF Covered, Kept, Visible, Known, Missed, job
<1>2. QED
  BY <1>1, SameRound DEF IInv, RowsNamed, Visible, job

(* A step of one row, that has its name, is out of sight or missed after   *)
(* it unless it was in sight without a name before.                        *)
LEMMA OneRow ==
  ASSUME TypeOK, NEW r \in Row, NEW t \in Nat, Covered(t),
         \A q \in Row : q # r => row'[q] = row[q],
         UNCHANGED methodInterface,
         Visible(r)' /\ ~row'[r].named /\ Known(MethodOf[r]) =>
           Missed(r)' \/ (Visible(r) /\ ~row[r].named),
         matching \subseteq matching', updating \ {r} \subseteq updating',
         r \in updating' \/ r \notin updating \/ row'[r].named,
         stale \subseteq stale', late \subseteq late', failed \subseteq failed'
  PROVE  Kept(t)
<1>1. SUFFICES ASSUME NEW q \in Row, Visible(q)', ~row'[q].named, Known(MethodOf[q])',
                      methodInterface'[MethodOf[q]] <= t
               PROVE  MethodOf[q] \in matching' \/ q \in updating' \/ Missed(q)'
  BY DEF Kept
<1>2. Known(MethodOf[q]) /\ methodInterface[MethodOf[q]] <= t
  BY <1>1 DEF Known
<1>3. CASE q = r
  BY <1>1, <1>2, <1>3 DEF Covered, Missed
<1>4. CASE q # r
  BY <1>1, <1>2, <1>4 DEF Covered, Missed, Visible
<1>5. QED
  BY <1>3, <1>4

(* An interface committed with a date that a selection has passed is late. *)
LEMMA Committed ==
  ASSUME TypeOK, NEW t \in Nat, Covered(t), NEW u \in Upload, CommitInterface(u),
         upload[u].created <= t /\ ~Known(Uploads[u]) /\ pool = "open" => Uploads[u] \in late'
  PROVE  Kept(t)
<1>1. /\ UNCHANGED <<row, matching, updating, stale, failed>>
      /\ late \subseteq late'
      /\ (pool = "open" /\ ~Known(Uploads[u])) \/ methodInterface' = methodInterface
      /\ methodInterface' \in
           {methodInterface, [methodInterface EXCEPT ![Uploads[u]] = upload[u].created]}
      /\ methodInterface \in [Method -> Nat \cup {Null}]
  <2>1. UNCHANGED <<row, matching, updating, stale, failed>>
    BY DEF CommitInterface, job
  <2>2. late \subseteq late'
    BY DEF CommitInterface
  <2>3. (pool = "open" /\ ~Known(Uploads[u])) \/ methodInterface' = methodInterface
    BY DEF CommitInterface
  <2>4. methodInterface' \in
           {methodInterface, [methodInterface EXCEPT ![Uploads[u]] = upload[u].created]}
    BY DEF CommitInterface
  <2>5. QED
    BY <2>1, <2>2, <2>3, <2>4 DEF TypeOK
<1>2. SUFFICES ASSUME NEW r \in Row, Visible(r), ~row[r].named, Known(MethodOf[r])',
                      methodInterface'[MethodOf[r]] <= t
               PROVE  MethodOf[r] \in matching \/ r \in updating \/ Missed(r)'
  BY <1>1 DEF Visible, Kept
<1>3. CASE methodInterface'[MethodOf[r]] = methodInterface[MethodOf[r]]
  BY <1>1, <1>2, <1>3 DEF Covered, Known, Missed
<1>4. CASE methodInterface'[MethodOf[r]] # methodInterface[MethodOf[r]]
  <2>1. MethodOf[r] = Uploads[u] /\ pool = "open" /\ ~Known(Uploads[u])
        /\ methodInterface'[MethodOf[r]] = upload[u].created
    BY <1>1, <1>4, Constants
  <2>2. MethodOf[r] \in late'
    BY <2>1, <1>2
  <2>3. QED
    BY <2>2 DEF Missed
<1>5. QED
  BY <1>3, <1>4

LEMMA CommitStep ==
  ASSUME IInv, NEW u \in Upload, CommitInterface(u) PROVE RoundCovered' /\ RowsNamed'
<1>1. /\ TypeOK /\ RoundCovered /\ UNCHANGED <<row, watermark, updater>>
      /\ watermark \in Nat \cup {Null} /\ updater.now \in Nat
  BY DEF IInv, CommitInterface, job, TypeOK
<1>2. watermark # Null => Kept(watermark)
  <2>1. watermark # Null /\ upload[u].created <= watermark /\ ~Known(Uploads[u]) /\ pool = "open"
          => Uploads[u] \in late'
    BY DEF CommitInterface, Passed
  <2>2. QED
    BY <1>1, <2>1, Committed DEF RoundCovered
<1>3. updater.at = "set" => Kept(updater.now)
  <2>1. updater.at = "set" /\ upload[u].created <= updater.now /\ ~Known(Uploads[u]) /\ pool = "open"
          => Uploads[u] \in late'
    BY DEF CommitInterface
  <2>2. QED
    BY <1>1, <2>1, Committed DEF RoundCovered
<1>4. RoundCovered'
  <2>1. watermark' # Null => Covered(watermark)'
    BY <1>1, <1>2 DEF Covered, Kept
  <2>2. updater'.at = "set" => Covered(updater.now)'
    BY <1>1, <1>3 DEF Covered, Kept
  <2>3. QED
    BY <1>1, <2>1, <2>2 DEF RoundCovered
<1>5. QED
  BY <1>1, <1>4 DEF IInv, RowsNamed, Visible

(* The steps of a row, its update, and the failure of its worker.          *)
LEMMA RowKept ==
  ASSUME IInv, NEW r \in Row, RowStep(r) \/ UpdateRow(r) \/ WorkerFails(r)
  PROVE  RoundCovered' /\ RowsNamed'
<1> USE DEF IInv
<1>1. row \in [Row -> RowType] /\ IsEvent[r] \in BOOLEAN
  BY Constants DEF TypeOK
<1>2. /\ UNCHANGED <<methodInterface, watermark, updater, matching, late, failed>>
      /\ stale \subseteq stale' /\ updating \ {r} \subseteq updating'
      /\ r \in updating' \/ r \notin updating \/ row'[r].named
      /\ \A q \in Row : q # r => row'[q] = row[q]
  BY <1>1
     DEF RowStep, ReadInterface, InsertRow, IndexEventParameters,
         IndexTransactionInput,
              UpdateRow, WorkerFails, structure, job, history, RowType
<1>3. /\ Visible(r)' /\ ~row'[r].named /\ Known(MethodOf[r]) =>
           Missed(r)' \/ (Visible(r) /\ ~row[r].named)
      /\ row'[r].at \in {"row", "done"} /\ row'[r].found => row'[r].named
  <2>1. CASE ReadInterface(r)
    BY <2>1, <1>1 DEF ReadInterface, Visible
  <2>2. CASE InsertRow(r)
    <3>1. row'[r] = [row[r] EXCEPT !.at = "row", !.named = row[r].found] /\ row[r] \in RowType
      BY <2>2, <1>1 DEF InsertRow
    <3>2. row'[r].at = "row" /\ row'[r].named = row[r].found /\ row'[r].found = row[r].found
      BY <3>1 DEF RowType
    <3>3. IsEvent[r] /\ ~row[r].found /\ Known(MethodOf[r]) => r \in stale'
      BY <2>2 DEF InsertRow
    <3>4. QED
      BY <3>2, <3>3 DEF Visible, Missed
  <2>3. CASE IndexEventParameters(r)
    <3>1. row'[r] = [row[r] EXCEPT !.at = "done", !.params = @ \cup methodParameter[MethodOf[r]]]
          /\ row[r] \in RowType /\ row[r].at = "row" /\ IsEvent[r]
      BY <2>3, <1>1 DEF IndexEventParameters
    <3>2. row'[r].named = row[r].named /\ row'[r].found = row[r].found
      BY <3>1 DEF RowType
    <3>3. Visible(r)
      BY <3>1 DEF Visible
    <3>4. QED
      BY <3>1, <3>2, <3>3 DEF RowsNamed
  <2>4. CASE IndexTransactionInput(r)
    <3>1. row'[r] = [row[r] EXCEPT !.at = "done"] /\ row[r] \in RowType
      BY <2>4, <1>1 DEF IndexTransactionInput
    <3>2. row'[r].named = row[r].named /\ row'[r].found = row[r].found
      BY <3>1 DEF RowType
    <3>3. ~row[r].found /\ Known(MethodOf[r]) => r \in stale'
      BY <2>4 DEF IndexTransactionInput
    <3>4. row[r].found => row[r].named
      BY <2>4 DEF IndexTransactionInput, RowsNamed
    <3>5. QED
      BY <3>2, <3>3, <3>4 DEF Missed
  <2>5. CASE UpdateRow(r)
    BY <2>5, <1>1 DEF UpdateRow, RowType
  <2>6. CASE WorkerFails(r)
    <3>1. CASE row[r].at = "read"
      BY <2>6, <1>1, <3>1 DEF WorkerFails, NoRow, Visible
    <3>2. CASE row[r].at = "row"
      <4>1. row'[r] = [row[r] EXCEPT !.at = IF IsEvent[r] THEN "done" ELSE "lost", !.params = {}]
            /\ row[r] \in RowType
        BY <2>6, <1>1, <3>2 DEF WorkerFails
      <4>2. row'[r].named = row[r].named /\ row'[r].found = row[r].found
            /\ row'[r].at = IF IsEvent[r] THEN "done" ELSE "lost"
        BY <4>1 DEF RowType
      <4>3. QED
        BY <4>2, <3>2, <1>1 DEF Visible, RowsNamed
    <3>3. QED
      BY <2>6, <3>1, <3>2 DEF WorkerFails
  <2>7. QED
    BY <2>1, <2>2, <2>3, <2>4, <2>5, <2>6 DEF RowStep
<1>4. \A t \in Nat : Covered(t) => Kept(t)
  BY <1>2, <1>3, OneRow
<1>5. RoundCovered'
  BY <1>2, <1>4, SameRound
<1>6. RowsNamed'
  BY <1>2, <1>3 DEF RowsNamed, Visible
<1>7. QED
  BY <1>5, <1>6
(* The steps of the round and of its updates.                              *)
LEMMA RoundKept ==
  ASSUME IInv, Round \/ \E m \in Method : SelectRows(m) \/ SelectRowsFails(m)
  PROVE  RoundCovered' /\ RowsNamed'
<1> USE DEF IInv
<1>1. CASE StartRound
  <2>1. UNCHANGED <<row, methodInterface, stale, late, failed, watermark, matching, updating>>
    BY <1>1 DEF StartRound, structure, history
  <2>2. watermark # Null /\ Covered(watermark)'
    BY <1>1, <2>1 DEF StartRound, RoundCovered, Covered, Visible, Known, Missed
  <2>3. updater'.at = "select" /\ updater'.since = watermark
    BY <1>1 DEF StartRound
  <2>4. QED
    BY <2>1, <2>2, <2>3 DEF RoundCovered, RowsNamed
<1>2. CASE SelectInterfaces
  <2>1. UNCHANGED <<row, methodInterface, stale, late, failed, watermark, updating>>
        /\ matching \subseteq matching' /\ watermark # Null
    BY <1>2 DEF SelectInterfaces, RoundCovered, structure, history
  <2>2. Covered(watermark)'
    BY <2>1 DEF RoundCovered, Covered, Visible, Known, Missed
  <2>3. \A m \in Method : Known(m) /\ methodInterface[m] > watermark => m \in matching'
    BY <1>2 DEF SelectInterfaces, RoundCovered
  <2>4. \A m \in Method : Known(m) => methodInterface[m] \in Nat
    BY DEF TypeOK, Known
  <2>5. watermark \in Nat
    BY <2>1 DEF TypeOK
  <2>6. ASSUME NEW r \in Row, Visible(r)', ~row'[r].named, Known(MethodOf[r])'
        PROVE  MethodOf[r] \in matching' \/ r \in updating' \/ Missed(r)'
    <3>1. Known(MethodOf[r]) /\ Visible(r) /\ MethodOf[r] \in Method
      BY <2>1, <2>6, Constants DEF Known, Visible
    <3>2. CASE methodInterface[MethodOf[r]] > watermark
      BY <2>3, <3>1, <3>2
    <3>3. CASE methodInterface[MethodOf[r]] <= watermark
      BY <2>1, <2>6, <3>1, <3>3 DEF RoundCovered, Covered, Missed
    <3>4. QED
      BY <2>4, <2>5, <3>1, <3>2, <3>3
  <2>7. Covered(updater.now)'
    BY <2>6 DEF Covered
  <2>8. updater'.at = "set"
    BY <1>2 DEF SelectInterfaces, TypeOK
  <2>9. QED
    BY <2>1, <2>2, <2>7, <2>8 DEF RoundCovered, RowsNamed
<1>3. CASE SetWatermark
  <2>1. UNCHANGED <<row, methodInterface, stale, late, failed, matching, updating>>
        /\ watermark' = updater.now /\ updater'.at = "idle" /\ updater.at = "set"
    BY <1>3 DEF SetWatermark, structure, history, NoRound
  <2>2. Covered(watermark)'
    BY <2>1 DEF RoundCovered, Covered, Visible, Known, Missed
  <2>3. QED
    BY <2>1, <2>2 DEF RoundCovered, RowsNamed
<1>4. ASSUME NEW m \in Method, SelectRows(m) PROVE RoundCovered' /\ RowsNamed'
  <2>1. /\ UNCHANGED <<row, methodInterface, stale, late, failed, watermark, updater>>
        /\ matching' = matching \ {m}
        /\ updating' = updating \cup {r \in Row : MethodOf[r] = m /\ Visible(r)}
    BY <1>4 DEF SelectRows, structure, history
  <2>2. \A t \in Nat : Covered(t) => Kept(t)
    BY <2>1 DEF Covered, Kept, Visible, Known, Missed
  <2>3. QED
    BY <2>1, <2>2, SameRound DEF RowsNamed
<1>5. ASSUME NEW m \in Method, SelectRowsFails(m) PROVE RoundCovered' /\ RowsNamed'
  <2>1. /\ UNCHANGED <<row, methodInterface, stale, late, watermark, updater>>
        /\ matching' = matching \ {m}
        /\ updating \subseteq updating' /\ failed \subseteq failed'
        /\ \A r \in Row : MethodOf[r] = m /\ Visible(r) => r \in updating' \/ r \in failed'
    BY <1>5 DEF SelectRowsFails, structure
  <2>2. \A t \in Nat : Covered(t) => Kept(t)
    BY <2>1 DEF Covered, Kept, Visible, Known, Missed
  <2>3. QED
    BY <2>1, <2>2, SameRound DEF RowsNamed
<1>6. QED
  BY <1>1, <1>2, <1>3, <1>4, <1>5 DEF Round

(* What was under way when the process ended is in failed.                 *)
LEMMA RestartKept == ASSUME IInv, RestartIndexer PROVE RoundCovered' /\ RowsNamed'
<1> USE DEF IInv
<1>1. /\ UNCHANGED <<methodInterface, stale, late, watermark>>
      /\ failed \subseteq failed' /\ updating \subseteq failed'
      /\ \A r \in Row : MethodOf[r] \in matching => r \in failed'
      /\ updater'.at = "idle"
  BY DEF RestartIndexer, structure, NoRound
<1>2. ASSUME NEW r \in Row
      PROVE  /\ Visible(r)' => Visible(r) /\ row'[r].named = row[r].named
             /\ row'[r].at \in {"row", "done"} => row[r].at \in {"row", "done"}
                  /\ row'[r].named = row[r].named /\ row'[r].found = row[r].found
  <2>1. row[r] \in RowType
    BY DEF TypeOK
  <2>2. CASE row[r].at = "read"
    BY <2>2 DEF RestartIndexer, NoRow, Visible
  <2>3. CASE row[r].at = "row"
    <3>1. row'[r] = [row[r] EXCEPT !.at = IF IsEvent[r] THEN "done" ELSE "lost", !.params = {}]
      BY <2>3 DEF RestartIndexer
    <3>2. row'[r].named = row[r].named /\ row'[r].found = row[r].found
          /\ row'[r].at = IF IsEvent[r] THEN "done" ELSE "lost"
      BY <2>1, <3>1 DEF RowType
    <3>3. QED
      BY <2>3, <3>2, Constants DEF Visible
  <2>4. CASE row[r].at \notin {"read", "row"}
    BY <2>4 DEF RestartIndexer, Visible
  <2>5. QED
    BY <2>2, <2>3, <2>4
<1>3. watermark' # Null => Covered(watermark)'
  BY <1>1, <1>2 DEF RoundCovered, Covered, Known, Missed
<1>4. QED
  BY <1>1, <1>2, <1>3 DEF RoundCovered, RowsNamed

LEMMA NextIInv == ASSUME IInv, Next PROVE IInv'
<1>1. TypeOK'
  BY TypeStep DEF IInv
<1>2. RoundCovered' /\ RowsNamed'
  <2>1. CASE Tick \/ RestartAdmin
    BY <2>1, Elsewhere DEF Tick, RestartAdmin, structure, job, history
  <2>2. ASSUME NEW u \in Upload, AdminStep(u) PROVE RoundCovered' /\ RowsNamed'
    <3>1. CASE CommitInterface(u)
      BY <3>1, CommitStep
    <3>2. CASE SendInterface(u) \/ InsertParameter(u) \/ EndUpload(u)
      BY <3>2, Elsewhere
         DEF SendInterface, InsertParameter, EndUpload, structure, job, history
    <3>3. QED
      BY <2>2, <3>1, <3>2 DEF AdminStep
  <2>3. QED
    BY <2>1, <2>2, RowKept, RoundKept, RestartKept DEF Next
<1>3. QED
  BY <1>1, <1>2 DEF IInv

LEMMA StutterIInv == ASSUME IInv, UNCHANGED vars PROVE IInv'
  BY DEF IInv, RoundCovered, RowsNamed, Covered, Visible, Missed, Known, TypeOK,
         vars, structure, admin, job, history

(* The strengthened invariant of the uploads, the rows and the daily job.  *)
THEOREM Invariance == Spec => []IInv
<1>1. IInv /\ [Next]_vars => IInv'
  BY NextIInv, StutterIInv
<1>2. QED
  BY <1>1, InitIInv, PTL DEF Spec

(* The tables hold what the statements can put there, for every ABI: a     *)
(* parameter is stored at a position of its method, and only with it.      *)
THEOREM TypeCorrectness == Spec => []TypeOK
<1>1. IInv => TypeOK
  BY DEF IInv
<1>2. QED
  BY <1>1, Invariance, PTL

(* setLatestUpdateDate runs while the updates are under way.  Still, a row *)
(* without the name of an interface the watermark has passed is about to   *)
(* get it, or was missed by a race that has a name.                        *)
THEOREM UnnamedByRaceOnly == Spec => []UnnamedOnlyByRace
<1>1. IInv => UnnamedOnlyByRace
  BY DEF IInv, RoundCovered, Covered, UnnamedOnlyByRace, Passed
<1>2. QED
  BY <1>1, Invariance, PTL
===============================================================================
