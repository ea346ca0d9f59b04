--------------------------- MODULE RegistryProofs ---------------------------
(***************************************************************************)
(* Theorems about the registry overlay, for any number of threads, any     *)
(* entries, any registry files and any interleaving.                       *)
(*                                                                         *)
(* The argument: every step of every thread changes the overlay in one of  *)
(* three ways (OverlayStep): not at all, by one admissible row for an id   *)
(* nobody owned (Gains), or by losing the rows of one id (Loses).  Each    *)
(* property of the rows then needs three cases rather than eight.          *)
(***************************************************************************)
EXTENDS Registry, TLAPS

RowOf(e, from) == [entry |-> e, from |-> from]

\* A stamp with a file in it names the place the entry stands at.
Attributed(side, e, from) ==
  from.door = "file" =>
    /\ from.index < Len(Content[from.path][side])
    /\ e = Content[from.path][side][from.index + 1]

\* Nothing but a caller of the API can have left another one.
Accounted(side, e, from) ==
  Attributed(side, e, from) \/ <<side, e, from>> \in claimed

Gains(side, e, from) ==
  /\ Admissible(side, e)
  /\ e.id \notin OwnedIds(overlay[side])
  /\ Accounted(side, e, from)'
  /\ overlay' = [overlay EXCEPT ![side] = @ \cup {RowOf(e, from)}]
  /\ dropped' = dropped

Loses(side, id) ==
  /\ overlay' = [overlay EXCEPT ![side] = {r \in @ : r.entry.id # id}]
  /\ dropped' = IF id \in OwnedIds(overlay[side])
                  THEN dropped \cup {<<side, id>>} ELSE dropped

-----------------------------------------------------------------------------
(* Lemmas about the operators                                              *)

\* A file lists a natural number of entries.
LEMMA SizeType ==
  ASSUME NEW p \in Paths
  PROVE  Size(p) \in Nat
<1> DEFINE n == Len(Content[p].task)
           m == Len(Content[p].model)
<1>1. n \in Nat /\ m \in Nat
  BY ContentAssumption
<1>2. Size(p) = n + m
  BY DEF Size
<1> HIDE DEF n, m
<1> QED BY <1>1, <1>2

\* Each step of a load registers an entry of its file under its own stamp.
LEMMA StepsShape ==
  ASSUME NEW p \in Paths, NEW i \in 1..Size(p)
  PROVE  /\ Size(p) \in Nat
         /\ Steps(p)[i].side \in Sides
         /\ Steps(p)[i].entry \in Entries[Steps(p)[i].side]
         /\ Steps(p)[i].from \in Origins \ {Unset}
         /\ Attributed(Steps(p)[i].side, Steps(p)[i].entry, Steps(p)[i].from)
<1> DEFINE n == Len(Content[p].task)
           m == Len(Content[p].model)
<1>1. n \in Nat /\ m \in Nat
  BY ContentAssumption
<1>2. Size(p) = n + m
  BY DEF Size
<1>3. /\ Steps(p)[i] = IF i <= n
          THEN [side |-> "task", entry |-> Content[p].task[i],
                from |-> FileRow(p, i - 1)]
          ELSE [side |-> "model", entry |-> Content[p].model[i - n],
                from |-> FileRow(p, i - n - 1)]
  BY DEF Steps
<1>4. /\ \A j \in 1..n : Content[p].task[j] \in Entries["task"]
      /\ \A j \in 1..m : Content[p].model[j] \in Entries["model"]
  BY ContentAssumption
<1>5. \A k \in Nat :
        /\ k < n /\ Content[p].task[k + 1] = Content[p].task[i] =>
             Attributed("task", Content[p].task[i], FileRow(p, k))
        /\ k < m /\ Content[p].model[k + 1] = Content[p].model[i - n] =>
             Attributed("model", Content[p].model[i - n], FileRow(p, k))
  BY DEF Attributed, FileRow
<1> HIDE DEF n, m
<1>6. Size(p) \in Nat
  BY <1>1, <1>2
<1>7. i \in Nat /\ 1 <= i /\ i <= n + m
  BY <1>1, <1>2
<1>8. CASE i <= n
  <2>1. Steps(p)[i] = [side |-> "task", entry |-> Content[p].task[i],
                       from |-> FileRow(p, i - 1)]
    BY <1>8, <1>3
  <2>2. Content[p].task[i] \in Entries["task"]
    BY <1>1, <1>7, <1>8, <1>4
  <2>3. i - 1 \in Nat /\ i - 1 < n /\ (i - 1) + 1 = i
    BY <1>1, <1>7, <1>8
  <2>4. FileRow(p, i - 1) \in Origins \ {Unset}
    BY <2>3 DEF FileRow, Origins, Unset
  <2>5. Attributed("task", Content[p].task[i], FileRow(p, i - 1))
    BY <2>3, <1>5
  <2> QED BY <1>6, <2>1, <2>2, <2>4, <2>5 DEF Sides
<1>9. CASE ~ (i <= n)
  <2>1. Steps(p)[i] = [side |-> "model", entry |-> Content[p].model[i - n],
                       from |-> FileRow(p, i - n - 1)]
    BY <1>9, <1>3
  <2>2. i - n \in 1..m
    BY <1>1, <1>7, <1>9
  <2>3. Content[p].model[i - n] \in Entries["model"]
    BY <2>2, <1>4
  <2>4. i - n - 1 \in Nat /\ i - n - 1 < m /\ (i - n - 1) + 1 = i - n
    BY <1>1, <2>2
  <2>5. FileRow(p, i - n - 1) \in Origins \ {Unset}
    BY <2>4 DEF FileRow, Origins, Unset
  <2>6. Attributed("model", Content[p].model[i - n], FileRow(p, i - n - 1))
    BY <2>4, <1>5
  <2> QED BY <1>6, <2>1, <2>3, <2>5, <2>6 DEF Sides
<1> QED BY <1>8, <1>9

\* The stamp of an API registration is never empty, and names a file only if
\* the caller wrote it.
LEMMA StampShape ==
  ASSUME NEW from \in Presets
  PROVE  /\ Stamp(from) \in Origins \ {Unset}
         /\ Stamp(from).door = "file" => Stamp(from) = from
  BY PresetsAssumption DEF Stamp, Unset, Api, CallerSaid, Origins

\* A registration, accepted or not, gains one row or changes nothing.
LEMMA RegisterGains ==
  ASSUME TypeOK, NEW side \in Sides, NEW e \in Entries[side],
         NEW from \in Origins \ {Unset},
         Accepts(side, e) => Accounted(side, e, from)',
         RegisterEntry(side, e, from), dropped' = dropped
  PROVE  \/ overlay' = overlay
         \/ Gains(side, e, from)
<1>1. CASE ~ Accepts(side, e)
  BY <1>1 DEF RegisterEntry
<1>2. CASE Accepts(side, e)
  <2>1. Admissible(side, e) /\ e.id \notin OwnedIds(overlay[side])
    BY <1>2 DEF Accepts
  <2>2. Stamp(from) = from
    BY DEF Stamp
  <2>3. \A r \in overlay[side] : r.entry.id # e.id
    BY <2>1 DEF OwnedIds
  <2>4. Insert(overlay[side], RowOf(e, from)) = overlay[side] \cup {RowOf(e, from)}
    BY <2>3 DEF Insert, RowOf
  <2>5. overlay' = [overlay EXCEPT ![side] = Insert(@, RowOf(e, from))]
    BY <1>2, <2>2 DEF RegisterEntry, RowOf
  <2>6. overlay' = [overlay EXCEPT ![side] = @ \cup {RowOf(e, from)}]
    BY <2>4, <2>5
  <2> QED BY <1>2, <2>1, <2>6 DEF Gains
<1> QED BY <1>1, <1>2

-----------------------------------------------------------------------------
(* Type correctness                                                        *)

\* Rows of the right type stay rows of the right type.
LEMMA OverlayType ==
  ASSUME TypeOK, NEW side \in Sides
  PROVE  /\ \A e \in Entries[side], from \in Origins \ {Unset} :
              Gains(side, e, from) => overlay' \in [Sides -> SUBSET Row]
         /\ \A id : Loses(side, id) => overlay' \in [Sides -> SUBSET Row]
<1>1. ASSUME NEW e \in Entries[side], NEW from \in Origins \ {Unset},
             Gains(side, e, from)
      PROVE  overlay' \in [Sides -> SUBSET Row]
  <2>1. RowOf(e, from) \in Row
    BY <1>1 DEF RowOf, Row, Sides
  <2> QED BY <1>1, <2>1 DEF Gains, TypeOK
<1>2. ASSUME NEW id, Loses(side, id)
      PROVE  overlay' \in [Sides -> SUBSET Row]
  BY <1>2 DEF Loses, TypeOK
<1> QED BY <1>1, <1>2

\* Every step changes the overlay in one of three ways.
LEMMA OverlayStep ==
  ASSUME TypeOK, [Next]_vars
  PROVE  \/ overlay' = overlay /\ dropped' = dropped
         \/ \E side \in Sides : \E e \in Entries[side], from \in Origins \ {Unset} :
              Gains(side, e, from)
         \/ \E side \in Sides, id \in Removable : Loses(side, id)
<1>1. ASSUME NEW t \in Threads, NEW side \in Sides, Register(t, side)
      PROVE  \/ overlay' = overlay /\ dropped' = dropped
             \/ \E e \in Entries[side], from \in Origins \ {Unset} :
                  Gains(side, e, from)
  <2>1. PICK e \in Entries[side], from \in Presets :
          /\ RegisterEntry(side, e, from)
          /\ claimed' = IF Accepts(side, e) /\ from.door = "file"
                          THEN claimed \cup {<<side, e, from>>} ELSE claimed
    BY <1>1 DEF Register
  <2>2. /\ Stamp(from) \in Origins \ {Unset}
        /\ Accepts(side, e) => Accounted(side, e, Stamp(from))'
    BY <2>1, StampShape DEF Accounted, Attributed
  <2>3. RegisterEntry(side, e, Stamp(from))
    BY <2>1 DEF RegisterEntry, Stamp, Api, Unset
  <2>4. dropped' = dropped
    BY <1>1 DEF Register
  <2> QED BY <2>2, <2>3, <2>4, RegisterGains
<1>2. ASSUME NEW t \in Threads, NEW side \in Sides, Unregister(t, side)
      PROVE  \E id \in Removable : Loses(side, id)
  BY <1>2 DEF Unregister, Loses
<1>3. ASSUME NEW t \in Threads, LoadNext(t)
      PROVE  \/ overlay' = overlay /\ dropped' = dropped
             \/ \E side \in Sides : \E e \in Entries[side], from \in Origins \ {Unset} :
                  Gains(side, e, from)
  <2>1. PICK p \in Paths, i \in Nat \ {0} : p = call[t].path /\ i = call[t].next
    BY <1>3 DEF LoadNext, TypeOK, Calls, Idle
  <2>2. i <= Size(p)
    BY <1>3, <2>1 DEF LoadNext
  <2>3. /\ RegisterEntry(Steps(p)[i].side, Steps(p)[i].entry, Steps(p)[i].from)
        /\ dropped' = dropped
    BY <1>3, <2>1 DEF LoadNext
  <2>4. i \in 1..Size(p)
    BY <2>2, SizeType
  <2>5. Accounted(Steps(p)[i].side, Steps(p)[i].entry, Steps(p)[i].from)'
    BY <2>4, StepsShape DEF Accounted, Attributed
  <2> QED BY <2>1, <2>3, <2>4, <2>5, StepsShape, RegisterGains
<1>4. ASSUME NEW t \in Threads,
             LoadBegin(t) \/ LoadReturn(t) \/ ExportTasks(t) \/ ExportModels(t)
      PROVE  overlay' = overlay /\ dropped' = dropped
  BY <1>4 DEF LoadBegin, LoadReturn, ExportTasks, ExportModels
<1>5. CASE UNCHANGED vars
  BY <1>5 DEF vars
<1> QED BY <1>1, <1>2, <1>3, <1>4, <1>5 DEF Next

\* What API callers have claimed is never forgotten.
LEMMA ClaimedStep ==
  ASSUME TypeOK, [Next]_vars
  PROVE  /\ claimed \subseteq claimed'
         /\ claimed' \subseteq Sides \X (Entries["task"] \cup Entries["model"]) \X Presets
<1>1. ASSUME NEW t \in Threads, NEW side \in Sides, Register(t, side)
      PROVE  /\ claimed \subseteq claimed'
             /\ claimed' \subseteq Sides \X (Entries["task"] \cup Entries["model"]) \X Presets
  <2>1. PICK e \in Entries[side], from \in Presets :
          claimed' \in {claimed, claimed \cup {<<side, e, from>>}}
    BY <1>1 DEF Register
  <2>2. e \in Entries["task"] \cup Entries["model"]
    BY DEF Sides
  <2> QED BY <2>1, <2>2 DEF TypeOK
<1>2. CASE UNCHANGED claimed
  BY <1>2 DEF TypeOK
<1> QED BY <1>1, <1>2
        DEF Next, vars, Unregister, LoadBegin, LoadNext, LoadReturn, ExportTasks, ExportModels

\* At the start nothing is registered and nobody calls.
LEMMA TypeInit == Init => TypeOK
BY DEF Init, TypeOK, Calls, Results, None, Idle, Sides

\* No step of a thread breaks the types.
LEMMA TypeKept == TypeOK /\ [Next]_vars => TypeOK'
<1> SUFFICES ASSUME TypeOK, [Next]_vars
             PROVE  TypeOK'
  OBVIOUS
<1>1. overlay' \in [Sides -> SUBSET Row]
  BY OverlayStep, OverlayType DEF TypeOK
<1>2. dropped' \subseteq Sides \X Removable
  BY OverlayStep DEF TypeOK, Loses, Gains
<1>3. ASSUME NEW t \in Threads, NEW r \in Results, Returns(t, r)
      PROVE  call' \in [Threads -> Calls] /\ result' \in [Threads -> Results]
  BY <1>3 DEF Returns, TypeOK, Calls
<1>4. None \in Results
  BY DEF Results
<1>5. ASSUME NEW t \in Threads, NEW side \in Sides,
             Register(t, side) \/ Unregister(t, side)
      PROVE  call' \in [Threads -> Calls] /\ result' \in [Threads -> Results]
  BY <1>3, <1>4, <1>5 DEF Register, Unregister
<1>6. ASSUME NEW t \in Threads, LoadBegin(t)
      PROVE  call' \in [Threads -> Calls] /\ result' \in [Threads -> Results]
  <2>1. PICK p \in Paths :
          \/ call' = [call EXCEPT ![t] = Loading(p, 1)] /\ result' = result
          \/ Returns(t, Loaded(p, 0, FALSE))
    BY <1>6 DEF LoadBegin
  <2>2. Loading(p, 1) \in Calls /\ Loaded(p, 0, FALSE) \in Results
    BY DEF Loading, Loaded, Calls, Results
  <2> QED BY <2>1, <2>2, <1>3 DEF TypeOK
<1>7. ASSUME NEW t \in Threads, call[t].op = "load"
      PROVE  /\ call[t].path \in Paths /\ call[t].next \in Nat \ {0}
             /\ Size(call[t].path) \in Nat
  <2>1. call[t].path \in Paths /\ call[t].next \in Nat \ {0}
    BY <1>7 DEF TypeOK, Calls, Idle
  <2> QED BY <2>1, SizeType
<1>8. ASSUME NEW t \in Threads, LoadNext(t)
      PROVE  call' \in [Threads -> Calls] /\ result' \in [Threads -> Results]
  <2> DEFINE p == call[t].path
             i == call[t].next
  <2>1. p \in Paths /\ i \in Nat \ {0}
    BY <1>7, <1>8 DEF LoadNext
  <2>2. \/ call' = [call EXCEPT ![t] = Loading(p, i + 1)] /\ result' = result
        \/ Returns(t, Loaded(p, i - 1, FALSE))
    BY <1>8 DEF LoadNext
  <2>3. Loading(p, i + 1) \in Calls /\ Loaded(p, i - 1, FALSE) \in Results
    <3> HIDE DEF p, i
    <3> QED BY <2>1 DEF Loading, Loaded, Calls, Results
  <2> QED BY <2>2, <2>3, <1>3 DEF TypeOK
<1>9. ASSUME NEW t \in Threads, LoadReturn(t)
      PROVE  call' \in [Threads -> Calls] /\ result' \in [Threads -> Results]
  <2>1. Loaded(call[t].path, Size(call[t].path), TRUE) \in Results
    BY <1>7, <1>9 DEF LoadReturn, Loaded, Results
  <2> QED BY <2>1, <1>3, <1>9 DEF LoadReturn
<1>10. ASSUME NEW t \in Threads, ExportTasks(t)
       PROVE  call' \in [Threads -> Calls] /\ result' \in [Threads -> Results]
  BY <1>10 DEF ExportTasks, TypeOK, Calls, Sides
<1>11. ASSUME NEW t \in Threads, ExportModels(t)
       PROVE  call' \in [Threads -> Calls] /\ result' \in [Threads -> Results]
  <2>1. [op |-> "export", task |-> call[t].task, model |-> overlay["model"]]
          \in Results
    BY <1>11 DEF ExportModels, TypeOK, Calls, Results, Idle, Sides
  <2> QED BY <2>1, <1>3, <1>11 DEF ExportModels
<1>12. CASE UNCHANGED vars
  BY <1>12 DEF vars, TypeOK
<1>13. CASE Next
  <2>1. PICK t \in Threads :
          \/ \E side \in Sides : Register(t, side) \/ Unregister(t, side)
          \/ LoadBegin(t) \/ LoadNext(t) \/ LoadReturn(t)
          \/ ExportTasks(t) \/ ExportModels(t)
    BY <1>13 DEF Next
  <2>2. call' \in [Threads -> Calls] /\ result' \in [Threads -> Results]
    BY <2>1, <1>5, <1>6, <1>8, <1>9, <1>10, <1>11
  <2> QED BY <2>2, <1>1, <1>2, ClaimedStep DEF TypeOK
<1> QED BY <1>1, <1>2, <1>12, <1>13, ClaimedStep DEF TypeOK

\* Every variable keeps its type, however the calls of the threads interleave.
THEOREM TypeCorrect == Spec => []TypeOK
BY TypeInit, TypeKept, PTL DEF Spec

-----------------------------------------------------------------------------
(* What the overlay may hold                                               *)

\* What comes in is admissible.
LEMMA AdmissibleKept ==
  ASSUME TypeOK, OnlyAdmissible, [Next]_vars
  PROVE  OnlyAdmissible'
<1>1. CASE overlay' = overlay
  BY <1>1 DEF OnlyAdmissible
<1>2. ASSUME NEW side \in Sides, NEW e, NEW from, Gains(side, e, from)
      PROVE  OnlyAdmissible'
  <2> SUFFICES ASSUME NEW s \in Sides, NEW r \in overlay'[s]
               PROVE  Admissible(s, r.entry)
    BY DEF OnlyAdmissible
  <2>1. r \in overlay[s] \/ (s = side /\ r = RowOf(e, from))
    BY <1>2 DEF Gains, TypeOK
  <2> QED BY <2>1, <1>2 DEF OnlyAdmissible, Gains, RowOf
<1>3. ASSUME NEW side \in Sides, NEW id, Loses(side, id)
      PROVE  OnlyAdmissible'
  BY <1>3 DEF OnlyAdmissible, Loses, TypeOK
<1> QED BY <1>1, <1>2, <1>3, OverlayStep

\* Only validated entries, none under a builtin id, ever sit in the overlay.
THEOREM OverlayAdmissible == Spec => []OnlyAdmissible
<1>1. Init => OnlyAdmissible
  BY DEF Init, OnlyAdmissible
<1> QED BY <1>1, AdmissibleKept, TypeCorrect, PTL DEF Spec

\* A row stamped with a file and an index is the entry at that place, or an
\* API caller registered that entry with that stamp.
THEOREM OverlayAttribution == Spec => []AttributionExact
<1>1. Init => AttributionExact
  BY DEF Init, AttributionExact
<1>2. TypeOK /\ AttributionExact /\ [Next]_vars => AttributionExact'
  <2> SUFFICES ASSUME TypeOK, AttributionExact, [Next]_vars
               PROVE  AttributionExact'
    OBVIOUS
  <2>1. ASSUME NEW side, NEW e, NEW from, Accounted(side, e, from)
        PROVE  Accounted(side, e, from)'
    BY <2>1, ClaimedStep DEF Accounted, Attributed
  <2>2. \A s \in Sides : \A r \in overlay[s] : Accounted(s, r.entry, r.from)
    BY DEF AttributionExact, Accounted, Attributed
  <2>3. ASSUME NEW s \in Sides, NEW r \in overlay'[s]
        PROVE  Accounted(s, r.entry, r.from)'
    <3>1. CASE r \in overlay[s]
      BY <3>1, <2>1, <2>2
    <3>2. ASSUME NEW side \in Sides, NEW e, NEW from, Gains(side, e, from)
          PROVE  r \in overlay[s] \/ (s = side /\ r = RowOf(e, from))
      BY <3>2 DEF Gains, TypeOK
    <3>3. ASSUME NEW side \in Sides, NEW e, NEW from, Gains(side, e, from)
          PROVE  Accounted(s, r.entry, r.from)'
      <4>1. CASE s = side /\ r = RowOf(e, from)
        BY <3>3, <4>1 DEF Gains, RowOf
      <4> QED BY <3>1, <3>2, <3>3, <4>1
    <3>4. ASSUME NEW side \in Sides, NEW id, Loses(side, id)
          PROVE  r \in overlay[s]
      BY <3>4 DEF Loses, TypeOK
    <3> QED BY <3>1, <3>3, <3>4, OverlayStep
  <2> QED BY <2>3 DEF AttributionExact, Accounted, Attributed
<1> QED BY <1>1, <1>2, TypeCorrect, PTL DEF Spec

-----------------------------------------------------------------------------
(* Loads                                                                   *)

\* What a load has taken stays taken: rows leave the overlay only through an
\* unregistration, and "dropped" remembers those.
LEMMA TookStable ==
  ASSUME TypeOK, [Next]_vars, NEW p \in Paths, NEW i \in 1..Size(p), Took(p, i)
  PROVE  Took(p, i)'
<1> DEFINE s == Steps(p)[i]
           row == RowOf(s.entry, s.from)
<1>1. s.side \in Sides
  BY StepsShape
<1>2. row \in overlay[s.side] \/ <<s.side, s.entry.id>> \in dropped
  BY DEF Took, RowOf
<1>3. row \in overlay'[s.side] \/ <<s.side, s.entry.id>> \in dropped' => Took(p, i)'
  BY DEF Took, RowOf, Steps, FileRow, Size
<1>4. row.entry = s.entry
  BY DEF RowOf
<1> HIDE DEF s, row
<1>5. CASE overlay' = overlay /\ dropped' = dropped
  BY <1>2, <1>3, <1>5
<1>6. ASSUME NEW side \in Sides, NEW e, NEW from, Gains(side, e, from)
      PROVE  Took(p, i)'
  BY <1>1, <1>2, <1>3, <1>6 DEF Gains, TypeOK
<1>7. ASSUME NEW side \in Sides, NEW id, Loses(side, id)
      PROVE  Took(p, i)'
  <2>1. dropped \subseteq dropped'
    BY <1>7 DEF Loses
  <2>2. CASE row \in overlay[s.side] /\ side = s.side /\ id = s.entry.id
    <3>1. id \in OwnedIds(overlay[side])
      BY <2>2, <1>4 DEF OwnedIds
    <3> QED BY <3>1, <2>2, <1>3, <1>7 DEF Loses
  <2>3. CASE row \in overlay[s.side] /\ (side # s.side \/ id # s.entry.id)
    BY <2>3, <1>1, <1>3, <1>4, <1>7 DEF Loses, TypeOK
  <2> QED BY <1>2, <1>3, <2>1, <2>2, <2>3
<1> QED BY <1>5, <1>6, <1>7, OverlayStep

\* An accepted entry has been taken by the step that accepted it.
LEMMA AcceptTakes ==
  ASSUME TypeOK, NEW p \in Paths, NEW i \in 1..Size(p),
         RegisterEntry(Steps(p)[i].side, Steps(p)[i].entry, Steps(p)[i].from),
         Accepts(Steps(p)[i].side, Steps(p)[i].entry)
  PROVE  Took(p, i)'
<1> DEFINE s == Steps(p)[i]
           row == RowOf(s.entry, s.from)
<1>1. s.side \in Sides /\ Stamp(s.from) = s.from
  BY StepsShape DEF Stamp
<1>2. row \in overlay'[s.side] => Took(p, i)'
  BY DEF Took, RowOf, Steps, FileRow, Size
<1>3. overlay' = [overlay EXCEPT ![s.side] = Insert(@, [entry |-> s.entry,
                                                       from |-> Stamp(s.from)])]
  BY DEF RegisterEntry
<1>4. row = [entry |-> s.entry, from |-> Stamp(s.from)]
  BY <1>1 DEF RowOf
<1> HIDE DEF s, row
<1>5. row \in overlay'[s.side]
  BY <1>1, <1>3, <1>4 DEF Insert, TypeOK
<1> QED BY <1>2, <1>5

\* The first k entries of file p have been taken.
Upto(p, k) ==
  /\ k <= Size(p)
  /\ \A i \in 1..k : Took(p, i)

\* The strengthening of LoadKeepsPrefix: nothing counts past the end of a file.
Prefix ==
  \A t \in Threads :
    /\ call[t].op = "load" => Upto(call[t].path, call[t].next - 1)
    /\ result[t].op = "load" => Upto(result[t].path, result[t].registered)

\* What has been taken stays taken.
LEMMA UptoStable ==
  ASSUME TypeOK, [Next]_vars, NEW p \in Paths, NEW k \in Nat, Upto(p, k)
  PROVE  Upto(p, k)'
<1>1. \A i \in 1..k : i \in 1..Size(p)
  BY SizeType DEF Upto
<1>2. \A i \in 1..k : Took(p, i)'
  BY <1>1, TookStable DEF Upto
<1>3. k <= Size(p)
  BY DEF Upto
<1> QED BY <1>2, <1>3 DEF Upto, Size

\* A load always stands after a prefix of its file, and reports one.
THEOREM LoadPrefix == Spec => []LoadKeepsPrefix
<1>1. Init => Prefix
  BY DEF Init, Prefix, Idle, None
<1>2. TypeOK /\ Prefix /\ [Next]_vars => Prefix'
  <2> SUFFICES ASSUME TypeOK, Prefix, [Next]_vars
               PROVE  Prefix'
    OBVIOUS
  <2> DEFINE InCall(t) == call[t].op = "load" => Upto(call[t].path, call[t].next - 1)
             Told(t) == result[t].op = "load" => Upto(result[t].path, result[t].registered)
  <2>1. ASSUME NEW t \in Threads, call'[t] = call[t]
        PROVE  InCall(t)'
    <3>1. call[t].op = "load" => call[t].path \in Paths /\ call[t].next - 1 \in Nat
      BY DEF TypeOK, Calls, Idle
    <3>2. call[t].op = "load" => Upto(call[t].path, call[t].next - 1)
      BY DEF Prefix
    <3>3. \A p \in Paths, k \in Nat :
            Upto(p, k) /\ p = call'[t].path /\ k = call'[t].next - 1 => InCall(t)'
      BY UptoStable DEF Upto, Size
    <3> QED BY <2>1, <3>1, <3>2, <3>3
  <2>2. ASSUME NEW t \in Threads, result'[t] = result[t]
        PROVE  Told(t)'
    <3>1. result[t].op = "load" =>
            result[t].path \in Paths /\ result[t].registered \in Nat
      BY DEF TypeOK, Results, None
    <3>2. result[t].op = "load" => Upto(result[t].path, result[t].registered)
      BY DEF Prefix
    <3>3. \A p \in Paths, k \in Nat :
            Upto(p, k) /\ p = result'[t].path /\ k = result'[t].registered => Told(t)'
      BY UptoStable DEF Upto, Size
    <3> QED BY <2>2, <3>1, <3>2, <3>3
  <2>3. ASSUME NEW t \in Threads, NEW p \in Paths, NEW k \in Nat, Upto(p, k)'
        PROVE  /\ call'[t] = Loading(p, k + 1) => InCall(t)'
               /\ \A ok : result'[t] = Loaded(p, k, ok) => Told(t)'
    <3>1. ASSUME call'[t] = Loading(p, k + 1)
          PROVE  InCall(t)'
      <4>1. p = call'[t].path /\ k = call'[t].next - 1
        BY <3>1 DEF Loading
      <4> QED BY <2>3, <4>1 DEF Upto, Size
    <3>2. ASSUME NEW ok, result'[t] = Loaded(p, k, ok)
          PROVE  Told(t)'
      <4>1. p = result'[t].path /\ k = result'[t].registered
        BY <3>2 DEF Loaded
      <4> QED BY <2>3, <4>1 DEF Upto, Size
    <3> QED BY <3>1, <3>2
  <2>4. ASSUME NEW t \in Threads
        PROVE  /\ call'[t] = Idle => InCall(t)'
               /\ result'[t].op # "load" => Told(t)'
    BY DEF Idle
  <2>5. ASSUME NEW t \in Threads, NEW r, Returns(t, r)
        PROVE  /\ call'[t] = Idle /\ result'[t] = r
               /\ \A u \in Threads \ {t} : call'[u] = call[u] /\ result'[u] = result[u]
    BY <2>5 DEF Returns, TypeOK
  <2>6. ASSUME NEW t \in Threads, NEW c, call' = [call EXCEPT ![t] = c], result' = result
        PROVE  /\ call'[t] = c
               /\ \A u \in Threads \ {t} : call'[u] = call[u]
               /\ \A u \in Threads : result'[u] = result[u]
    BY <2>6 DEF TypeOK
  <2>7. ASSUME NEW t \in Threads, NEW p \in Paths, NEW k \in Nat, Upto(p, k)',
                NEW ok, Returns(t, Loaded(p, k, ok))
         PROVE  \A u \in Threads : InCall(u)' /\ Told(u)'
    <3>1. InCall(t)' /\ Told(t)'
      BY <2>7, <2>3, <2>4, <2>5
    <3>2. \A u \in Threads \ {t} : InCall(u)' /\ Told(u)'
      BY <2>7, <2>1, <2>2, <2>5
    <3> QED BY <3>1, <3>2
  <2>8. ASSUME NEW t \in Threads, NEW p \in Paths, NEW k \in Nat, Upto(p, k)',
                call' = [call EXCEPT ![t] = Loading(p, k + 1)], result' = result
         PROVE  \A u \in Threads : InCall(u)' /\ Told(u)'
    <3>1. InCall(t)'
      <4>1. call'[t] = Loading(p, k + 1)
        BY <2>8 DEF TypeOK
      <4> QED BY <4>1, <2>8, <2>3
    <3>2. \A u \in Threads \ {t} : InCall(u)'
      BY <2>8, <2>1, <2>6
    <3>3. \A u \in Threads : Told(u)'
      BY <2>8, <2>2
    <3> QED BY <3>1, <3>2, <3>3
  <2>9. ASSUME NEW t \in Threads, NEW side \in Sides,
               Register(t, side) \/ Unregister(t, side)
        PROVE  \A u \in Threads : InCall(u)' /\ Told(u)'
    <3>1. Returns(t, None)
      BY <2>9 DEF Register, Unregister
    <3> QED BY <3>1, <2>1, <2>2, <2>4, <2>5 DEF None
  <2>10. ASSUME NEW t \in Threads, LoadBegin(t)
        PROVE  \A u \in Threads : InCall(u)' /\ Told(u)'
    <3>1. PICK p \in Paths :
            \/ call' = [call EXCEPT ![t] = Loading(p, 1)] /\ result' = result
            \/ Returns(t, Loaded(p, 0, FALSE))
      BY <2>10 DEF LoadBegin
    <3>2. Upto(p, 0)'
      <4>1. 0 <= Size(p) /\ \A i \in 1..0 : FALSE
        BY SizeType
      <4> QED BY <4>1 DEF Upto, Size
    <3>3. Loading(p, 1) = Loading(p, 0 + 1)
      OBVIOUS
    <3>4. CASE call' = [call EXCEPT ![t] = Loading(p, 1)] /\ result' = result
      BY <3>2, <3>3, <3>4, <2>8
    <3>5. CASE Returns(t, Loaded(p, 0, FALSE))
      BY <3>2, <3>5, <2>7
    <3> QED BY <3>1, <3>4, <3>5
  <2>11. ASSUME NEW t \in Threads, call[t].op = "load"
        PROVE  /\ call[t].path \in Paths /\ call[t].next \in Nat \ {0}
               /\ Upto(call[t].path, call[t].next - 1)
    BY <2>11 DEF TypeOK, Calls, Idle, Prefix
  <2>12. ASSUME NEW t \in Threads, LoadNext(t)
         PROVE  \A u \in Threads : InCall(u)' /\ Told(u)'
    <3>0. PICK p \in Paths, i \in Nat \ {0} : p = call[t].path /\ i = call[t].next
      BY <2>11, <2>12 DEF LoadNext
    <3>1. Upto(p, i - 1)
      BY <3>0, <2>11, <2>12 DEF LoadNext
    <3>2. /\ i <= Size(p)
          /\ RegisterEntry(Steps(p)[i].side, Steps(p)[i].entry, Steps(p)[i].from)
          /\ IF Accepts(Steps(p)[i].side, Steps(p)[i].entry)
               THEN call' = [call EXCEPT ![t] = Loading(p, i + 1)] /\ result' = result
               ELSE Returns(t, Loaded(p, i - 1, FALSE))
      BY <3>0, <2>12 DEF LoadNext
    <3>3. i \in 1..Size(p)
      BY <3>2, SizeType
    <3>4. \A j \in 1..(i - 1) : Took(p, j)'
      BY <3>1, <3>3, SizeType, TookStable DEF Upto
    <3>5. CASE Accepts(Steps(p)[i].side, Steps(p)[i].entry)
      <4>1. Took(p, i)'
        BY <3>1, <3>2, <3>3, <3>5, AcceptTakes
      <4>2. Upto(p, i)'
        <5>1. \A j \in 1..i : j \in 1..(i - 1) \/ j = i
          BY <3>1
        <5> QED BY <4>1, <5>1, <3>2, <3>4 DEF Upto, Size
      <4> QED BY <4>2, <3>2, <3>5, <2>8
    <3>6. CASE ~ Accepts(Steps(p)[i].side, Steps(p)[i].entry)
      <4>1. Upto(p, i - 1)' /\ i - 1 \in Nat
        BY <3>1, UptoStable
      <4> QED BY <4>1, <3>2, <3>6, <2>7
    <3> QED BY <3>5, <3>6
  <2>13. ASSUME NEW t \in Threads, LoadReturn(t)
         PROVE  \A u \in Threads : InCall(u)' /\ Told(u)'
    <3>0. PICK p \in Paths, i \in Nat \ {0} : p = call[t].path /\ i = call[t].next
      BY <2>11, <2>13 DEF LoadReturn
    <3>1. Upto(p, i - 1)
      BY <3>0, <2>11, <2>13 DEF LoadReturn
    <3>2. i > Size(p) /\ Returns(t, Loaded(p, Size(p), TRUE))
      BY <3>0, <2>13 DEF LoadReturn
    <3>3. Size(p) = i - 1 /\ Size(p) \in Nat
      BY <3>1, <3>2, SizeType DEF Upto
    <3>4. Upto(p, Size(p))'
      BY <3>1, <3>3, UptoStable
    <3> QED BY <3>2, <3>3, <3>4, <2>7
  <2>14. ASSUME NEW t \in Threads, ExportTasks(t)
         PROVE  \A u \in Threads : InCall(u)' /\ Told(u)'
    <3>1. call'[t].op # "load" => InCall(t)'
      OBVIOUS
    <3> QED BY <3>1, <2>14, <2>1, <2>2, <2>6 DEF ExportTasks
  <2>15. ASSUME NEW t \in Threads, ExportModels(t)
         PROVE  \A u \in Threads : InCall(u)' /\ Told(u)'
    BY <2>15, <2>1, <2>2, <2>4, <2>5 DEF ExportModels
  <2>16. CASE UNCHANGED vars
    BY <2>16, <2>1, <2>2 DEF vars, Prefix
  <2>17. CASE Next
    <3>1. PICK t \in Threads :
            \/ \E side \in Sides : Register(t, side) \/ Unregister(t, side)
            \/ LoadBegin(t) \/ LoadNext(t) \/ LoadReturn(t)
            \/ ExportTasks(t) \/ ExportModels(t)
      BY <2>17 DEF Next
    <3>2. \A u \in Threads : InCall(u)' /\ Told(u)'
      BY <3>1, <2>9, <2>10, <2>12, <2>13, <2>14, <2>15
    <3> QED BY <3>2 DEF Prefix
  <2> QED BY <2>16, <2>17
<1>3. TypeOK /\ Prefix => LoadKeepsPrefix
  BY DEF Prefix, Upto, LoadKeepsPrefix
<1> QED BY <1>1, <1>2, <1>3, TypeCorrect, PTL DEF Spec

-----------------------------------------------------------------------------
(* Exports                                                                 *)

\* Rows that a fresh registry would take back, in any order.
Reloads(side, rows) ==
  /\ \A r \in rows : Admissible(side, r.entry)
  /\ \A r1, r2 \in rows : r1.entry.id = r2.entry.id => r1 = r2

\* The strengthening of ExportReloads: the overlay itself, and the half that
\* an export has already read.
Exportable ==
  /\ \A side \in Sides : Reloads(side, overlay[side])
  /\ \A t \in Threads :
       /\ call[t].op = "export" => Reloads("task", call[t].task)
       /\ result[t].op = "export" =>
            Reloads("task", result[t].task) /\ Reloads("model", result[t].model)

\* Every finished export can be loaded into an empty registry, although its
\* halves were read under two locks.
THEOREM ExportSound == Spec => []ExportReloads
<1>1. Init => Exportable
  BY DEF Init, Exportable, Reloads, Idle, None
<1>2. TypeOK /\ Exportable /\ [Next]_vars => Exportable'
  <2> SUFFICES ASSUME TypeOK, Exportable, [Next]_vars
               PROVE  Exportable'
    OBVIOUS
  <2> DEFINE InCall(c) == c.op = "export" => Reloads("task", c.task)
             Told(r) == r.op = "export" => Reloads("task", r.task) /\ Reloads("model", r.model)
  <2>1. \A side \in Sides : Reloads(side, overlay'[side])
    <3>1. CASE overlay' = overlay
      BY <3>1 DEF Exportable
    <3>2. ASSUME NEW side \in Sides, NEW e, NEW from, Gains(side, e, from)
          PROVE  \A s \in Sides : Reloads(s, overlay'[s])
      <4>1. overlay'[side] = overlay[side] \cup {RowOf(e, from)}
        BY <3>2 DEF Gains, TypeOK
      <4>2. \A s \in Sides \ {side} : overlay'[s] = overlay[s]
        BY <3>2 DEF Gains, TypeOK
      <4>3. \A r \in overlay[side] : r.entry.id # e.id
        BY <3>2 DEF Gains, OwnedIds
      <4>4. Reloads(side, overlay[side]) /\ Admissible(side, e)
        BY <3>2 DEF Exportable, Gains
      <4>5. Reloads(side, overlay'[side])
        BY <4>1, <4>3, <4>4 DEF Reloads, RowOf
      <4> QED BY <4>2, <4>5 DEF Exportable
    <3>3. ASSUME NEW side \in Sides, NEW id, Loses(side, id)
          PROVE  \A s \in Sides : Reloads(s, overlay'[s])
      <4>1. \A s \in Sides : overlay'[s] \subseteq overlay[s]
        BY <3>3 DEF Loses, TypeOK
      <4> QED BY <4>1 DEF Exportable, Reloads
    <3> QED BY <3>1, <3>2, <3>3, OverlayStep
  <2>2. \A t \in Threads : InCall(call[t]) /\ Told(result[t])
    BY DEF Exportable
  <2>3. ASSUME NEW t \in Threads, NEW c, NEW r, InCall(c), Told(r),
               call' = [call EXCEPT ![t] = c], result' = [result EXCEPT ![t] = r]
        PROVE  \A u \in Threads : InCall(call'[u]) /\ Told(result'[u])
    BY <2>2, <2>3 DEF TypeOK
  <2>4. ASSUME NEW t \in Threads, NEW r, Told(r), Returns(t, r)
        PROVE  \A u \in Threads : InCall(call'[u]) /\ Told(result'[u])
    BY <2>3, <2>4 DEF Returns, Idle
  <2>5. ASSUME NEW t \in Threads, NEW c, InCall(c),
               call' = [call EXCEPT ![t] = c], result' = result
        PROVE  \A u \in Threads : InCall(call'[u]) /\ Told(result'[u])
    BY <2>2, <2>5 DEF TypeOK
  <2>6. Told(None) /\ \A p, n, ok : Told(Loaded(p, n, ok)) /\ InCall(Loading(p, n))
    BY DEF None, Loaded, Loading
  <2>7. ASSUME NEW t \in Threads, ExportTasks(t)
        PROVE  \A u \in Threads : InCall(call'[u]) /\ Told(result'[u])
    <3>1. InCall([op |-> "export", task |-> overlay["task"]])
      BY DEF Exportable, Sides
    <3> QED BY <3>1, <2>5, <2>7 DEF ExportTasks
  <2>8. ASSUME NEW t \in Threads, ExportModels(t)
        PROVE  \A u \in Threads : InCall(call'[u]) /\ Told(result'[u])
    <3>1. Told([op |-> "export", task |-> call[t].task, model |-> overlay["model"]])
      BY <2>8 DEF Exportable, Sides, ExportModels
    <3> QED BY <3>1, <2>4, <2>8 DEF ExportModels
  <2>9. ASSUME NEW t \in Threads, LoadBegin(t) \/ LoadNext(t) \/ LoadReturn(t)
        PROVE  \A u \in Threads : InCall(call'[u]) /\ Told(result'[u])
    BY <2>4, <2>5, <2>6, <2>9 DEF LoadBegin, LoadNext, LoadReturn
  <2>10. ASSUME NEW t \in Threads, NEW side \in Sides,
                Register(t, side) \/ Unregister(t, side)
         PROVE  \A u \in Threads : InCall(call'[u]) /\ Told(result'[u])
    BY <2>4, <2>6, <2>10 DEF Register, Unregister
  <2>11. CASE UNCHANGED vars
    BY <2>11 DEF vars, Exportable
  <2>12. CASE Next
    <3>1. \A u \in Threads : InCall(call'[u]) /\ Told(result'[u])
      BY <2>12, <2>7, <2>8, <2>9, <2>10 DEF Next
    <3> QED BY <3>1, <2>1 DEF Exportable
  <2> QED BY <2>11, <2>12
<1>3. Exportable => ExportReloads
  BY DEF Exportable, Reloads, ExportReloads, Sides
<1> QED BY <1>1, <1>2, <1>3, TypeCorrect, PTL DEF Spec

-----------------------------------------------------------------------------
(* Refinement                                                              *)

\* The rows the overlay of one side contributes to the book of the contract.
Listed(side, rows) == {[side |-> side, entry |-> r.entry, from |-> r.from] : r \in rows}
Book == UNION {Listed(s, overlay[s]) : s \in Sides}

\* A row is in the book exactly when its entry and stamp are in the overlay,
\* now and after a step.
LEMMA InBook ==
  ASSUME NEW b
  PROVE  /\ b \in Book <=>
              \E s \in Sides : \E r \in overlay[s] :
                b = [side |-> s, entry |-> r.entry, from |-> r.from]
         /\ b \in Book' <=>
              \E s \in Sides : \E r \in overlay'[s] :
                b = [side |-> s, entry |-> r.entry, from |-> r.from]
  BY DEF Book, Listed

\* A gained row is a new entry of the book, for an id without an owner.
LEMMA GainEnters ==
  ASSUME TypeOK, NEW side \in Sides, NEW e, NEW from, Gains(side, e, from)
  PROVE  \E b \in Book' \ Book :
           /\ Admissible(b.side, b.entry)
           /\ {r \in Book : r.side = b.side /\ r.entry.id = b.entry.id} = {}
           /\ Book' = Book \cup {b}
<1> DEFINE b == [side |-> side, entry |-> e, from |-> from]
<1>1. overlay'[side] = overlay[side] \cup {RowOf(e, from)}
  BY DEF Gains, TypeOK
<1>2. \A s \in Sides \ {side} : overlay'[s] = overlay[s]
  BY DEF Gains, TypeOK
<1>3. b \in Book'
  <2>1. RowOf(e, from) \in overlay'[side]
    BY <1>1
  <2> QED BY <2>1, InBook DEF RowOf
<1>4. \A r \in Book : ~ (r.side = side /\ r.entry.id = e.id)
  <2>1. \A o \in overlay[side] : o.entry.id # e.id
    BY DEF Gains, OwnedIds
  <2> QED BY <2>1, InBook
<1>5. b \notin Book
  BY <1>4
<1>6. ASSUME NEW r
      PROVE  r \in Book' <=> r \in Book \/ r = b
  <2>1. ASSUME r \in Book' PROVE r \in Book \/ r = b
    <3>1. PICK s \in Sides : \E o \in overlay'[s] :
            r = [side |-> s, entry |-> o.entry, from |-> o.from]
      BY <2>1, InBook
    <3>2. PICK o \in overlay'[s] : r = [side |-> s, entry |-> o.entry, from |-> o.from]
      BY <3>1
    <3>3. o \in overlay[s] \/ (s = side /\ o = RowOf(e, from))
      BY <1>1, <1>2
    <3>4. CASE o \in overlay[s]
      BY <3>2, <3>4, InBook
    <3>5. CASE s = side /\ o = RowOf(e, from)
      BY <3>2, <3>5 DEF RowOf
    <3> QED BY <3>3, <3>4, <3>5
  <2>2. ASSUME r \in Book PROVE r \in Book'
    <3>1. PICK s \in Sides : \E o \in overlay[s] :
            r = [side |-> s, entry |-> o.entry, from |-> o.from]
      BY <2>2, InBook
    <3>2. PICK o \in overlay[s] : r = [side |-> s, entry |-> o.entry, from |-> o.from]
      BY <3>1
    <3>3. o \in overlay'[s]
      BY <1>1, <1>2
    <3> QED BY <3>2, <3>3, InBook
  <2> QED BY <2>1, <2>2, <1>3
<1>7. Book' = Book \cup {b}
  BY <1>6
<1>8. Admissible(b.side, b.entry)
  BY DEF Gains
<1> QED BY <1>3, <1>4, <1>5, <1>7, <1>8

\* Rows lost are the rows of one id of the book, or there were none.
LEMMA LossStrikes ==
  ASSUME TypeOK, NEW side \in Sides, NEW id, Loses(side, id)
  PROVE  \/ Book' = Book
         \/ \E b \in Book \ Book' :
              Book' = Book \ {r \in Book : r.side = b.side /\ r.entry.id = b.entry.id}
<1>1. overlay'[side] = {r \in overlay[side] : r.entry.id # id}
  BY DEF Loses, TypeOK
<1>2. \A s \in Sides \ {side} : overlay'[s] = overlay[s]
  BY DEF Loses, TypeOK
<1>3. ASSUME NEW r
      PROVE  r \in Book' <=> r \in Book /\ ~ (r.side = side /\ r.entry.id = id)
  <2>1. ASSUME r \in Book'
        PROVE  r \in Book /\ ~ (r.side = side /\ r.entry.id = id)
    <3>1. PICK s \in Sides : \E o \in overlay'[s] :
            r = [side |-> s, entry |-> o.entry, from |-> o.from]
      BY <2>1, InBook
    <3>2. PICK o \in overlay'[s] : r = [side |-> s, entry |-> o.entry, from |-> o.from]
      BY <3>1
    <3>3. o \in overlay[s] /\ ~ (s = side /\ o.entry.id = id)
      BY <1>1, <1>2
    <3> QED BY <3>2, <3>3, InBook
  <2>2. ASSUME r \in Book, ~ (r.side = side /\ r.entry.id = id)
        PROVE  r \in Book'
    <3>1. PICK s \in Sides : \E o \in overlay[s] :
            r = [side |-> s, entry |-> o.entry, from |-> o.from]
      BY <2>2, InBook
    <3>2. PICK o \in overlay[s] : r = [side |-> s, entry |-> o.entry, from |-> o.from]
      BY <3>1
    <3>3. o \in overlay'[s]
      BY <1>1, <1>2, <2>2, <3>2
    <3> QED BY <3>2, <3>3, InBook
  <2> QED BY <2>1, <2>2
<1>4. CASE \E b \in Book : b.side = side /\ b.entry.id = id
  <2>1. PICK b \in Book : b.side = side /\ b.entry.id = id
    BY <1>4
  <2>2. b \in Book \ Book'
    BY <2>1, <1>3
  <2>3. Book' = Book \ {r \in Book : r.side = b.side /\ r.entry.id = b.entry.id}
    BY <2>1, <1>3
  <2> QED BY <2>2, <2>3
<1>5. CASE ~ \E b \in Book : b.side = side /\ b.entry.id = id
  <2>1. Book' = Book
    BY <1>3, <1>5
  <2> QED BY <2>1
<1> QED BY <1>4, <1>5

\* The registry implements its contract: the book Book, read off the overlay,
\* only ever gains an admissible row for an id without an owner or loses an
\* owner.
THEOREM RegistryImplements == Spec => ImplementsContract
<1>1. Init => Contract!Init
  BY DEF Init, Contract!Init, Sides
<1>2. TypeOK /\ [Next]_vars => [Contract!Next]_Book
  <2> SUFFICES ASSUME TypeOK, [Next]_vars
               PROVE  Contract!Next \/ Book' = Book
    OBVIOUS
  <2>1. CASE overlay' = overlay
    BY <2>1 DEF Book
  <2>2. ASSUME NEW side \in Sides, NEW e, NEW from, Gains(side, e, from)
        PROVE  Contract!Enter
    BY <2>2, GainEnters DEF Contract!Enter, Contract!Owner, Book, Listed
  <2>3. ASSUME NEW side \in Sides, NEW id, Loses(side, id)
        PROVE  Contract!Strike \/ Book' = Book
    BY <2>3, LossStrikes DEF Contract!Strike, Contract!Owner, Book, Listed
  <2> QED BY <2>1, <2>2, <2>3, OverlayStep DEF Contract!Next
<1> QED BY <1>1, <1>2, TypeCorrect, PTL
      DEF Spec, ImplementsContract, Contract!Spec, Book, Listed
=============================================================================
