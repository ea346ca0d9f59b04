------------------------------ MODULE Registry ------------------------------
(***************************************************************************)
(* The runtime overlay of acquire.rs: two RwLock<HashMap>s, one per side,  *)
(* that any thread may extend (register_task / register_model, or entry by *)
(* entry through load_registry_file), shrink with unregister_task or       *)
(* unregister_model, resolve from and export.                              *)
(*                                                                         *)
(* A section under a lock is one step.  What happens between two sections  *)
(* of one call is not: load_registry_file takes the lock once per entry    *)
(* and export_registry once per side, so other threads run in between.     *)
(*                                                                         *)
(* A registered entry is kept as a row [entry, from], "from" being the     *)
(* field registered_from that the front door stamps.                       *)
(***************************************************************************)
EXTENDS Catalog

CONSTANTS
  Threads,        \* threads calling the registry
  Entries,        \* Entries[side]: the entries callers submit
  Presets,        \* registered_from values API callers may leave in an entry
  Paths,          \* paths of registry files
  Content,        \* Content[path]: what reading that file yields
  Removable       \* the ids callers may unregister

Unset == [door |-> "unset"]           \* the empty string
Api == [door |-> "api"]
CallerSaid == [door |-> "caller"]     \* any other text an API caller left
FileRow(p, i) == [door |-> "file", path |-> p, index |-> i]

Origins ==
  {Unset, Api, CallerSaid} \cup [door : {"file"}, path : Paths, index : Nat]

Row == [entry : Entries["task"] \cup Entries["model"], from : Origins]

\* A file that parses has a version and two lists of entries.
File == [parses : BOOLEAN, version : Nat,
         task : Seq(Entries["task"]), model : Seq(Entries["model"])]

ASSUME EntriesAssumption == DOMAIN Entries = Sides
\* A caller may leave any text there, the stamp of a file included.
ASSUME PresetsAssumption == Presets \subseteq Origins
ASSUME ContentAssumption ==
  \A p \in Paths : /\ Content[p].parses \in BOOLEAN
                   /\ Content[p].version \in Nat
                   /\ Content[p].task \in Seq(Entries["task"])
                   /\ Content[p].model \in Seq(Entries["model"])

VARIABLES
  overlay,        \* overlay[side]: the registered rows
  call,           \* call[t]: the registry call thread t is inside of
  result,         \* result[t]: what its last call returned, if a load or an export
  dropped,        \* history: the <<side, id>> pairs ever unregistered
  claimed         \* history: the <<side, entry, stamp>> API callers brought in
                  \* with the stamp of a file that they had left there

vars == <<overlay, call, result, dropped, claimed>>

-----------------------------------------------------------------------------
(* The locked sections                                                     *)

OwnedIds(rows) == {r.entry.id : r \in rows}

\* HashMap::insert under the id of the entry.
Insert(rows, row) == {r \in rows : r.entry.id # row.entry.id} \cup {row}

\* Mutants of Accepts: without the builtin check, without the duplicate check,
\* without the validator.
Accepts_builtin(side, e) ==
  validate(side, e) /\ e.id \notin OwnedIds(overlay[side])
Accepts_replaces(side, e) == Admissible(side, e)
Accepts_unchecked(side, e) ==
  /\ e.id \notin builtin_ids(side)
  /\ e.id \notin OwnedIds(overlay[side])

\* Does a registration that holds the write lock now succeed?
Accepts(side, e) ==
  /\ Admissible(side, e)
  /\ e.id \notin OwnedIds(overlay[side])

Stamp(from) == IF from = Unset THEN Api ELSE from

RegisterEntry(side, e, from) ==
  overlay' = IF Accepts(side, e)
               THEN [overlay EXCEPT ![side] =
                       Insert(@, [entry |-> e, from |-> Stamp(from)])]
               ELSE overlay

\* How many entries a file lists.
Size(p) == Len(Content[p].task) + Len(Content[p].model)

\* Mutants of Steps: the index runs on into the models; it is one too small.
Steps_oneIndex(p) ==
  LET n == Len(Content[p].task)
  IN [i \in 1..Size(p) |->
        IF i <= n THEN [side |-> "task", entry |-> Content[p].task[i],
                        from |-> FileRow(p, i - 1)]
                  ELSE [side |-> "model", entry |-> Content[p].model[i - n],
                        from |-> FileRow(p, i - 1)]]
Steps_early(p) ==
  LET n == Len(Content[p].task)
  IN [i \in 1..Size(p) |->
        IF i <= n THEN [side |-> "task", entry |-> Content[p].task[i],
                        from |-> FileRow(p, i - 2)]
                  ELSE [side |-> "model", entry |-> Content[p].model[i - n],
                        from |-> FileRow(p, i - n - 2)]]

\* The entries of a file in the order they are registered, tasks first; the
\* index in the stamp restarts with the models.
Steps(p) ==
  LET n == Len(Content[p].task)
  IN [i \in 1..Size(p) |->
        IF i <= n
          THEN [side |-> "task", entry |-> Content[p].task[i],
                from |-> FileRow(p, i - 1)]
          ELSE [side |-> "model", entry |-> Content[p].model[i - n],
                from |-> FileRow(p, i - n - 1)]]

-----------------------------------------------------------------------------
(* Calls                                                                   *)

Idle == [op |-> "idle"]
None == [op |-> "none"]
Loading(p, i) == [op |-> "load", path |-> p, next |-> i]
Loaded(p, n, ok) == [op |-> "load", path |-> p, registered |-> n, ok |-> ok]

Returns(t, r) ==
  /\ call' = [call EXCEPT ![t] = Idle]
  /\ result' = [result EXCEPT ![t] = r]

\* register_task / register_model: validate, refuse a builtin id, stamp, then
\* check and insert under the write lock.
Register(t, side) ==
  /\ call[t] = Idle
  /\ \E e \in Entries[side], from \in Presets :
       /\ RegisterEntry(side, e, from)
       /\ claimed' = IF Accepts(side, e) /\ from.door = "file"
                       THEN claimed \cup {<<side, e, from>>} ELSE claimed
       /\ Returns(t, None)
  /\ UNCHANGED dropped

\* unregister_task / unregister_model.
Unregister(t, side) ==
  /\ call[t] = Idle
  /\ \E id \in Removable :
       /\ overlay' = [overlay EXCEPT ![side] = {r \in @ : r.entry.id # id}]
       /\ dropped' = IF id \in OwnedIds(overlay[side])
                       THEN dropped \cup {<<side, id>>} ELSE dropped
       /\ Returns(t, None)
  /\ UNCHANGED claimed

\* load_registry_file up to its loops: read, parse, check the version.
LoadBegin(t) ==
  /\ call[t] = Idle
  /\ \E p \in Paths :
       IF Content[p].parses /\ Content[p].version = 1
         THEN /\ call' = [call EXCEPT ![t] = Loading(p, 1)]
              /\ UNCHANGED result
         ELSE Returns(t, Loaded(p, 0, FALSE))
  /\ UNCHANGED <<overlay, dropped, claimed>>

\* Mutant of LoadNext: a refused entry is skipped and the load goes on.
LoadNext_skips(t) ==
  /\ call[t].op = "load"
  /\ call[t].next <= Size(call[t].path)
  /\ LET s == Steps(call[t].path)[call[t].next]
     IN RegisterEntry(s.side, s.entry, s.from)
  /\ call' = [call EXCEPT ![t].next = @ + 1]
  /\ UNCHANGED <<result, dropped, claimed>>

\* One iteration: register the next entry; the first refusal ends the call
\* and takes nothing back.
LoadNext(t) ==
  /\ call[t].op = "load"
  /\ LET p == call[t].path
         i == call[t].next
     IN /\ i <= Size(p)
        /\ RegisterEntry(Steps(p)[i].side, Steps(p)[i].entry, Steps(p)[i].from)
        /\ IF Accepts(Steps(p)[i].side, Steps(p)[i].entry)
             THEN /\ call' = [call EXCEPT ![t] = Loading(p, i + 1)]
                  /\ UNCHANGED result
             ELSE Returns(t, Loaded(p, i - 1, FALSE))
  /\ UNCHANGED <<dropped, claimed>>

LoadReturn(t) ==
  /\ call[t].op = "load"
  /\ call[t].next > Size(call[t].path)
  /\ Returns(t, Loaded(call[t].path, Size(call[t].path), TRUE))
  /\ UNCHANGED <<overlay, dropped, claimed>>

\* export_registry: a snapshot of the tasks, then one of the models.
ExportTasks(t) ==
  /\ call[t] = Idle
  /\ call' = [call EXCEPT ![t] = [op |-> "export", task |-> overlay["task"]]]
  /\ UNCHANGED <<overlay, result, dropped, claimed>>

ExportModels(t) ==
  /\ call[t].op = "export"
  /\ Returns(t, [op |-> "export", task |-> call[t].task,
                 model |-> overlay["model"]])
  /\ UNCHANGED <<overlay, dropped, claimed>>

Init ==
  /\ overlay = [s \in Sides |-> {}]
  /\ call = [t \in Threads |-> Idle]
  /\ result = [t \in Threads |-> None]
  /\ dropped = {}
  /\ claimed = {}

Next ==
  \E t \in Threads :
    \/ \E side \in Sides : Register(t, side) \/ Unregister(t, side)
    \/ LoadBegin(t) \/ LoadNext(t) \/ LoadReturn(t)
    \/ ExportTasks(t) \/ ExportModels(t)

Spec == Init /\ [][Next]_vars

-----------------------------------------------------------------------------
(* Properties                                                              *)

\* Every variable keeps its shape, and a stamp counts entries from zero.
Calls ==
  {Idle} \cup [op : {"load"}, path : Paths, next : Nat \ {0}]
         \cup [op : {"export"}, task : SUBSET Row]
Results ==
  {None} \cup [op : {"load"}, path : Paths, registered : Nat, ok : BOOLEAN]
         \cup [op : {"export"}, task : SUBSET Row, model : SUBSET Row]

TypeOK ==
  /\ overlay \in [Sides -> SUBSET Row]
  /\ call \in [Threads -> Calls]
  /\ result \in [Threads -> Results]
  /\ dropped \subseteq Sides \X Removable
  /\ claimed \subseteq Sides \X (Entries["task"] \cup Entries["model"]) \X Presets

\* Whatever the threads do, only validated entries sit in the overlay and
\* none of them owns the id of a builtin of its side: resolve_task and
\* resolve_model can hand an overlay entry to open() without looking again.
OnlyAdmissible ==
  \A side \in Sides : \A r \in overlay[side] : Admissible(side, r.entry)

\* The registry implements its contract: one owner per id, rows come in one
\* at a time, a registered row is never replaced (racing registrations and
\* racing loads included) and leaves only through an unregistration.
Contract == INSTANCE RegistryContract
              WITH book <- UNION {{[side |-> s, entry |-> r.entry, from |-> r.from] :
                                     r \in overlay[s]} : s \in Sides}
ImplementsContract == Contract!Spec

\* A row stamped "path#index" is the entry that file holds at that place, so
\* the text open() prints to name the origin of unmeasured weights is true -
\* unless an API caller brought in this very entry with this very stamp.
AttributionExact ==
  \A side \in Sides : \A r \in overlay[side] :
    r.from.door = "file" /\ <<side, r.entry, r.from>> \notin claimed =>
      /\ r.from.index < Len(Content[r.from.path][side])
      /\ r.entry = Content[r.from.path][side][r.from.index + 1]

\* The i-th entry of file p is in the overlay under its stamp, or somebody has
\* unregistered its id since.
Took(p, i) ==
  LET s == Steps(p)[i]
  IN \/ [entry |-> s.entry, from |-> s.from] \in overlay[s.side]
     \/ <<s.side, s.entry.id>> \in dropped

\* A load registers a prefix of its file, in order, and what it reports is
\* what it did: while it runs, and after it has failed half-way, everything
\* before the entry it stopped at is in place and stays.
LoadKeepsPrefix ==
  \A t \in Threads :
    /\ call[t].op = "load" =>
         \A i \in 1..(call[t].next - 1) : Took(call[t].path, i)
    /\ result[t].op = "load" =>
         \A i \in 1..result[t].registered : Took(result[t].path, i)

\* An export can be loaded into a fresh process: each half lists admissible
\* entries with distinct ids, although the halves are read under two locks.
ExportReloads ==
  \A t \in Threads : result[t].op = "export" =>
    \A side \in Sides :
      /\ \A r \in result[t][side] : Admissible(side, r.entry)
      /\ \A r1, r2 \in result[t][side] :
           r1.entry.id = r2.entry.id => r1 = r2
=============================================================================
