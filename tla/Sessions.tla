------------------------------ MODULE Sessions ------------------------------
(***************************************************************************)
(* Python threads that share one loaded model.  A call borrows the object, *)
(* lets go of the GIL, encodes its items into rows, puts the rows through  *)
(* the ONNX session in padded batches under the session's write lock,      *)
(* takes the outputs apart again, and comes back for the GIL.              *)
(*                                                                         *)
(* The loaders differ in their batches: JinaV5 and JinaV5Vision ("embed")  *)
(* run one text after another and let go of the lock in between; Reranker  *)
(* and Decider ("pair") and LayaDecider ("laya") run once for all rows;    *)
(* Decider2B ("2b") sorts its rows by length, packs them into batches of   *)
(* a bounded area and keeps the lock for all of them.                      *)
(*                                                                         *)
(* A row's output stands for the logits of that row: it says whose row was *)
(* fed to the session.                                                     *)
(***************************************************************************)
EXTENDS Integers, Sequences

CONSTANTS
  Threads,
  Calls,          \* Calls[loader]: the calls made, each the row lengths of its items
  MaxCalls        \* bound: calls per thread

Loaders == {"embed", "pair", "laya", "2b"}

ASSUME CallsAssumption ==
  /\ Calls \in [Loaders -> SUBSET Seq(Seq(Nat))]
  /\ \A l \in Loaders \ {"2b"} : \A c \in Calls[l] : \A i \in DOMAIN c : Len(c[i]) = 1

ASSUME MaxCallsAssumption == MaxCalls \in Nat

VARIABLES
  loader,         \* which loader the shared model belongs to
  gil,            \* the thread that keeps the GIL across steps, or Nobody
  lock,           \* the thread that holds the session's write lock, or Nobody
  poisoned,       \* has a thread panicked with the lock?
  map,            \* the binning map installed, by number
  call,           \* call[t]: where thread t is
  reply,          \* reply[t]: {what its last call came back with}, or {}
  left            \* left[t]: the calls it may still make

vars == <<loader, gil, lock, poisoned, map, call, reply, left>>

Nobody == "nobody"

ASSUME NobodyAssumption == Nobody \notin Threads

\* What a call comes back with.
Answered(answers) == [ok |-> TRUE, answers |-> answers]
Raised == [ok |-> FALSE, answers |-> << >>]

\* The constants of decider2b.rs.
ROW_BUDGET == 8192
SEQ_MULTIPLE == 64

\* The width a row is padded to.
Width(n) == ((n + SEQ_MULTIPLE - 1) \div SEQ_MULTIPLE) * SEQ_MULTIPLE

Idle ==
  [pc |-> "idle", items |-> << >>, rows |-> << >>, plan |-> << >>, order |-> << >>,
   batches |-> << >>, outs |-> << >>, answers |-> << >>, outcome |-> Raised]

\* The threads that hold a shared borrow of the Python object.
Borrowers == {t \in Threads : call[t].pc \notin {"idle", "opening"}}

\* The logits the session makes of row j of item i of thread t; << >> before.
Output(t, i, j) == <<[of |-> t, item |-> i, level |-> j]>>

\* The call of t goes on with these fields.
Goes(t, c) == call' = [call EXCEPT ![t] = c]
Fails(t) == Goes(t, [call[t] EXCEPT !.pc = "attach", !.outcome = Raised])

-----------------------------------------------------------------------------
(* Entering                                                                *)

\* The GIL is free: parse the arguments, borrow the object, detach.
Begin(t) ==
  /\ call[t].pc = "idle" /\ gil = Nobody /\ left[t] > 0
  /\ \E c \in Calls[loader] :
       Goes(t, [Idle EXCEPT !.pc = "encode", !.items = c])
  /\ left' = [left EXCEPT ![t] = @ - 1]
  /\ UNCHANGED <<loader, gil, lock, poisoned, map, reply>>

\* Mutant of LoadMap: the map sits behind a lock of its own, and a shared borrow
\* is enough to replace it.
LoadMap_shared(t) ==
  /\ loader = "laya" /\ call[t].pc = "idle" /\ gil = Nobody /\ left[t] > 0
  /\ map' = map + 1
  /\ left' = [left EXCEPT ![t] = @ - 1]
  /\ UNCHANGED <<loader, gil, lock, poisoned, call, reply>>

\* load_binning_map(&mut self), with the GIL throughout: it raises while
\* somebody borrows the object, and leaves the map when the file is no map.
LoadMap(t) ==
  /\ loader = "laya" /\ call[t].pc = "idle" /\ gil = Nobody /\ left[t] > 0
  /\ map' \in IF Borrowers = {} THEN {map, map + 1} ELSE {map}
  /\ left' = [left EXCEPT ![t] = @ - 1]
  /\ UNCHANGED <<loader, gil, lock, poisoned, call, reply>>

\* Another open() keeps the GIL while it downloads and loads.
Open(t) ==
  /\ call[t].pc = "idle" /\ gil = Nobody /\ left[t] > 0
  /\ gil' = t
  /\ Goes(t, [Idle EXCEPT !.pc = "opening"])
  /\ left' = [left EXCEPT ![t] = @ - 1]
  /\ UNCHANGED <<loader, lock, poisoned, map, reply>>

Opened(t) ==
  /\ call[t].pc = "opening"
  /\ gil' = Nobody
  /\ Goes(t, Idle)
  /\ UNCHANGED <<loader, lock, poisoned, map, reply, left>>

-----------------------------------------------------------------------------
(* Encoding and batching                                                   *)

Encoded(t) == Len(call[t].plan) = Len(call[t].items)

\* The places of an item's k rows in the shared list of rows.
rebase(base, k) == [j \in 1..k |-> base + j]

\* One item becomes its rows.  A text is run before the next one is encoded.
EncodeNext(t) ==
  /\ call[t].pc = "encode" /\ ~Encoded(t)
  /\ LET c == call[t]
         i == Len(c.plan) + 1
         k == Len(c.items[i])
         more == [j \in 1..k |-> [item |-> i, level |-> j, len |-> c.items[i][j]]]
         places == rebase(Len(c.rows), k)
     IN Goes(t, [c EXCEPT
          !.rows = @ \o more,
          !.plan = Append(@, places),
          !.outs = @ \o [j \in 1..k |-> << >>],
          !.batches = IF loader = "embed"
                        THEN <<[rows |-> places, width |-> c.items[i][1]]>> ELSE @,
          !.pc = IF loader = "embed" THEN "lock" ELSE @])
  /\ UNCHANGED <<loader, gil, lock, poisoned, map, reply, left>>

\* Tokenizing fails, or an item is not valid.
Refuse(t) ==
  /\ call[t].pc = "encode" /\ ~Encoded(t)
  /\ Fails(t)
  /\ UNCHANGED <<loader, gil, lock, poisoned, map, reply, left>>

\* Every text has been run; or there were no items, and Reranker and Decider
\* return at once.
NothingToRun(t) ==
  /\ call[t].pc = "encode" /\ Encoded(t)
  /\ loader = "embed" \/ (loader = "pair" /\ call[t].items = << >>)
  /\ Goes(t, [call[t] EXCEPT !.pc = "decode"])
  /\ UNCHANGED <<loader, gil, lock, poisoned, map, reply, left>>

\* One batch of all rows, as wide as the longest.
Collate(t) ==
  /\ call[t].pc = "encode" /\ Encoded(t)
  /\ loader = "laya" \/ (loader = "pair" /\ call[t].items # << >>)
  /\ \E w \in {0} \cup {call[t].rows[r].len : r \in DOMAIN call[t].rows} :
       /\ \A r \in DOMAIN call[t].rows : call[t].rows[r].len <= w
       /\ Goes(t, [call[t] EXCEPT
            !.batches = <<[rows |-> [r \in DOMAIN call[t].rows |-> r], width |-> w]>>,
            !.pc = "lock"])
  /\ UNCHANGED <<loader, gil, lock, poisoned, map, reply, left>>

\* The rows by length, those of one length as they came: slice::sort_by_key.
SortsByLength(p, rows) ==
  /\ \A r \in DOMAIN rows : \E i \in DOMAIN p : p[i] = r
  /\ \A i, j \in DOMAIN p : i < j =>
       \/ rows[p[i]].len < rows[p[j]].len
       \/ rows[p[i]].len = rows[p[j]].len /\ p[i] < p[j]

Sort(t) ==
  /\ call[t].pc = "encode" /\ Encoded(t) /\ loader = "2b"
  /\ \E p \in [DOMAIN call[t].rows -> DOMAIN call[t].rows] :
       /\ SortsByLength(p, call[t].rows)
       /\ Goes(t, [call[t] EXCEPT !.order = p, !.pc = "pack"])
  /\ UNCHANGED <<loader, gil, lock, poisoned, map, reply, left>>

\* Mutant of Fits: the row about to join is not counted.
Fits_short(order, rows, j) ==
  j = 1 \/ Width(rows[order[j]].len) * (j - 1) <= ROW_BUDGET

\* May the batch that starts the order reach to its j-th row?
Fits(order, rows, j) ==
  j = 1 \/ Width(rows[order[j]].len) * j <= ROW_BUDGET

\* The outer loop of pack_row_batches: the next batch is as long as it may be.
Pack(t) ==
  /\ call[t].pc = "pack" /\ call[t].order # << >>
  /\ \E n \in DOMAIN call[t].order :
       LET c == call[t]
       IN /\ \A j \in 1..n : Fits(c.order, c.rows, j)
          /\ n < Len(c.order) => ~Fits(c.order, c.rows, n + 1)
          /\ Goes(t, [c EXCEPT
               !.batches = Append(@, [rows |-> SubSeq(c.order, 1, n),
                                      width |-> Width(c.rows[c.order[n]].len)]),
               !.order = SubSeq(@, n + 1, Len(@))])
  /\ UNCHANGED <<loader, gil, lock, poisoned, map, reply, left>>

Packed(t) ==
  /\ call[t].pc = "pack" /\ call[t].order = << >>
  /\ Goes(t, [call[t] EXCEPT !.pc = "lock"])
  /\ UNCHANGED <<loader, gil, lock, poisoned, map, reply, left>>

-----------------------------------------------------------------------------
(* The session                                                             *)

\* Mutant of Lock: a poisoned lock is taken all the same.
Lock_intoInner(t) ==
  /\ call[t].pc = "lock" /\ lock = Nobody
  /\ lock' = t /\ Goes(t, [call[t] EXCEPT !.pc = "run"])
  /\ UNCHANGED <<loader, gil, poisoned, map, reply, left>>

\* RwLock::write, which refuses a poisoned lock.
Lock(t) ==
  /\ call[t].pc = "lock" /\ lock = Nobody
  /\ IF poisoned THEN Fails(t) /\ UNCHANGED lock
     ELSE lock' = t /\ Goes(t, [call[t] EXCEPT !.pc = "run"])
  /\ UNCHANGED <<loader, gil, poisoned, map, reply, left>>

\* Mutant of Scatter: the outputs go where they come in the batch.
Scatter_inOrder(outs, batch, outputs) ==
  [r \in DOMAIN outs |-> IF r \in DOMAIN batch.rows THEN outputs[r] ELSE outs[r]]

\* The b-th output of a batch belongs to the b-th row that was put into it.
Scatter(outs, batch, outputs) ==
  [r \in DOMAIN outs |->
     IF \E b \in DOMAIN batch.rows : batch.rows[b] = r
       THEN outputs[CHOOSE b \in DOMAIN batch.rows : batch.rows[b] = r]
       ELSE outs[r]]

\* One run of the session: the next batch.
Run(t) ==
  /\ call[t].pc = "run" /\ call[t].batches # << >>
  /\ LET c == call[t]
         batch == Head(c.batches)
         outputs == [b \in DOMAIN batch.rows |->
                       LET row == c.rows[batch.rows[b]]
                       IN Output(t, row.item, row.level)]
     IN Goes(t, [c EXCEPT !.outs = Scatter(@, batch, outputs), !.batches = Tail(@)])
  /\ UNCHANGED <<loader, gil, lock, poisoned, map, reply, left>>

\* Mutant of RunFails: the error path forgets the guard.
RunFails_locked(t) ==
  /\ call[t].pc = "run" /\ call[t].batches # << >>
  /\ Fails(t)
  /\ UNCHANGED <<loader, gil, lock, poisoned, map, reply, left>>

\* The run returns an error, or outputs of another shape: the guard is dropped
\* on the way out.  (Three loaders look at the shape just after they drop it.)
RunFails(t) ==
  /\ call[t].pc = "run" /\ call[t].batches # << >>
  /\ lock' = Nobody
  /\ Fails(t)
  /\ UNCHANGED <<loader, gil, poisoned, map, reply, left>>

\* The run panics: dropping the guard poisons the lock, and PyO3 turns the
\* panic into an exception.
RunPanics(t) ==
  /\ call[t].pc = "run" /\ call[t].batches # << >>
  /\ lock' = Nobody /\ poisoned' = TRUE
  /\ Fails(t)
  /\ UNCHANGED <<loader, gil, map, reply, left>>

\* All batches are through: the guard goes out of scope.
Unlock(t) ==
  /\ call[t].pc = "run" /\ call[t].batches = << >>
  /\ lock' = Nobody
  /\ Goes(t, [call[t] EXCEPT !.pc = IF loader = "embed" THEN "encode" ELSE "decode"])
  /\ UNCHANGED <<loader, gil, poisoned, map, reply, left>>

-----------------------------------------------------------------------------
(* Answering                                                               *)

\* One item is answered from the outputs of its rows, under the map of now.
DecodeNext(t) ==
  /\ call[t].pc = "decode" /\ Len(call[t].answers) < Len(call[t].plan)
  /\ LET c == call[t]
         places == c.plan[Len(c.answers) + 1]
     IN Goes(t, [c EXCEPT !.answers =
          Append(@, [logits |-> [j \in DOMAIN places |-> c.outs[places[j]]], map |-> map])])
  /\ UNCHANGED <<loader, gil, lock, poisoned, map, reply, left>>

Finish(t) ==
  /\ call[t].pc = "decode" /\ Len(call[t].answers) = Len(call[t].plan)
  /\ Goes(t, [call[t] EXCEPT !.pc = "attach", !.outcome = Answered(call[t].answers)])
  /\ UNCHANGED <<loader, gil, lock, poisoned, map, reply, left>>

\* Back with the GIL: the call returns and its borrow ends.
Attach(t) ==
  /\ call[t].pc = "attach" /\ gil = Nobody
  /\ reply' = [reply EXCEPT ![t] = {call[t].outcome}]
  /\ Goes(t, Idle)
  /\ UNCHANGED <<loader, gil, lock, poisoned, map, left>>

-----------------------------------------------------------------------------
Init ==
  /\ loader \in Loaders
  /\ gil = Nobody /\ lock = Nobody /\ poisoned = FALSE /\ map = 0
  /\ call = [t \in Threads |-> Idle]
  /\ reply = [t \in Threads |-> {}]
  /\ left = [t \in Threads |-> MaxCalls]

\* What a thread does once it is inside a call.
Step(t) ==
  \/ Opened(t)
  \/ EncodeNext(t) \/ Refuse(t) \/ NothingToRun(t) \/ Collate(t)
  \/ Sort(t) \/ Pack(t) \/ Packed(t)
  \/ Lock(t) \/ Run(t) \/ RunFails(t) \/ RunPanics(t) \/ Unlock(t)
  \/ DecodeNext(t) \/ Finish(t) \/ Attach(t)

\* Every thread has made its calls.
Over ==
  /\ \A t \in Threads : call[t].pc = "idle"
  /\ UNCHANGED vars

Next ==
  \/ \E t \in Threads : Begin(t) \/ LoadMap(t) \/ Open(t) \/ Step(t)
  \/ Over

\* The operating system runs every thread that can run.
Fairness == \A t \in Threads : WF_vars(Step(t))

Spec == Init /\ [][Next]_vars /\ Fairness

-----------------------------------------------------------------------------
(* Properties                                                              *)

\* The variables keep their types, and the lock belongs to the thread that is
\* inside the session.
TypeOK ==
  /\ loader \in Loaders
  /\ gil \in Threads \cup {Nobody} /\ lock \in Threads \cup {Nobody}
  /\ poisoned \in BOOLEAN /\ map \in Nat
  /\ left \in [Threads -> 0..MaxCalls]
  /\ \A t \in Threads :
       /\ call[t].items \in Calls[loader] \cup {<< >>}
       /\ call[t].rows \in Seq([item : Nat, level : Nat, len : Nat])
       /\ Len(call[t].outs) = Len(call[t].rows)
  /\ \A t \in Threads : lock = t <=> call[t].pc = "run"

\* pack_row_batches and the single batches: every row that has no output yet is
\* in exactly one batch still to run, once; none is wider than its batch (the
\* padding would underflow); and a batch of several rows keeps to the budget.
BatchesSound ==
  \A t \in Threads :
    LET c == call[t]
        Places == {p \in (DOMAIN c.batches) \X (DOMAIN c.rows) :
                     p[2] \in DOMAIN c.batches[p[1]].rows}
    IN c.pc \in {"lock", "run"} =>
         /\ \A r \in DOMAIN c.rows :
              IF c.outs[r] # << >>
                THEN \A p \in Places : c.batches[p[1]].rows[p[2]] # r
                ELSE \E p \in Places : \A q \in Places :
                       c.batches[q[1]].rows[q[2]] = r <=> p = q
         /\ \A p \in Places :
              c.rows[c.batches[p[1]].rows[p[2]]].len <= c.batches[p[1]].width
         /\ loader = "2b" => \A b \in DOMAIN c.batches :
              \/ Len(c.batches[b].rows) = 1
              \/ c.batches[b].width * Len(c.batches[b].rows) <= ROW_BUDGET

\* The answer to thread t's items under a map: each item gets the outputs of its
\* own rows, in their order.
Answers(t, items, m) ==
  Answered([i \in DOMAIN items |->
    [logits |-> [j \in DOMAIN items[i] |-> Output(t, i, j)], map |-> m]])

\* The answers a call is about to return are those of its own items, in the
\* order it gave them, whatever the batches did to the rows and whatever other
\* threads run.
OwnAnswers ==
  \A t \in Threads :
    call[t].outcome.ok => \E m \in 0..map : call[t].outcome = Answers(t, call[t].items, m)

\* One call's answers are all remapped by the same map: the borrow keeps
\* load_binning_map out for as long as the call lasts.
OneMap ==
  \A t \in Threads :
    \A i, j \in DOMAIN call[t].answers : call[t].answers[i].map = call[t].answers[j].map

\* A session that panicked half-way through a run is never run again.
NoRunAfterPanic ==
  poisoned => \A t \in Threads : call[t].pc # "run"

\* The model implements its contract, and every call comes back: no thread
\* waits for ever on the GIL, the borrow or the lock, failures included.
Contract == INSTANCE SessionContract
              WITH Questions <- UNION {Calls[l] : l \in Loaders},
                   asked <- [t \in Threads |->
                               IF t \in Borrowers THEN {call[t].items} ELSE {}],
                   replied <- reply
ImplementsContract == Contract!Spec
=============================================================================
