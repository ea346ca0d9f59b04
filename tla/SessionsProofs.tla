--------------------------- MODULE SessionsProofs ---------------------------
(***************************************************************************)
(* What holds of any number of threads on one model, whatever they ask.    *)
(*                                                                         *)
(* That a call returns its own answers is not inductive: one needs where   *)
(* each item's rows are (Planned), that an output is its own row's         *)
(* (OwnOutputs), and that a row without an output is still in a batch, or  *)
(* in the order the next batch is cut from (NoneLost).  That it answers    *)
(* under one map needs that an idle thread has no answers (Answering).     *)
(***************************************************************************)
EXTENDS Sessions, SequenceTheorems, TLAPS

Row == [item : Nat, level : Nat, len : Nat]
Logit == [of : Threads, item : Nat, level : Nat]
AnswerOf == [logits : Seq(Seq(Logit)), map : Nat]
Outcome == [ok : BOOLEAN, answers : Seq(AnswerOf)]
Batch == [rows : Seq(Nat), width : Nat]
PCs == {"idle", "opening", "encode", "pack", "lock", "run", "decode", "attach"}

Call ==
  [pc : PCs, items : Seq(Seq(Nat)), rows : Seq(Row), plan : Seq(Seq(Nat)),
   order : Seq(Nat), batches : Seq(Batch), outs : Seq(Seq(Logit)),
   answers : Seq(AnswerOf), outcome : Outcome]

\* Each item planned has a row for each of its levels, and knows where.
Planned(c) ==
  /\ Len(c.plan) <= Len(c.items)
  /\ \A i \in 1..Len(c.plan) :
       /\ Len(c.plan[i]) = Len(c.items[i])
       /\ \A j \in 1..Len(c.plan[i]) :
            /\ c.plan[i][j] \in 1..Len(c.rows)
            /\ c.rows[c.plan[i][j]].item = i
            /\ c.rows[c.plan[i][j]].level = j

\* An output is that of its row.
OwnOutputs(t, c) ==
  /\ Len(c.outs) = Len(c.rows)
  /\ \A r \in 1..Len(c.rows) :
       c.outs[r] \in {<< >>, Output(t, c.rows[r].item, c.rows[r].level)}

InBatch(r, b) == \E i \in 1..Len(b.rows) : b.rows[i] = r
InBatches(r, bs) == \E b \in 1..Len(bs) : InBatch(r, bs[b])
InOrder(r, order) == \E i \in 1..Len(order) : order[i] = r

\* A row that has no output yet is still to be run, and what is to be packed are
\* rows.
NoneLost(l, c) ==
  /\ c.pc = "encode" /\ l = "embed" => \A r \in 1..Len(c.rows) : c.outs[r] # << >>
  /\ c.pc = "pack" =>
       /\ \A r \in 1..Len(c.rows) :
            c.outs[r] = << >> => InBatches(r, c.batches) \/ InOrder(r, c.order)
       /\ \A i \in 1..Len(c.order) : c.order[i] \in 1..Len(c.rows)
  /\ c.pc \in {"lock", "run"} =>
       \A r \in 1..Len(c.rows) : c.outs[r] = << >> => InBatches(r, c.batches)

\* From the batches on every item is encoded, and nothing is decoded before all
\* outputs are there.
Complete(l, c) ==
  /\ c.pc \in {"pack", "decode"} => Len(c.plan) = Len(c.items)
  /\ c.pc \in {"lock", "run"} /\ l # "embed" => Len(c.plan) = Len(c.items)
  /\ c.pc = "decode" =>
       \A i \in 1..Len(c.plan) : \A j \in 1..Len(c.plan[i]) : c.outs[c.plan[i][j]] # << >>

\* The answer to the i-th item of thread t.
ItemAnswer(t, c, m, i) ==
  [logits |-> [j \in 1..Len(c.items[i]) |-> Output(t, i, j)], map |-> m]

\* What has been answered is right, under the map of now; an idle thread has no
\* answers.
Answering(t, c, m) ==
  /\ Len(c.answers) <= Len(c.items)
  /\ \A i \in 1..Len(c.answers) : c.answers[i] = ItemAnswer(t, c, m, i)
  /\ c.outcome.ok => c.pc = "attach" /\ c.outcome = Answers(t, c.items, m)
  /\ ~c.outcome.ok => c.outcome = Raised
  /\ c.pc \in {"idle", "opening"} => c.answers = << >>

Sound(l, t, c, m) ==
  /\ c \in Call
  /\ c.items \in Calls[l] \cup {<< >>}
  /\ Planned(c) /\ OwnOutputs(t, c) /\ NoneLost(l, c) /\ Complete(l, c)
  /\ Answering(t, c, m)

\* The lock belongs to the thread that is inside the session.
Owned == \A t \in Threads : lock = t <=> call[t].pc = "run"

IInv ==
  /\ loader \in Loaders
  /\ gil \in Threads \cup {Nobody} /\ lock \in Threads \cup {Nobody}
  /\ poisoned \in BOOLEAN /\ map \in Nat
  /\ left \in [Threads -> 0..MaxCalls]
  /\ call \in [Threads -> Call]
  /\ \A t \in Threads : Sound(loader, t, call[t], map)
  /\ Owned /\ NoRunAfterPanic

-----------------------------------------------------------------------------
(* One thread moves                                                        *)

\* Whether a call is planned depends on its items, its plan and its rows only.
LEMMA SamePlan ==
  ASSUME NEW c, NEW d, Planned(c),
         d.items = c.items, d.plan = c.plan, d.rows = c.rows
  PROVE  Planned(d)
PROOF
  <1>. DEFINE P(items, plan, rows) ==
         /\ Len(plan) <= Len(items)
         /\ \A i \in 1..Len(plan) :
              /\ Len(plan[i]) = Len(items[i])
              /\ \A j \in 1..Len(plan[i]) :
                   /\ plan[i][j] \in 1..Len(rows)
                   /\ rows[plan[i][j]].item = i
                   /\ rows[plan[i][j]].level = j
  <1>1. Planned(c) <=> P(c.items, c.plan, c.rows)
    BY DEF Planned
  <1>2. Planned(d) <=> P(d.items, d.plan, d.rows)
    BY DEF Planned
  <1>. HIDE DEF P
  <1>. QED
    BY <1>1, <1>2

\* When the call of one thread goes on soundly, and the lock goes with it, the
\* invariant is kept.
LEMMA OneMoves ==
  ASSUME IInv, NEW t \in Threads, NEW d, call' = [call EXCEPT ![t] = d],
         UNCHANGED <<loader, map>>, Sound(loader, t, d, map),
         gil' \in Threads \cup {Nobody}, left' \in [Threads -> 0..MaxCalls],
         \/ UNCHANGED <<lock, poisoned>> /\ (d.pc = "run" <=> call[t].pc = "run")
         \/ /\ lock = Nobody /\ ~poisoned /\ lock' = t /\ UNCHANGED poisoned
            /\ d.pc = "run"
         \/ /\ call[t].pc = "run" /\ lock' = Nobody /\ poisoned' \in BOOLEAN
            /\ d.pc # "run"
  PROVE  IInv'
PROOF
  <1>1. d \in Call
    BY DEF Sound
  <1>2. /\ call' \in [Threads -> Call]
        /\ \A u \in Threads : Sound(loader', u, call'[u], map')
    BY <1>1 DEF IInv
  <1>3. /\ \A u \in Threads \ {t} : call'[u] = call[u]
        /\ call'[t] = d
    BY DEF IInv
  <1>4. /\ \A u \in Threads : lock = u <=> call[u].pc = "run"
        /\ poisoned => \A u \in Threads : call[u].pc # "run"
    BY DEF IInv, Owned, NoRunAfterPanic
  <1>5. Owned' /\ NoRunAfterPanic' /\ lock' \in Threads \cup {Nobody} /\ poisoned' \in BOOLEAN
    <2>1. CASE UNCHANGED <<lock, poisoned>> /\ (d.pc = "run" <=> call[t].pc = "run")
      BY <2>1, <1>3, <1>4 DEF IInv, Owned, NoRunAfterPanic
    <2>2. CASE /\ lock = Nobody /\ ~poisoned /\ lock' = t /\ UNCHANGED poisoned
               /\ d.pc = "run"
      <3>1. lock' = t /\ lock' \in Threads \cup {Nobody} /\ ~poisoned' /\ poisoned' \in BOOLEAN
        BY <2>2 DEF IInv
      <3>2. \A u \in Threads \ {t} : call'[u].pc # "run"
        BY <2>2, <1>3, <1>4, NobodyAssumption
      <3>3. Owned'
        BY <2>2, <3>1, <3>2, <1>3 DEF Owned
      <3>. QED
        BY <3>1, <3>3 DEF NoRunAfterPanic
    <2>3. CASE /\ call[t].pc = "run" /\ lock' = Nobody /\ poisoned' \in BOOLEAN
               /\ d.pc # "run"
      <3>1. \A u \in Threads : call'[u].pc # "run"
        BY <2>3, <1>3, <1>4
      <3>. QED
        BY <2>3, <3>1, NobodyAssumption DEF Owned, NoRunAfterPanic
    <2>. QED
      BY <2>1, <2>2, <2>3
  <1>. QED
    BY <1>2, <1>5 DEF IInv

\* A call that has not encoded anything is sound.
LEMMA FreshSound ==
  ASSUME NEW l, NEW t \in Threads, NEW m, NEW d \in Call,
         d.pc \in {"idle", "opening", "encode"}, d.items \in Calls[l] \cup {<< >>},
         d.rows = << >>, d.plan = << >>, d.outs = << >>, d.answers = << >>,
         d.outcome = Raised
  PROVE  Sound(l, t, d, m)
PROOF
  <1>1. Len(<< >>) = 0
    OBVIOUS
  <1>2. Len(d.items) \in Nat
    BY DEF Call
  <1>3. Planned(d) /\ OwnOutputs(t, d)
    BY <1>1, <1>2 DEF Planned, OwnOutputs
  <1>4. NoneLost(l, d) /\ Complete(l, d)
    BY <1>1 DEF NoneLost, Complete
  <1>5. Answering(t, d, m)
    BY <1>1, <1>2 DEF Answering, Raised
  <1>. QED
    BY <1>3, <1>4, <1>5 DEF Sound

\* So are an idle thread, one in an open, and one that has just begun.
LEMMA IdleSound ==
  ASSUME NEW l \in Loaders, NEW t \in Threads, NEW m
  PROVE  /\ Sound(l, t, Idle, m)
         /\ Sound(l, t, [Idle EXCEPT !.pc = "opening"], m)
         /\ \A items \in Calls[l] :
              Sound(l, t, [Idle EXCEPT !.pc = "encode", !.items = items], m)
PROOF
  <1>1. /\ << >> \in Seq(Row) /\ << >> \in Seq(Seq(Nat)) /\ << >> \in Seq(Nat)
        /\ << >> \in Seq(Batch) /\ << >> \in Seq(Seq(Logit)) /\ << >> \in Seq(AnswerOf)
    OBVIOUS
  <1>2. Raised \in Outcome
    BY <1>1 DEF Raised, Outcome
  <1>3. /\ Idle \in Call
        /\ Idle.pc = "idle" /\ Idle.items = << >> /\ Idle.rows = << >>
        /\ Idle.plan = << >> /\ Idle.outs = << >> /\ Idle.answers = << >>
        /\ Idle.outcome = Raised
    BY <1>1, <1>2 DEF Idle, Call, PCs
  <1>4. Sound(l, t, Idle, m)
    BY <1>3, FreshSound
  <1>5. Sound(l, t, [Idle EXCEPT !.pc = "opening"], m)
    <2>. DEFINE d == [Idle EXCEPT !.pc = "opening"]
    <2>1. /\ d \in Call
          /\ d.pc = "opening" /\ d.items = << >> /\ d.rows = << >>
          /\ d.plan = << >> /\ d.outs = << >> /\ d.answers = << >>
          /\ d.outcome = Raised
      BY <1>3 DEF Call, PCs
    <2>. HIDE DEF d
    <2>2. Sound(l, t, d, m)
      BY <2>1, FreshSound
    <2>. QED
      BY <2>2 DEF d
  <1>6. ASSUME NEW items \in Calls[l]
        PROVE  Sound(l, t, [Idle EXCEPT !.pc = "encode", !.items = items], m)
    <2>. DEFINE d == [Idle EXCEPT !.pc = "encode", !.items = items]
    <2>1. items \in Seq(Seq(Nat))
      BY CallsAssumption
    <2>2. /\ d \in Call
          /\ d.pc = "encode" /\ d.items = items /\ d.rows = << >>
          /\ d.plan = << >> /\ d.outs = << >> /\ d.answers = << >>
          /\ d.outcome = Raised
      BY <1>3, <2>1 DEF Call, PCs
    <2>. HIDE DEF d
    <2>3. Sound(l, t, d, m)
      BY <2>2, FreshSound
    <2>. QED
      BY <2>3 DEF d
  <1>. QED
    BY <1>4, <1>5, <1>6

\* A call that fails is sound.
LEMMA FailsSound ==
  ASSUME NEW l, NEW t \in Threads, NEW m, NEW c, Sound(l, t, c, m)
  PROVE  Sound(l, t, [c EXCEPT !.pc = "attach", !.outcome = Raised], m)
PROOF
  <1> DEFINE d == [c EXCEPT !.pc = "attach", !.outcome = Raised]
  <1>1. c \in Call
    BY DEF Sound
  <1>2. << >> \in Seq(AnswerOf)
    OBVIOUS
  <1>3. d \in Call
    BY <1>1, <1>2 DEF Call, PCs, Raised, Outcome
  <1>4. /\ d.pc = "attach" /\ d.items = c.items /\ d.rows = c.rows /\ d.plan = c.plan
        /\ d.outs = c.outs /\ d.answers = c.answers /\ d.outcome = Raised
    BY <1>1 DEF Call
  <1>. HIDE DEF d
  <1>5. Planned(d) /\ OwnOutputs(t, d)
    BY <1>4, SamePlan DEF Sound, OwnOutputs
  <1>6. NoneLost(l, d) /\ Complete(l, d)
    BY <1>4 DEF NoneLost, Complete
  <1>7. Answering(t, d, m)
    BY <1>4, SMTT(30) DEF Sound, Answering, Raised, ItemAnswer
  <1>. QED
    BY <1>3, <1>4, <1>5, <1>6, <1>7 DEF Sound, d

\* An item is encoded: its rows are new, and a text's row is at once in a batch.
LEMMA EncodeSound ==
  ASSUME NEW l \in Loaders, NEW t \in Threads, NEW m, NEW c, Sound(l, t, c, m),
         c.pc = "encode", Len(c.plan) # Len(c.items)
  PROVE  LET i == Len(c.plan) + 1
             k == Len(c.items[i])
             more == [j \in 1..k |-> [item |-> i, level |-> j, len |-> c.items[i][j]]]
             places == rebase(Len(c.rows), k)
         IN Sound(l, t,
              [c EXCEPT
                !.rows = @ \o more,
                !.plan = Append(@, places),
                !.outs = @ \o [j \in 1..k |-> << >>],
                !.batches = IF l = "embed"
                              THEN <<[rows |-> places, width |-> c.items[i][1]]>> ELSE @,
                !.pc = IF l = "embed" THEN "lock" ELSE @], m)
PROOF
  <1> DEFINE i == Len(c.plan) + 1
             k == Len(c.items[i])
             more == [j \in 1..k |-> [item |-> i, level |-> j, len |-> c.items[i][j]]]
             places == rebase(Len(c.rows), k)
             none == [j \in 1..k |-> << >>]
             n == Len(c.rows)
             d == [c EXCEPT
                    !.rows = @ \o more,
                    !.plan = Append(@, places),
                    !.outs = @ \o none,
                    !.batches = IF l = "embed"
                                  THEN <<[rows |-> places, width |-> c.items[i][1]]>> ELSE @,
                    !.pc = IF l = "embed" THEN "lock" ELSE @]
  <1>1. c \in Call /\ c.items \in Calls[l] \cup {<< >>}
    BY DEF Sound
  <1>2. /\ c.items \in Seq(Seq(Nat)) /\ c.plan \in Seq(Seq(Nat)) /\ c.rows \in Seq(Row)
        /\ c.outs \in Seq(Seq(Logit)) /\ c.batches \in Seq(Batch)
    BY <1>1 DEF Call
  <1>3. Len(c.plan) \in Nat /\ Len(c.items) \in Nat /\ n \in Nat
    BY <1>2
  <1>4. i \in 1..Len(c.items)
    BY <1>3 DEF Sound, Planned
  <1>5. c.items[i] \in Seq(Nat)
    BY <1>2, <1>4, ElementOfSeq
  <1>6. k \in Nat
    BY <1>5
  <1>7. more \in Seq(Row) /\ Len(more) = k
    <2>1. \A j \in 1..k : c.items[i][j] \in Nat
      <3>. PICK s : s = c.items[i]
        OBVIOUS
      <3>1. s \in Seq(Nat) /\ k = Len(s)
        BY <1>5
      <3>2. \A j \in 1..Len(s) : s[j] \in Nat
        BY <3>1, ElementOfSeq
      <3>. QED
        BY <3>1, <3>2, Zenon
    <2>2. i \in Nat
      BY <1>3
    <2>. HIDE DEF k, i
    <2>3. more \in [1..k -> Row]
      BY <2>1, <2>2 DEF Row
    <2>. QED
      BY <2>3, <1>6
  <1>8. places \in Seq(Nat) /\ Len(places) = k /\ \A j \in 1..k : places[j] = n + j
    <2>. HIDE DEF k, n
    <2>1. places = [j \in 1..k |-> n + j]
      BY DEF rebase, n
    <2>2. places \in [1..k -> Nat]
      BY <2>1, <1>3, <1>6
    <2>. QED
      BY <2>1, <2>2, <1>6
  <1>9. none \in Seq(Seq(Logit)) /\ Len(none) = k /\ \A j \in 1..k : none[j] = << >>
    <2>. HIDE DEF k
    <2>1. << >> \in Seq(Logit)
      OBVIOUS
    <2>2. none \in [1..k -> Seq(Logit)]
      BY <2>1
    <2>. QED
      BY <2>2, <1>6
  <1>10. l = "embed" => c.items[i][1] \in Nat /\ k = 1
    <2>. SUFFICES ASSUME l = "embed" PROVE c.items[i][1] \in Nat /\ k = 1
      OBVIOUS
    <2>1. c.items # << >>
      BY <1>4
    <2>2. c.items \in Calls[l] /\ l \in Loaders \ {"2b"}
      BY <2>1, <1>1 DEF Loaders
    <2>3. i \in DOMAIN c.items
      BY <1>2, <1>4
    <2>4. k = 1
      BY <2>2, <2>3, CallsAssumption
    <2>. QED
      BY <2>4, <1>5
  <1>11. /\ d.pc = (IF l = "embed" THEN "lock" ELSE "encode")
         /\ d.items = c.items /\ d.rows = c.rows \o more
         /\ d.plan = Append(c.plan, places) /\ d.outs = c.outs \o none
         /\ d.answers = c.answers /\ d.outcome = c.outcome /\ d.order = c.order
         /\ d.batches = IF l = "embed"
                          THEN <<[rows |-> places, width |-> c.items[i][1]]>> ELSE c.batches
    BY <1>1 DEF Call
  <1>12. /\ d.rows \in Seq(Row) /\ Len(d.rows) = n + k
         /\ \A r \in 1..n : d.rows[r] = c.rows[r]
         /\ \A j \in 1..k : d.rows[n + j].item = i /\ d.rows[n + j].level = j
    <2>1. \A j \in 1..k : more[j].item = i /\ more[j].level = j
      OBVIOUS
    <2>. DEFINE rs == c.rows \o more
    <2>. HIDE DEF more, k, n, d, i
    <2>2. /\ rs \in Seq(Row) /\ Len(rs) = n + k
          /\ \A r \in 1..(n + k) : rs[r] = IF r <= n THEN c.rows[r] ELSE more[r - n]
      BY <1>2, <1>7, ConcatProperties DEF n
    <2>3. d.rows = rs
      BY <1>11
    <2>. HIDE DEF rs
    <2>4. \A r \in 1..n : rs[r] = c.rows[r]
      BY <1>3, <1>6, <2>2
    <2>5. \A j \in 1..k : rs[n + j] = more[j]
      <3>. TAKE j \in 1..k
      <3>1. n + j \in 1..(n + k) /\ ~(n + j <= n) /\ (n + j) - n = j
        BY <1>3, <1>6
      <3>. QED
        BY <3>1, <2>2
    <2>6. \A j \in 1..k : rs[n + j].item = i /\ rs[n + j].level = j
      BY <2>1, <2>5
    <2>. QED
      BY <2>2, <2>3, <2>4, <2>6
  <1>13. /\ d.outs \in Seq(Seq(Logit)) /\ Len(d.outs) = Len(c.outs) + k
         /\ \A r \in 1..Len(c.outs) : d.outs[r] = c.outs[r]
         /\ \A j \in 1..k : d.outs[Len(c.outs) + j] = << >>
    <2>. DEFINE o == Len(c.outs)
    <2>. HIDE DEF none, k, d, o
    <2>0. o \in Nat
      BY <1>2 DEF o
    <2>1. /\ c.outs \o none \in Seq(Seq(Logit))
          /\ Len(c.outs \o none) = Len(c.outs) + Len(none)
          /\ \A r \in 1..(Len(c.outs) + Len(none)) :
               (c.outs \o none)[r] = IF r <= Len(c.outs) THEN c.outs[r]
                                     ELSE none[r - Len(c.outs)]
      <3>1. c.outs \in Seq(Seq(Logit)) /\ none \in Seq(Seq(Logit))
        BY <1>2, <1>9
      <3>. QED
        BY <3>1, ConcatProperties, Zenon
    <2>2. d.outs = c.outs \o none
      BY <1>11
    <2>. DEFINE os == c.outs \o none
    <2>3. /\ os \in Seq(Seq(Logit)) /\ Len(os) = o + k
          /\ \A r \in 1..(o + k) : os[r] = IF r <= o THEN c.outs[r] ELSE none[r - o]
      BY <2>1, <1>9 DEF o
    <2>. HIDE DEF os
    <2>4. \A r \in 1..o : os[r] = c.outs[r]
      BY <2>0, <1>6, <2>3
    <2>5. \A j \in 1..k : os[o + j] = << >>
      <3>. TAKE j \in 1..k
      <3>1. o + j \in 1..(o + k) /\ ~(o + j <= o) /\ (o + j) - o = j
        BY <2>0, <1>6
      <3>2. none[j] = << >>
        BY <1>9
      <3>. QED
        BY <3>1, <3>2, <2>3
    <2>6. d.outs = os
      BY <2>2 DEF os
    <2>. QED
      BY <2>3, <2>4, <2>5, <2>6 DEF o
  <1>14. /\ d.plan \in Seq(Seq(Nat)) /\ Len(d.plan) = i
         /\ \A h \in 1..Len(c.plan) : d.plan[h] = c.plan[h]
         /\ d.plan[i] = places
    <2>. HIDE DEF places, d
    <2>1. d.plan = Append(c.plan, places)
      BY <1>11
    <2>2. c.plan \in Seq(Seq(Nat)) /\ places \in Seq(Nat)
      BY <1>2, <1>8
    <2>. QED
      BY <2>1, <2>2, AppendProperties
  <1>15. d.batches \in Seq(Batch)
    <2>. HIDE DEF places, d, i
    <2>1. l = "embed" => [rows |-> places, width |-> c.items[i][1]] \in Batch
      BY <1>8, <1>10 DEF Batch
    <2>. QED
      BY <2>1, <1>2, <1>11
  <1>16. d \in Call
    <2>. DEFINE b == IF l = "embed"
                       THEN <<[rows |-> places, width |-> c.items[i][1]]>> ELSE c.batches
                rs == c.rows \o more
                pl == Append(c.plan, places)
                os == c.outs \o none
    <2>1. b \in Seq(Batch) /\ rs \in Seq(Row) /\ pl \in Seq(Seq(Nat)) /\ os \in Seq(Seq(Logit))
      <3>. HIDE DEF d, more, places, none, i
      <3>. QED BY <1>11, <1>12, <1>13, <1>14, <1>15
    <2>2. d = [c EXCEPT !.rows = rs, !.plan = pl, !.outs = os, !.batches = b,
                        !.pc = IF l = "embed" THEN "lock" ELSE "encode"]
      BY <1>1 DEF Call
    <2>. HIDE DEF d, b, rs, pl, os
    <2>. QED
      BY <1>1, <2>1, <2>2 DEF Call, PCs
  <1>0. i = Len(c.plan) + 1 /\ k = Len(c.items[i]) /\ n = Len(c.rows)
    OBVIOUS
  <1>. HIDE DEF d, more, none, places, n, k, i
  <1>17. Planned(d)
    <2>0. d.items = c.items /\ Len(d.plan) = i /\ Len(d.rows) = n + k
      BY <1>11, <1>12, <1>14
    <2>. SUFFICES ASSUME NEW h \in 1..Len(d.plan)
                  PROVE  /\ Len(d.plan[h]) = Len(d.items[h])
                         /\ \A j \in 1..Len(d.plan[h]) :
                              /\ d.plan[h][j] \in 1..Len(d.rows)
                              /\ d.rows[d.plan[h][j]].item = h
                              /\ d.rows[d.plan[h][j]].level = j
      <3>1. i <= Len(c.items)
        BY <1>3, <1>4, <1>0
      <3>2. Len(d.plan) <= Len(d.items)
        BY <2>0, <3>1, Zenon
      <3>. QED
        BY <3>2, Zenon DEF Planned
    <2>. SUFFICES /\ h \in 1..i
                  /\ Len(d.plan[h]) = Len(c.items[h])
                  /\ \A j \in 1..Len(d.plan[h]) :
                       /\ d.plan[h][j] \in 1..(n + k)
                       /\ d.rows[d.plan[h][j]].item = h
                       /\ d.rows[d.plan[h][j]].level = j
      BY <2>0, Zenon
    <2>a. h \in 1..i
      BY <2>0
    <2>1. CASE h = i
      <3>1. \A j \in 1..k : n + j \in 1..(n + k)
        BY <1>3, <1>6
      <3>2. \A j \in 1..k : d.rows[n + j].item = i /\ d.rows[n + j].level = j
        BY <1>12
      <3>3. d.plan[h] = places
        BY <2>1, <1>14
      <3>4. Len(places) = k /\ Len(places) = Len(c.items[h])
        BY <2>1, <1>8, <1>0
      <3>5. \A j \in 1..k : places[j] = n + j
        BY <1>8
      <3>6. ASSUME NEW j \in 1..Len(d.plan[h])
            PROVE  /\ d.plan[h][j] \in 1..(n + k)
                   /\ d.rows[d.plan[h][j]].item = h
                   /\ d.rows[d.plan[h][j]].level = j
        <4>1. j \in 1..k
          BY <3>3, <3>4
        <4>2. d.plan[h][j] = n + j
          BY <3>3, <3>5, <4>1
        <4>3. n + j \in 1..(n + k)
          BY <3>1, <4>1
        <4>4. d.rows[n + j].item = h /\ d.rows[n + j].level = j
          BY <2>1, <3>2, <4>1
        <4>. QED
          BY <4>2, <4>3, <4>4
      <3>. QED
        BY <2>a, <3>3, <3>4, <3>6
    <2>2. CASE h # i
      <3>1. h \in 1..Len(c.plan)
        BY <2>2, <2>a, <1>3, <1>0
      <3>2. 1..n \subseteq 1..(n + k)
        BY <1>3, <1>6
      <3>3. /\ Len(c.plan[h]) = Len(c.items[h])
            /\ \A j \in 1..Len(c.plan[h]) :
                 /\ c.plan[h][j] \in 1..n
                 /\ c.rows[c.plan[h][j]].item = h
                 /\ c.rows[c.plan[h][j]].level = j
        <4>1. Planned(c)
          BY DEF Sound
        <4>2. Len(c.rows) = n
          BY <1>0
        <4>3. /\ Len(c.plan[h]) = Len(c.items[h])
              /\ \A j \in 1..Len(c.plan[h]) :
                   /\ c.plan[h][j] \in 1..Len(c.rows)
                   /\ c.rows[c.plan[h][j]].item = h
                   /\ c.rows[c.plan[h][j]].level = j
          BY <3>1, <4>1, Zenon DEF Planned
        <4>. QED
          BY <4>2, <4>3, Zenon
      <3>4. d.plan[h] = c.plan[h]
        BY <3>1, <1>14
      <3>6. ASSUME NEW j \in 1..Len(c.plan[h])
            PROVE  /\ c.plan[h][j] \in 1..(n + k)
                   /\ d.rows[c.plan[h][j]] = c.rows[c.plan[h][j]]
        <4>1. c.plan[h][j] \in 1..n
          BY <3>3, Zenon
        <4>2. \A r \in 1..n : d.rows[r] = c.rows[r]
          BY <1>12
        <4>. QED
          BY <3>2, <4>1, <4>2, Zenon
      <3>7. ASSUME NEW j \in 1..Len(d.plan[h])
            PROVE  /\ d.plan[h][j] \in 1..(n + k)
                   /\ d.rows[d.plan[h][j]].item = h
                   /\ d.rows[d.plan[h][j]].level = j
        <4>1. j \in 1..Len(c.plan[h]) /\ d.plan[h][j] = c.plan[h][j]
          BY <3>4
        <4>. QED
          BY <3>3, <3>6, <4>1
      <3>. QED
        BY <2>a, <3>3, <3>4, <3>7
    <2>. QED
      BY <2>1, <2>2
  <1>18. Len(c.outs) = n /\ \A r \in 1..n :
           c.outs[r] \in {<< >>, Output(t, c.rows[r].item, c.rows[r].level)}
    BY <1>0 DEF Sound, OwnOutputs
  <1>19. \A r \in 1..(n + k) : r \in 1..n \/ \E j \in 1..k : r = n + j
    <2>. TAKE r \in 1..(n + k)
    <2>1. r \in 1..n \/ (r - n \in 1..k /\ r = n + (r - n))
      BY <1>3, <1>6
    <2>. QED
      BY <2>1
  <1>20. OwnOutputs(t, d)
    <2>1. Len(d.outs) = n + k /\ Len(d.rows) = n + k
      BY <1>12, <1>13, <1>18
    <2>2. ASSUME NEW r \in 1..(n + k)
          PROVE  d.outs[r] \in {<< >>, Output(t, d.rows[r].item, d.rows[r].level)}
      <3>1. CASE r \in 1..n
        <4>1. d.outs[r] = c.outs[r] /\ d.rows[r] = c.rows[r]
          BY <3>1, <1>12, <1>13, <1>18
        <4>. QED
          BY <3>1, <4>1, <1>18
      <3>2. CASE \E j \in 1..k : r = n + j
        <4>1. d.outs[r] = << >>
          BY <3>2, <1>13, <1>18
        <4>. QED
          BY <4>1
      <3>. QED
        BY <3>1, <3>2, <1>19
    <2>. QED
      BY <2>1, <2>2 DEF OwnOutputs
  <1>21. NoneLost(l, d)
    <2>. SUFFICES ASSUME l = "embed", NEW r \in 1..(n + k), d.outs[r] = << >>
                  PROVE  InBatches(r, d.batches)
      <3>. QED
        BY <1>11, <1>12 DEF NoneLost
    <2>1. \A q \in 1..n : c.outs[q] # << >>
      BY <1>0 DEF Sound, NoneLost
    <2>2. PICK j \in 1..k : r = n + j
      <3>. QED
        BY <2>1, <1>13, <1>18, <1>19
    <2>3. d.batches = <<[rows |-> places, width |-> c.items[i][1]]>>
      BY <1>11
    <2>4. InBatch(r, [rows |-> places, width |-> c.items[i][1]])
      <3>. QED
        BY <2>2, <1>8 DEF InBatch
    <2>. QED
      BY <2>3, <2>4 DEF InBatches
  <1>22. Complete(l, d)
    BY <1>11 DEF Complete
  <1>23. Answering(t, d, m)
    <2>1. ~c.outcome.ok
      BY DEF Sound, Answering
    <2>. QED
      BY <2>1, <1>11 DEF Sound, Answering, ItemAnswer
  <1>24. Sound(l, t, d, m)
    BY <1>1, <1>11, <1>16, <1>17, <1>20, <1>21, <1>22, <1>23 DEF Sound
  <1>. QED
    BY <1>24 DEF d, more, none, places, n, k, i

\* What a call has planned, run and answered stays right while it moves on.
LEMMA SameData ==
  ASSUME NEW l, NEW t, NEW m, NEW c, Sound(l, t, c, m), c.pc # "attach",
         NEW d, d.pc \notin {"idle", "opening"},
         d.items = c.items, d.rows = c.rows, d.plan = c.plan, d.outs = c.outs,
         d.answers = c.answers, d.outcome = c.outcome
  PROVE  Planned(d) /\ OwnOutputs(t, d) /\ Answering(t, d, m)
PROOF
  <1>1. Planned(d)
    BY SamePlan DEF Sound
  <1>2. OwnOutputs(t, d)
    BY DEF Sound, OwnOutputs
  <1>3. ~c.outcome.ok
    BY DEF Sound, Answering
  <1>4. Answering(t, d, m)
    BY <1>3 DEF Sound, Answering, ItemAnswer
  <1>. QED
    BY <1>1, <1>2, <1>4

\* Every text has been run, or there is none.
LEMMA NothingSound ==
  ASSUME NEW l, NEW t \in Threads, NEW m, NEW c, Sound(l, t, c, m),
         c.pc = "encode", Len(c.plan) = Len(c.items),
         l = "embed" \/ c.items = << >>
  PROVE  Sound(l, t, [c EXCEPT !.pc = "decode"], m)
PROOF
  <1> DEFINE d == [c EXCEPT !.pc = "decode"]
  <1>1. c \in Call
    BY DEF Sound
  <1>2. d \in Call
    BY <1>1 DEF Call, PCs
  <1>3. /\ d.pc = "decode" /\ d.items = c.items /\ d.rows = c.rows /\ d.plan = c.plan
        /\ d.outs = c.outs /\ d.answers = c.answers /\ d.outcome = c.outcome
    BY <1>1 DEF Call
  <1>. HIDE DEF d
  <1>4. Planned(d) /\ OwnOutputs(t, d) /\ Answering(t, d, m)
    BY <1>3, SameData
  <1>5. NoneLost(l, d)
    BY <1>3 DEF NoneLost
  <1>6. Complete(l, d)
    <2>1. ASSUME NEW i \in 1..Len(c.plan), NEW j \in 1..Len(c.plan[i])
          PROVE  c.outs[c.plan[i][j]] # << >>
      <3>1. c.plan[i][j] \in 1..Len(c.rows)
        BY DEF Sound, Planned
      <3>2. c.items # << >>
        BY <1>1
      <3>. QED
        BY <3>1, <3>2 DEF Sound, NoneLost
    <2>. QED
      BY <2>1, <1>3 DEF Complete
  <1>. QED
    BY <1>2, <1>3, <1>4, <1>5, <1>6 DEF Sound, d

\* All rows are put into one batch.
LEMMA CollateSound ==
  ASSUME NEW l, NEW t \in Threads, NEW m, NEW c, Sound(l, t, c, m),
         c.pc = "encode", Len(c.plan) = Len(c.items),
         NEW w \in {0} \cup {c.rows[r].len : r \in DOMAIN c.rows}
  PROVE  Sound(l, t, [c EXCEPT
           !.batches = <<[rows |-> [r \in DOMAIN c.rows |-> r], width |-> w]>>,
           !.pc = "lock"], m)
PROOF
  <1> DEFINE all == [r \in DOMAIN c.rows |-> r]
             b == <<[rows |-> all, width |-> w]>>
             d == [c EXCEPT !.batches = b, !.pc = "lock"]
  <1>1. c \in Call
    BY DEF Sound
  <1>2. c.rows \in Seq(Row)
    BY <1>1 DEF Call
  <1>3. w \in Nat
    <2>1. \A r \in DOMAIN c.rows : c.rows[r] \in Row
      BY <1>2
    <2>2. \A r \in DOMAIN c.rows : c.rows[r].len \in Nat
      BY <2>1 DEF Row
    <2>. QED
      BY <2>2
  <1>4. /\ all \in Seq(Nat) /\ Len(all) = Len(c.rows)
        /\ \A r \in 1..Len(c.rows) : all[r] = r
    <2>1. DOMAIN c.rows = 1..Len(c.rows) /\ Len(c.rows) \in Nat
      BY <1>2
    <2>2. all \in [1..Len(c.rows) -> Nat]
      BY <2>1
    <2>. QED
      BY <2>1, <2>2
  <1>. HIDE DEF all
  <1>5. b \in Seq(Batch)
    BY <1>3, <1>4 DEF Batch
  <1>6. d \in Call
    <2>. HIDE DEF b
    <2>. QED
      BY <1>1, <1>5 DEF Call, PCs
  <1>7. /\ d.pc = "lock" /\ d.items = c.items /\ d.rows = c.rows /\ d.plan = c.plan
        /\ d.outs = c.outs /\ d.answers = c.answers /\ d.outcome = c.outcome
        /\ d.batches = b
    BY <1>1 DEF Call
  <1>. HIDE DEF d
  <1>8. Planned(d) /\ OwnOutputs(t, d) /\ Answering(t, d, m)
    BY <1>7, SameData
  <1>9. NoneLost(l, d)
    <2>1. ASSUME NEW r \in 1..Len(c.rows) PROVE InBatches(r, b)
      <3>1. InBatch(r, [rows |-> all, width |-> w])
        BY <1>4 DEF InBatch
      <3>. QED
        BY <3>1 DEF InBatches
    <2>. HIDE DEF b
    <2>. QED
      BY <2>1, <1>7 DEF NoneLost
  <1>10. Complete(l, d)
    BY <1>7 DEF Complete
  <1>. QED
    BY <1>6, <1>7, <1>8, <1>9, <1>10 DEF Sound, d, all

\* The rows are sorted: none is lost.
LEMMA SortSound ==
  ASSUME NEW l, NEW t \in Threads, NEW m, NEW c, Sound(l, t, c, m),
         c.pc = "encode", Len(c.plan) = Len(c.items),
         NEW p \in [DOMAIN c.rows -> DOMAIN c.rows], SortsByLength(p, c.rows)
  PROVE  Sound(l, t, [c EXCEPT !.order = p, !.pc = "pack"], m)
PROOF
  <1> DEFINE d == [c EXCEPT !.order = p, !.pc = "pack"]
  <1>1. c \in Call
    BY DEF Sound
  <1>2. DOMAIN c.rows = 1..Len(c.rows) /\ Len(c.rows) \in Nat
    BY <1>1 DEF Call
  <1>3. p \in Seq(Nat) /\ Len(p) = Len(c.rows)
    <2>1. p \in [1..Len(c.rows) -> Nat]
      BY <1>2
    <2>. QED
      BY <2>1, <1>2
  <1>4. d \in Call
    BY <1>1, <1>3 DEF Call, PCs
  <1>5. /\ d.pc = "pack" /\ d.items = c.items /\ d.rows = c.rows /\ d.plan = c.plan
        /\ d.outs = c.outs /\ d.answers = c.answers /\ d.outcome = c.outcome
        /\ d.order = p
    BY <1>1 DEF Call
  <1>. HIDE DEF d
  <1>6. Planned(d) /\ OwnOutputs(t, d) /\ Answering(t, d, m)
    BY <1>5, SameData
  <1>7. NoneLost(l, d)
    <2>1. ASSUME NEW r \in 1..Len(c.rows) PROVE InOrder(r, p)
      BY <1>2, <1>3 DEF SortsByLength, InOrder
    <2>2. \A i \in 1..Len(p) : p[i] \in 1..Len(c.rows)
      BY <1>2, <1>3
    <2>. QED
      BY <2>1, <2>2, <1>5 DEF NoneLost
  <1>8. Complete(l, d)
    BY <1>5 DEF Complete
  <1>. QED
    BY <1>4, <1>5, <1>6, <1>7, <1>8 DEF Sound, d

\* Places counted from the one after n.
LEMMA Shifted ==
  ASSUME NEW o \in Nat, NEW n \in Nat
  PROVE  /\ o - (n + 1) + 1 = o - n
         /\ \A i \in 1..(o - n) : n + 1 + i - 1 = n + i
PROOF
  BY SMT

\* A sequence cut after its n-th element.
LEMMA TwoParts ==
  ASSUME NEW s \in Seq(Nat), NEW n \in 1..Len(s)
  PROVE  /\ SubSeq(s, 1, n) \in Seq(Nat) /\ Len(SubSeq(s, 1, n)) = n
         /\ \A i \in 1..n : SubSeq(s, 1, n)[i] = s[i]
         /\ SubSeq(s, n + 1, Len(s)) \in Seq(Nat)
         /\ Len(SubSeq(s, n + 1, Len(s))) = Len(s) - n
         /\ \A i \in 1..(Len(s) - n) : SubSeq(s, n + 1, Len(s))[i] = s[n + i]
PROOF
  <1> DEFINE head == SubSeq(s, 1, n)
             rest == SubSeq(s, n + 1, Len(s))
  <1>0. s \in Seq(Nat) /\ Len(s) \in Nat /\ n \in 1..Len(s)
    OBVIOUS
  <1>1. head \in Seq(Nat) /\ Len(head) = n /\ \A i \in 1..n : head[i] = s[i]
    <2>1. \A i \in 1..n : s[i] \in Nat
      BY <1>0
    <2>. QED
      BY <1>0, <2>1, SubSeqProperties
  <1>2. /\ rest \in Seq(Nat) /\ Len(rest) = Len(s) - n
        /\ \A i \in 1..(Len(s) - n) : rest[i] = s[n + i]
    <2>1. \A i \in (n + 1)..Len(s) : s[i] \in Nat
      BY <1>0, SMTT(30)
    <2>2. n + 1 \in Int /\ Len(s) \in Int
      BY <1>0
    <2>3. /\ rest \in Seq(Nat)
          /\ Len(rest) = IF n + 1 <= Len(s) THEN Len(s) - (n + 1) + 1 ELSE 0
          /\ \A i \in 1..(Len(s) - (n + 1) + 1) : rest[i] = s[n + 1 + i - 1]
      <3>. HIDE DEF rest
      <3>1. PICK a, o : a = n + 1 /\ o = Len(s)
        OBVIOUS
      <3>2. a \in Int /\ o \in Int /\ \A i \in a..o : s[i] \in Nat
        BY <2>1, <2>2, <3>1, Zenon
      <3>3. /\ SubSeq(s, a, o) \in Seq(Nat)
            /\ Len(SubSeq(s, a, o)) = IF a <= o THEN o - a + 1 ELSE 0
            /\ \A i \in 1..(o - a + 1) : SubSeq(s, a, o)[i] = s[a + i - 1]
        BY <3>2, SubSeqProperties
      <3>4. rest = SubSeq(s, a, o)
        BY <3>1, Zenon DEF rest
      <3>. QED
        BY <3>1, <3>3, <3>4, Zenon
    <2>. HIDE DEF rest
    <2>0. Len(s) \in Nat /\ n \in Nat
      BY <1>0
    <2>4. Len(s) - (n + 1) + 1 = Len(s) - n
      BY <2>0, Shifted
    <2>5. \A i \in 1..(Len(s) - n) : n + 1 + i - 1 = n + i
      BY <2>0, Shifted
    <2>6. Len(rest) = Len(s) - n
      <3>1. /\ n + 1 <= Len(s) => Len(rest) = Len(s) - (n + 1) + 1
            /\ ~(n + 1 <= Len(s)) => Len(rest) = 0
        BY <2>3
      <3>2. ~(n + 1 <= Len(s)) => Len(s) - n = 0
        BY <1>0
      <3>. QED
        BY <2>4, <3>1, <3>2, Zenon
    <2>7. \A i \in 1..(Len(s) - n) : rest[i] = s[n + i]
      <3>. TAKE i \in 1..(Len(s) - n)
      <3>1. i \in 1..(Len(s) - (n + 1) + 1)
        BY <2>4
      <3>2. rest[i] = s[n + 1 + i - 1]
        BY <2>3, <3>1
      <3>. QED
        BY <3>2, <2>5
    <2>. QED
      BY <2>3, <2>6, <2>7
  <1>. QED
    BY <1>1, <1>2

\* The next batch is cut off: the rows in it are still to be run.
LEMMA PackSound ==
  ASSUME NEW l, NEW t \in Threads, NEW m, NEW c, Sound(l, t, c, m),
         c.pc = "pack", NEW n \in DOMAIN c.order, NEW w \in Nat
  PROVE  Sound(l, t, [c EXCEPT
           !.batches = Append(@, [rows |-> SubSeq(c.order, 1, n), width |-> w]),
           !.order = SubSeq(@, n + 1, Len(@))], m)
PROOF
  <1> DEFINE head == SubSeq(c.order, 1, n)
             rest == SubSeq(c.order, n + 1, Len(c.order))
             new == [rows |-> head, width |-> w]
             bs == Append(c.batches, new)
             d == [c EXCEPT !.batches = bs, !.order = rest]
  <1>1. c \in Call
    BY DEF Sound
  <1>2. /\ c.order \in Seq(Nat) /\ c.batches \in Seq(Batch)
        /\ Len(c.order) \in Nat /\ n \in 1..Len(c.order)
        /\ Len(c.batches) \in Nat
    BY <1>1 DEF Call
  <1>3. head \in Seq(Nat) /\ Len(head) = n /\ \A i \in 1..n : head[i] = c.order[i]
    BY <1>2, TwoParts
  <1>4. /\ rest \in Seq(Nat) /\ Len(rest) = Len(c.order) - n
        /\ \A i \in 1..(Len(c.order) - n) : rest[i] = c.order[n + i]
    BY <1>2, TwoParts
  <1>. HIDE DEF head, rest
  <1>5. new \in Batch
    BY <1>3 DEF Batch
  <1>. HIDE DEF new
  <1>6. /\ bs \in Seq(Batch) /\ Len(bs) = Len(c.batches) + 1
        /\ \A b \in 1..Len(c.batches) : bs[b] = c.batches[b]
        /\ bs[Len(c.batches) + 1] = new
    BY <1>2, <1>5, AppendProperties
  <1>. HIDE DEF bs
  <1>7. d \in Call
    BY <1>1, <1>4, <1>6 DEF Call, PCs
  <1>8. /\ d.pc = "pack" /\ d.items = c.items /\ d.rows = c.rows /\ d.plan = c.plan
        /\ d.outs = c.outs /\ d.answers = c.answers /\ d.outcome = c.outcome
        /\ d.order = rest /\ d.batches = bs
    BY <1>1 DEF Call
  <1>. HIDE DEF d
  <1>9. Planned(d) /\ OwnOutputs(t, d) /\ Answering(t, d, m)
    BY <1>8, SameData
  <1>10. NoneLost(l, d)
    <2>. SUFFICES ASSUME NEW r \in 1..Len(c.rows), c.outs[r] = << >>
                  PROVE  InBatches(r, bs) \/ InOrder(r, rest)
      <3>1. \A i \in 1..Len(rest) : rest[i] \in 1..Len(c.rows)
        <4>. TAKE i \in 1..Len(rest)
        <4>0. n \in Nat /\ Len(c.order) \in Nat /\ i \in 1..(Len(c.order) - n)
          BY <1>2, <1>4
        <4>1. n + i \in 1..Len(c.order) /\ rest[i] = c.order[n + i]
          <5>1. rest[i] = c.order[n + i]
            BY <4>0, <1>4
          <5>. QED
            BY <4>0, <5>1
        <4>. QED
          BY <4>1 DEF Sound, NoneLost
      <3>. QED
        BY <3>1, <1>8 DEF NoneLost
    <2>1. InBatches(r, c.batches) \/ InOrder(r, c.order)
      BY DEF Sound, NoneLost
    <2>2. CASE InBatches(r, c.batches)
      <3>1. PICK b \in 1..Len(c.batches) : InBatch(r, c.batches[b])
        BY <2>2 DEF InBatches
      <3>2. b \in 1..Len(bs) /\ bs[b] = c.batches[b]
        BY <1>2, <1>6
      <3>. QED
        BY <3>1, <3>2 DEF InBatches
    <2>3. CASE InOrder(r, c.order)
      <3>1. PICK i \in 1..Len(c.order) : c.order[i] = r
        BY <2>3 DEF InOrder
      <3>2. CASE i <= n
        <4>1. i \in 1..n
          BY <3>2, <1>2
        <4>2. InBatch(r, new)
          BY <4>1, <3>1, <1>3 DEF InBatch, new
        <4>3. Len(c.batches) + 1 \in 1..Len(bs)
          BY <1>2, <1>6
        <4>. QED
          BY <4>2, <4>3, <1>6 DEF InBatches
      <3>3. CASE ~(i <= n)
        <4>0. PICK o : o = Len(c.order)
          OBVIOUS
        <4>1. i - n \in 1..(Len(c.order) - n) /\ n + (i - n) = i
          <5>1. i \in 1..o /\ o \in Nat /\ n \in Nat
            BY <1>2, <3>1, <4>0
          <5>2. i - n \in 1..(o - n) /\ n + (i - n) = i
            BY <3>3, <5>1
          <5>. QED
            BY <4>0, <5>2, Zenon
        <4>2. i - n \in 1..Len(rest) /\ rest[i - n] = r
          BY <4>1, <3>1, <1>4
        <4>. QED
          BY <4>2 DEF InOrder
      <3>. QED
        BY <3>2, <3>3
    <2>. QED
      BY <2>1, <2>2, <2>3
  <1>11. Complete(l, d)
    BY <1>8 DEF Sound, Complete
  <1>. QED
    BY <1>7, <1>8, <1>9, <1>10, <1>11 DEF Sound, d, bs, new, head, rest

\* The batches are cut: on to the lock.
LEMMA PackedSound ==
  ASSUME NEW l, NEW t \in Threads, NEW m, NEW c, Sound(l, t, c, m),
         c.pc = "pack", c.order = << >>
  PROVE  Sound(l, t, [c EXCEPT !.pc = "lock"], m)
PROOF
  <1> DEFINE d == [c EXCEPT !.pc = "lock"]
  <1>1. c \in Call
    BY DEF Sound
  <1>2. d \in Call
    BY <1>1 DEF Call, PCs
  <1>3. /\ d.pc = "lock" /\ d.items = c.items /\ d.rows = c.rows /\ d.plan = c.plan
        /\ d.outs = c.outs /\ d.answers = c.answers /\ d.outcome = c.outcome
        /\ d.batches = c.batches
    BY <1>1 DEF Call
  <1>. HIDE DEF d
  <1>4. Planned(d) /\ OwnOutputs(t, d) /\ Answering(t, d, m)
    BY <1>3, SameData
  <1>5. \A r : ~InOrder(r, c.order)
    BY DEF InOrder
  <1>6. NoneLost(l, d)
    BY <1>3, <1>5 DEF Sound, NoneLost
  <1>7. Complete(l, d)
    BY <1>3 DEF Sound, Complete
  <1>. QED
    BY <1>2, <1>3, <1>4, <1>6, <1>7 DEF Sound, d

\* With the lock nothing about the call changes.
LEMMA LockSound ==
  ASSUME NEW l, NEW t \in Threads, NEW m, NEW c, Sound(l, t, c, m), c.pc = "lock"
  PROVE  Sound(l, t, [c EXCEPT !.pc = "run"], m)
PROOF
  <1> DEFINE d == [c EXCEPT !.pc = "run"]
  <1>1. c \in Call
    BY DEF Sound
  <1>2. d \in Call
    BY <1>1 DEF Call, PCs
  <1>3. /\ d.pc = "run" /\ d.items = c.items /\ d.rows = c.rows /\ d.plan = c.plan
        /\ d.outs = c.outs /\ d.answers = c.answers /\ d.outcome = c.outcome
        /\ d.batches = c.batches
    BY <1>1 DEF Call
  <1>. HIDE DEF d
  <1>4. Planned(d) /\ OwnOutputs(t, d) /\ Answering(t, d, m)
    BY <1>3, SameData
  <1>6. NoneLost(l, d)
    BY <1>3 DEF Sound, NoneLost
  <1>7. Complete(l, d)
    BY <1>3 DEF Sound, Complete
  <1>. QED
    BY <1>2, <1>3, <1>4, <1>6, <1>7 DEF Sound, d

\* The place of a row in a batch.
PlaceIn(r, b) == CHOOSE i \in DOMAIN b.rows : b.rows[i] = r

\* What scattering the outputs of a batch does to a row: it gets the output that
\* stands at its place, or keeps what it has when it is not in the batch.
LEMMA ScatterRow ==
  ASSUME NEW outs, NEW batch \in Batch, NEW outputs, NEW r \in DOMAIN outs
  PROVE  /\ InBatch(r, batch) =>
              PlaceIn(r, batch) \in DOMAIN batch.rows /\ batch.rows[PlaceIn(r, batch)] = r
         /\ Scatter(outs, batch, outputs)[r] =
              IF InBatch(r, batch) THEN outputs[PlaceIn(r, batch)] ELSE outs[r]
PROOF
  <1>1. DOMAIN batch.rows = 1..Len(batch.rows)
    BY DEF Batch
  <1>2. InBatch(r, batch) <=> \E b \in DOMAIN batch.rows : batch.rows[b] = r
    BY <1>1 DEF InBatch
  <1>3. InBatch(r, batch) =>
          PlaceIn(r, batch) \in DOMAIN batch.rows /\ batch.rows[PlaceIn(r, batch)] = r
    BY <1>2 DEF PlaceIn
  <1>4. Scatter(outs, batch, outputs)[r] =
          IF InBatch(r, batch) THEN outputs[PlaceIn(r, batch)] ELSE outs[r]
    BY <1>2 DEF Scatter, PlaceIn
  <1>. QED
    BY <1>3, <1>4

\* A batch is run: its rows get their own outputs, and the rows without one are
\* in the batches that are left.
LEMMA RunSound ==
  ASSUME NEW l, NEW t \in Threads, NEW m, NEW c, Sound(l, t, c, m),
         c.pc = "run", c.batches # << >>
  PROVE  LET batch == Head(c.batches)
             outputs == [b \in DOMAIN batch.rows |->
                           LET row == c.rows[batch.rows[b]]
                           IN Output(t, row.item, row.level)]
         IN Sound(l, t, [c EXCEPT !.outs = Scatter(@, batch, outputs),
                                  !.batches = Tail(@)], m)
PROOF
  <1> DEFINE batch == Head(c.batches)
             outputs == [b \in DOMAIN batch.rows |->
                           LET row == c.rows[batch.rows[b]]
                           IN Output(t, row.item, row.level)]
             rest == Tail(c.batches)
             os == Scatter(c.outs, batch, outputs)
             d == [c EXCEPT !.outs = os, !.batches = rest]
  <1>1. c \in Call
    BY DEF Sound
  <1>2. /\ c.batches \in Seq(Batch) /\ c.outs \in Seq(Seq(Logit)) /\ c.rows \in Seq(Row)
        /\ Len(c.rows) \in Nat /\ Len(c.batches) \in Nat
        /\ DOMAIN c.outs = 1..Len(c.outs)
    BY <1>1 DEF Call
  <1>3. Len(c.outs) = Len(c.rows)
    BY DEF Sound, OwnOutputs
  <1>4. /\ batch \in Batch /\ rest \in Seq(Batch) /\ Len(rest) = Len(c.batches) - 1
        /\ \A b \in 1..Len(rest) : rest[b] = c.batches[b + 1]
        /\ batch = c.batches[1]
    BY <1>2, HeadTailProperties
  <1>5. \A b \in DOMAIN batch.rows :
          outputs[b] = Output(t, c.rows[batch.rows[b]].item, c.rows[batch.rows[b]].level)
    OBVIOUS
  <1>. HIDE DEF batch, outputs, rest
  <1>6. DOMAIN os = 1..Len(c.rows)
    BY <1>2, <1>3 DEF Scatter
  <1>7. \A r \in 1..Len(c.rows) :
          /\ os[r] \in {<< >>, Output(t, c.rows[r].item, c.rows[r].level)}
          /\ InBatch(r, batch) => os[r] # << >>
          /\ ~InBatch(r, batch) => os[r] = c.outs[r]
    <2>. TAKE r \in 1..Len(c.rows)
    <2>1. r \in DOMAIN c.outs
      BY <1>2, <1>3
    <2>2. c.outs[r] \in {<< >>, Output(t, c.rows[r].item, c.rows[r].level)}
      BY DEF Sound, OwnOutputs
    <2>. DEFINE own == Output(t, c.rows[r].item, c.rows[r].level)
    <2>3. own # << >>
      BY DEF Output
    <2>4. \A b \in DOMAIN batch.rows : batch.rows[b] = r => outputs[b] = own
      BY <1>5
    <2>. HIDE DEF own
    <2>5. batch \in Batch
      BY <1>4
    <2>6. os[r] = IF InBatch(r, batch) THEN own ELSE c.outs[r]
      <3>1. os[r] = IF InBatch(r, batch) THEN outputs[PlaceIn(r, batch)] ELSE c.outs[r]
        BY <2>1, <2>5, ScatterRow
      <3>2. InBatch(r, batch) =>
              PlaceIn(r, batch) \in DOMAIN batch.rows /\ batch.rows[PlaceIn(r, batch)] = r
        BY <2>1, <2>5, ScatterRow
      <3>. QED
        BY <3>1, <3>2, <2>4
    <2>7. c.outs[r] \in {<< >>, own}
      BY <2>2 DEF own
    <2>. HIDE DEF os
    <2>8. /\ os[r] \in {<< >>, own}
          /\ InBatch(r, batch) => os[r] # << >>
          /\ ~InBatch(r, batch) => os[r] = c.outs[r]
      BY <2>3, <2>6, <2>7
    <2>. QED
      BY <2>8 DEF own
  <1>8. os \in Seq(Seq(Logit)) /\ Len(os) = Len(c.rows)
    <2>1. \A r \in 1..Len(c.rows) : os[r] \in Seq(Logit)
      <3>. TAKE r \in 1..Len(c.rows)
      <3>1. c.rows[r] \in Row
        BY <1>2
      <3>2. [of |-> t, item |-> c.rows[r].item, level |-> c.rows[r].level] \in Logit
        BY <3>1 DEF Row, Logit
      <3>3. Output(t, c.rows[r].item, c.rows[r].level) \in Seq(Logit)
        BY <3>2 DEF Output
      <3>4. << >> \in Seq(Logit)
        OBVIOUS
      <3>5. os[r] \in {<< >>, Output(t, c.rows[r].item, c.rows[r].level)}
        BY <1>7
      <3>. HIDE DEF os
      <3>. QED
        BY <3>3, <3>4, <3>5
    <2>2. os = [r \in 1..Len(c.rows) |-> os[r]]
      BY <1>6 DEF Scatter
    <2>. HIDE DEF os
    <2>3. os \in [1..Len(c.rows) -> Seq(Logit)]
      BY <2>1, <2>2
    <2>. QED
      BY <2>3, <1>2
  <1>. HIDE DEF os
  <1>9. d \in Call
    BY <1>1, <1>4, <1>8 DEF Call, PCs
  <1>10. /\ d.pc = "run" /\ d.items = c.items /\ d.rows = c.rows /\ d.plan = c.plan
         /\ d.outs = os /\ d.answers = c.answers /\ d.outcome = c.outcome
         /\ d.batches = rest
    BY <1>1 DEF Call
  <1>. HIDE DEF d
  <1>11. Planned(d) /\ Answering(t, d, m)
    <2>1. Planned(d)
      BY <1>10, SamePlan DEF Sound
    <2>2. Answering(t, d, m)
      BY <1>10, SMTT(30) DEF Sound, Answering, ItemAnswer
    <2>. QED
      BY <2>1, <2>2
  <1>12. OwnOutputs(t, d)
    BY <1>7, <1>8, <1>10 DEF OwnOutputs
  <1>13. NoneLost(l, d)
    <2>. SUFFICES ASSUME NEW r \in 1..Len(c.rows), os[r] = << >>
                  PROVE  InBatches(r, rest)
      BY <1>10 DEF NoneLost
    <2>1. ~InBatch(r, batch) /\ c.outs[r] = << >>
      BY <1>7
    <2>2. InBatches(r, c.batches)
      BY <2>1 DEF Sound, NoneLost
    <2>3. PICK b \in 1..Len(c.batches) : InBatch(r, c.batches[b])
      BY <2>2 DEF InBatches
    <2>4. b # 1
      BY <2>1, <2>3, <1>4
    <2>5. b - 1 \in 1..Len(rest) /\ (b - 1) + 1 = b
      BY <2>4, <1>2, <1>4
    <2>6. InBatch(r, rest[b - 1])
      BY <2>3, <2>5, <1>4
    <2>. QED
      BY <2>5, <2>6 DEF InBatches
  <1>14. Complete(l, d)
    BY <1>10 DEF Sound, Complete
  <1>. QED
    BY <1>9, <1>10, <1>11, <1>12, <1>13, <1>14 DEF Sound, d, os, batch, outputs, rest

\* Every batch is through: no row is without its output.
LEMMA UnlockSound ==
  ASSUME NEW l, NEW t \in Threads, NEW m, NEW c, Sound(l, t, c, m),
         c.pc = "run", c.batches = << >>
  PROVE  Sound(l, t, [c EXCEPT !.pc = IF l = "embed" THEN "encode" ELSE "decode"], m)
PROOF
  <1> DEFINE d == [c EXCEPT !.pc = IF l = "embed" THEN "encode" ELSE "decode"]
  <1>1. c \in Call
    BY DEF Sound
  <1>2. d \in Call
    BY <1>1 DEF Call, PCs
  <1>3. /\ d.pc = (IF l = "embed" THEN "encode" ELSE "decode")
        /\ d.items = c.items /\ d.rows = c.rows /\ d.plan = c.plan
        /\ d.outs = c.outs /\ d.answers = c.answers /\ d.outcome = c.outcome
        /\ d.batches = c.batches
    BY <1>1 DEF Call
  <1>. HIDE DEF d
  <1>4. Planned(d) /\ OwnOutputs(t, d) /\ Answering(t, d, m)
    BY <1>3, SameData
  <1>5. \A r : ~InBatches(r, c.batches)
    BY DEF InBatches
  <1>6. \A r \in 1..Len(c.rows) : c.outs[r] # << >>
    BY <1>5 DEF Sound, NoneLost
  <1>7. NoneLost(l, d)
    BY <1>3, <1>6 DEF NoneLost
  <1>8. Complete(l, d)
    BY <1>3, <1>6 DEF Sound, Complete, Planned
  <1>. QED
    BY <1>2, <1>3, <1>4, <1>7, <1>8 DEF Sound, d

\* The next item is answered from its rows.
LEMMA DecodeSound ==
  ASSUME NEW l, NEW t \in Threads, NEW m \in Nat, NEW c, Sound(l, t, c, m),
         c.pc = "decode", Len(c.answers) < Len(c.plan)
  PROVE  LET places == c.plan[Len(c.answers) + 1]
         IN Sound(l, t, [c EXCEPT !.answers =
              Append(@, [logits |-> [j \in DOMAIN places |-> c.outs[places[j]]],
                         map |-> m])], m)
PROOF
  <1> DEFINE i == Len(c.answers) + 1
             places == c.plan[i]
             logits == [j \in DOMAIN places |-> c.outs[places[j]]]
             answer == [logits |-> logits, map |-> m]
             more == Append(c.answers, answer)
             d == [c EXCEPT !.answers = more]
  <1>1. c \in Call
    BY DEF Sound
  <1>2. /\ c.answers \in Seq(AnswerOf) /\ c.plan \in Seq(Seq(Nat))
        /\ c.items \in Seq(Seq(Nat)) /\ c.outs \in Seq(Seq(Logit))
        /\ Len(c.plan) \in Nat /\ Len(c.answers) \in Nat /\ Len(c.items) \in Nat
        /\ Len(c.rows) \in Nat
    BY <1>1 DEF Call
  <1>3. i \in 1..Len(c.plan) /\ i <= Len(c.items)
    <2>1. PICK a, p, s : a = Len(c.answers) /\ p = Len(c.plan) /\ s = Len(c.items)
      OBVIOUS
    <2>2. Len(c.plan) <= Len(c.items) /\ Len(c.answers) < Len(c.plan)
      BY DEF Sound, Planned
    <2>3. a \in Nat /\ p \in Nat /\ s \in Nat /\ p <= s /\ a < p
      BY <1>2, <2>1, <2>2
    <2>4. a + 1 \in 1..p /\ a + 1 <= s
      BY <2>3, SMT
    <2>. QED
      BY <2>1, <2>4, Zenon
  <1>4. places \in Seq(Nat) /\ DOMAIN places = 1..Len(places) /\ Len(places) \in Nat
    <2>1. places \in Seq(Nat)
      BY <1>2, <1>3, ElementOfSeq
    <2>. HIDE DEF places
    <2>. QED
      BY <2>1
  <1>5. Len(places) = Len(c.items[i])
    BY <1>3 DEF Sound, Planned
  <1>6. \A j \in 1..Len(places) : c.outs[places[j]] = Output(t, i, j)
    <2>. TAKE j \in 1..Len(places)
    <2>1. /\ places[j] \in 1..Len(c.rows)
          /\ c.rows[places[j]].item = i /\ c.rows[places[j]].level = j
      BY <1>3 DEF Sound, Planned
    <2>2. c.outs[places[j]] # << >>
      BY <1>3 DEF Sound, Complete
    <2>3. c.outs[places[j]] \in
            {<< >>, Output(t, c.rows[places[j]].item, c.rows[places[j]].level)}
      BY <2>1 DEF Sound, OwnOutputs
    <2>. QED
      BY <2>1, <2>2, <2>3
  <1>. HIDE DEF places
  <1>7. answer = ItemAnswer(t, c, m, i)
    <2>1. logits = [j \in 1..Len(c.items[i]) |-> Output(t, i, j)]
      <3>. HIDE DEF i
      <3>. QED
        BY <1>4, <1>5, <1>6
    <2>. QED
      BY <2>1 DEF ItemAnswer
  <1>8. answer \in AnswerOf
    <2>1. \A j \in 1..Len(places) : j \in Nat /\ i \in Nat
      BY <1>2
    <2>. HIDE DEF i
    <2>2. \A j \in 1..Len(places) : [of |-> t, item |-> i, level |-> j] \in Logit
      BY <2>1 DEF Logit
    <2>3. \A j \in 1..Len(places) : Output(t, i, j) \in Seq(Logit)
      BY <2>2 DEF Output
    <2>4. logits \in [1..Len(places) -> Seq(Logit)]
      BY <2>3, <1>4, <1>6
    <2>. HIDE DEF logits
    <2>5. logits \in Seq(Seq(Logit))
      BY <2>4, <1>4
    <2>. QED
      BY <2>5 DEF AnswerOf
  <1>. HIDE DEF answer, logits
  <1>9. /\ more \in Seq(AnswerOf) /\ Len(more) = i
        /\ \A h \in 1..Len(c.answers) : more[h] = c.answers[h]
        /\ more[i] = answer
    BY <1>2, <1>8, AppendProperties
  <1>. HIDE DEF more
  <1>10. d \in Call
    BY <1>1, <1>9 DEF Call
  <1>11. /\ d.pc = "decode" /\ d.items = c.items /\ d.rows = c.rows /\ d.plan = c.plan
         /\ d.outs = c.outs /\ d.answers = more /\ d.outcome = c.outcome
    BY <1>1 DEF Call
  <1>. HIDE DEF d
  <1>12. Planned(d) /\ OwnOutputs(t, d)
    BY <1>11, SamePlan DEF Sound, OwnOutputs
  <1>13. NoneLost(l, d)
    BY <1>11 DEF NoneLost
  <1>14. Complete(l, d)
    BY <1>11 DEF Sound, Complete
  <1>15. Answering(t, d, m)
    <2>1. ~c.outcome.ok /\ c.outcome = Raised
      BY DEF Sound, Answering
    <2>2. ASSUME NEW h \in 1..i PROVE more[h] = ItemAnswer(t, c, m, h)
      <3>1. CASE h = i
        BY <3>1, <1>7, <1>9
      <3>2. CASE h # i
        <4>0. Len(c.answers) \in Nat
          BY <1>2
        <4>1. h \in 1..Len(c.answers)
          BY <3>2, <4>0
        <4>2. c.answers[h] = ItemAnswer(t, c, m, h)
          BY <4>1 DEF Sound, Answering
        <4>. QED
          BY <4>1, <4>2, <1>9
      <3>. QED
        BY <3>1, <3>2
    <2>3. \A h : ItemAnswer(t, d, m, h) = ItemAnswer(t, c, m, h)
      BY <1>11 DEF ItemAnswer
    <2>. HIDE DEF i
    <2>. QED
      BY <2>1, <2>2, <2>3, <1>3, <1>9, <1>11 DEF Answering
  <1>. QED
    BY <1>1, <1>10, <1>11, <1>12, <1>13, <1>14, <1>15
    DEF Sound, d, more, answer, logits, places

\* Every item is answered: the outcome is the answer to the call.
LEMMA FinishSound ==
  ASSUME NEW l, NEW t \in Threads, NEW m \in Nat, NEW c, Sound(l, t, c, m),
         c.pc = "decode", Len(c.answers) = Len(c.plan)
  PROVE  Sound(l, t, [c EXCEPT !.pc = "attach", !.outcome = Answered(c.answers)], m)
PROOF
  <1> DEFINE d == [c EXCEPT !.pc = "attach", !.outcome = Answered(c.answers)]
  <1>1. c \in Call
    BY DEF Sound
  <1>2. /\ c.answers \in Seq(AnswerOf) /\ c.items \in Seq(Seq(Nat))
        /\ Len(c.items) \in Nat
    BY <1>1 DEF Call
  <1>3. d \in Call
    BY <1>1, <1>2 DEF Call, PCs, Answered, Outcome
  <1>4. /\ d.pc = "attach" /\ d.items = c.items /\ d.rows = c.rows /\ d.plan = c.plan
        /\ d.outs = c.outs /\ d.answers = c.answers /\ d.outcome = Answered(c.answers)
    BY <1>1 DEF Call
  <1>. HIDE DEF d
  <1>5. Len(c.answers) = Len(c.items)
    BY DEF Sound, Complete
  <1>6. Answered(c.answers) = Answers(t, c.items, m)
    <2>1. c.answers = [i \in 1..Len(c.items) |-> c.answers[i]]
      BY <1>2, <1>5
    <2>2. \A i \in 1..Len(c.items) :
            c.answers[i] = [logits |-> [j \in 1..Len(c.items[i]) |-> Output(t, i, j)],
                            map |-> m]
      BY <1>5 DEF Sound, Answering, ItemAnswer
    <2>3. DOMAIN c.items = 1..Len(c.items)
      BY <1>2
    <2>4. \A i \in 1..Len(c.items) : DOMAIN c.items[i] = 1..Len(c.items[i])
      <3>. TAKE i \in 1..Len(c.items)
      <3>1. c.items[i] \in Seq(Nat)
        BY <1>2
      <3>. QED
        BY <3>1
    <2>. DEFINE f == [i \in DOMAIN c.items |->
                        [logits |-> [j \in DOMAIN c.items[i] |-> Output(t, i, j)],
                         map |-> m]]
    <2>5. \A i \in 1..Len(c.items) : f[i] = c.answers[i]
      BY <2>2, <2>3, <2>4
    <2>6. f = [i \in 1..Len(c.items) |-> f[i]]
      BY <2>3
    <2>. HIDE DEF f
    <2>7. f = c.answers
      BY <2>1, <2>5, <2>6
    <2>. QED
      BY <2>7 DEF Answers, f
  <1>7. Planned(d) /\ OwnOutputs(t, d)
    BY <1>4, SamePlan DEF Sound, OwnOutputs
  <1>8. NoneLost(l, d) /\ Complete(l, d)
    BY <1>4 DEF NoneLost, Complete
  <1>9. Answering(t, d, m)
    BY <1>4, <1>6, SMTT(30) DEF Sound, Answering, ItemAnswer, Answered
  <1>. QED
    BY <1>1, <1>3, <1>4, <1>7, <1>8, <1>9 DEF Sound, d

\* The map may change while everybody is idle.
LEMMA NewMapSound ==
  ASSUME NEW l, NEW t, NEW m, NEW c, Sound(l, t, c, m), NEW m2,
         c.pc \in {"idle", "opening"}
  PROVE  Sound(l, t, c, m2)
PROOF
  <1>1. c.answers = << >> /\ ~c.outcome.ok
    BY DEF Sound, Answering
  <1>2. Len(c.answers) = 0
    BY <1>1
  <1>3. Answering(t, c, m2)
    BY <1>1, <1>2 DEF Sound, Answering
  <1>. QED
    BY <1>3 DEF Sound

-----------------------------------------------------------------------------
(* The invariant                                                           *)

\* The invariant holds before anything is called.
LEMMA InitIInv == Init => IInv
PROOF
  <1>. SUFFICES ASSUME Init PROVE IInv
    OBVIOUS
  <1>1. MaxCalls \in 0..MaxCalls
    BY MaxCallsAssumption
  <1>2. left \in [Threads -> 0..MaxCalls]
    BY <1>1 DEF Init
  <1>4. \A t \in Threads : Sound(loader, t, Idle, map)
    <2>. TAKE t \in Threads
    <2>1. loader \in Loaders
      BY DEF Init
    <2>. QED
      BY <2>1, IdleSound
  <1>5. call = [t \in Threads |-> Idle]
    BY DEF Init
  <1>6. /\ call \in [Threads -> Call]
        /\ \A t \in Threads : Sound(loader, t, call[t], map)
        /\ \A t \in Threads : call[t].pc = "idle"
    <2>1. \A t \in Threads : Idle \in Call
      BY <1>4 DEF Sound
    <2>2. Idle.pc = "idle"
      BY DEF Idle
    <2>. QED
      BY <1>4, <1>5, <2>1, <2>2
  <1>. QED
    BY <1>2, <1>6, NobodyAssumption DEF Init, IInv, Owned, NoRunAfterPanic

\* Every step of every thread keeps the invariant.
LEMMA NextIInv == IInv /\ [Next]_vars => IInv'
PROOF
  <1>. SUFFICES ASSUME IInv, [Next]_vars PROVE IInv'
    OBVIOUS
  <1>0. /\ loader \in Loaders /\ map \in Nat
        /\ gil \in Threads \cup {Nobody} /\ left \in [Threads -> 0..MaxCalls]
        /\ \A t \in Threads : call[t] \in Call /\ Sound(loader, t, call[t], map)
    BY DEF IInv
  <1>c. \A t \in Threads : left[t] > 0 => [left EXCEPT ![t] = @ - 1] \in [Threads -> 0..MaxCalls]
    BY <1>0, MaxCallsAssumption
  <1>1. ASSUME NEW t \in Threads, Begin(t) PROVE IInv'
    <2>1. PICK items \in Calls[loader] :
            call' = [call EXCEPT ![t] = [Idle EXCEPT !.pc = "encode", !.items = items]]
      BY <1>1 DEF Begin, Goes
    <2>2. Sound(loader, t, [Idle EXCEPT !.pc = "encode", !.items = items], map)
      BY <1>0, IdleSound
    <2>3. [Idle EXCEPT !.pc = "encode", !.items = items].pc = "encode"
      BY DEF Idle
    <2>. QED
      BY <1>0, <1>c, <1>1, <2>1, <2>2, <2>3, OneMoves DEF Begin
  <1>2. ASSUME NEW t \in Threads, LoadMap(t) PROVE IInv'
    <2>1. map' \in Nat /\ left' \in [Threads -> 0..MaxCalls]
      BY <1>0, <1>c, <1>2 DEF LoadMap
    <2>2. \A u \in Threads : Sound(loader, u, call[u], map')
      <3>. TAKE u \in Threads
      <3>1. CASE Borrowers = {}
        <4>1. call[u].pc \in {"idle", "opening"}
          BY <3>1 DEF Borrowers
        <4>. QED
          BY <1>0, <4>1, NewMapSound
      <3>2. CASE Borrowers # {}
        BY <1>0, <1>2, <3>2 DEF LoadMap
      <3>. QED
        BY <3>1, <3>2
    <2>. QED
      BY <1>2, <2>1, <2>2 DEF LoadMap, IInv, Owned, NoRunAfterPanic
  <1>3. ASSUME NEW t \in Threads, Open(t) PROVE IInv'
    <2>1. Sound(loader, t, [Idle EXCEPT !.pc = "opening"], map)
      BY <1>0, IdleSound
    <2>2. [Idle EXCEPT !.pc = "opening"].pc = "opening"
      BY DEF Idle
    <2>. QED
      BY <1>0, <1>c, <1>3, <2>1, <2>2, OneMoves DEF Open, Goes
  <1>4. ASSUME NEW t \in Threads, Opened(t) \/ Attach(t) PROVE IInv'
    <2>1. Sound(loader, t, Idle, map)
      BY <1>0, IdleSound
    <2>2. Idle.pc = "idle"
      BY DEF Idle
    <2>. QED
      BY <1>0, <1>4, <2>1, <2>2, OneMoves DEF Opened, Attach, Goes
  <1>5. ASSUME NEW t \in Threads, EncodeNext(t) PROVE IInv'
    <2>. DEFINE c == call[t]
                i == Len(c.plan) + 1
                k == Len(c.items[i])
                more == [j \in 1..k |-> [item |-> i, level |-> j, len |-> c.items[i][j]]]
                places == rebase(Len(c.rows), k)
                d == [c EXCEPT
                       !.rows = @ \o more,
                       !.plan = Append(@, places),
                       !.outs = @ \o [j \in 1..k |-> << >>],
                       !.batches = IF loader = "embed"
                                     THEN <<[rows |-> places, width |-> c.items[i][1]]>> ELSE @,
                       !.pc = IF loader = "embed" THEN "lock" ELSE @]
    <2>1. c.pc = "encode" /\ Len(c.plan) # Len(c.items)
      BY <1>5 DEF EncodeNext, Encoded
    <2>2. Sound(loader, t, d, map)
      BY <1>0, <2>1, EncodeSound
    <2>3. d.pc \in {"lock", "encode"}
      BY <1>0, <2>1 DEF Call
    <2>4. call' = [call EXCEPT ![t] = d]
      BY <1>5 DEF EncodeNext, Goes
    <2>5. UNCHANGED <<loader, gil, lock, poisoned, map, left>>
      BY <1>5 DEF EncodeNext
    <2>. HIDE DEF d
    <2>. QED
      BY <1>0, <2>1, <2>2, <2>3, <2>4, <2>5, OneMoves
  <1>6. ASSUME NEW t \in Threads,
               \/ Refuse(t) \/ RunFails(t) \/ RunPanics(t)
               \/ Lock(t) /\ poisoned
        PROVE  IInv'
    <2>. DEFINE d == [call[t] EXCEPT !.pc = "attach", !.outcome = Raised]
    <2>1. Sound(loader, t, d, map)
      BY <1>0, FailsSound
    <2>2. d.pc = "attach"
      BY <1>0 DEF Call
    <2>3. call' = [call EXCEPT ![t] = d]
      BY <1>6 DEF Refuse, RunFails, RunPanics, Lock, Fails, Goes
    <2>. HIDE DEF d
    <2>4. /\ UNCHANGED <<loader, gil, map, left>>
          /\ \/ UNCHANGED <<lock, poisoned>> /\ call[t].pc \in {"encode", "lock"}
             \/ lock' = Nobody /\ poisoned' \in {poisoned, TRUE} /\ call[t].pc = "run"
      BY <1>6 DEF Refuse, RunFails, RunPanics, Lock
    <2>5. poisoned \in BOOLEAN
      BY DEF IInv
    <2>. QED
      BY <1>0, <2>1, <2>2, <2>3, <2>4, <2>5, OneMoves
  <1>7. ASSUME NEW t \in Threads, NothingToRun(t) PROVE IInv'
    <2>. DEFINE d == [call[t] EXCEPT !.pc = "decode"]
    <2>1. /\ call[t].pc = "encode" /\ Len(call[t].plan) = Len(call[t].items)
          /\ loader = "embed" \/ call[t].items = << >>
      BY <1>7 DEF NothingToRun, Encoded
    <2>2. Sound(loader, t, d, map)
      BY <1>0, <2>1, NothingSound
    <2>3. d.pc = "decode"
      BY <1>0 DEF Call
    <2>4. call' = [call EXCEPT ![t] = d] /\ UNCHANGED <<loader, gil, lock, poisoned, map, left>>
      BY <1>7 DEF NothingToRun, Goes
    <2>. HIDE DEF d
    <2>. QED
      BY <1>0, <2>1, <2>2, <2>3, <2>4, OneMoves
  <1>8. ASSUME NEW t \in Threads, Collate(t) PROVE IInv'
    <2>. DEFINE c == call[t]
                d(w) == [c EXCEPT
                  !.batches = <<[rows |-> [r \in DOMAIN c.rows |-> r], width |-> w]>>,
                  !.pc = "lock"]
    <2>1. c.pc = "encode" /\ Len(c.plan) = Len(c.items)
      BY <1>8 DEF Collate, Encoded
    <2>2. PICK w \in {0} \cup {c.rows[r].len : r \in DOMAIN c.rows} :
            call' = [call EXCEPT ![t] = d(w)]
      BY <1>8 DEF Collate, Goes
    <2>3. Sound(loader, t, d(w), map)
      BY <1>0, <2>1, CollateSound
    <2>4. d(w).pc = "lock"
      BY <1>0 DEF Call
    <2>5. UNCHANGED <<loader, gil, lock, poisoned, map, left>>
      BY <1>8 DEF Collate
    <2>. HIDE DEF d
    <2>. QED
      BY <1>0, <2>1, <2>2, <2>3, <2>4, <2>5, OneMoves
  <1>9. ASSUME NEW t \in Threads, Sort(t) PROVE IInv'
    <2>. DEFINE c == call[t]
                d(p) == [c EXCEPT !.order = p, !.pc = "pack"]
    <2>1. c.pc = "encode" /\ Len(c.plan) = Len(c.items)
      BY <1>9 DEF Sort, Encoded
    <2>2. PICK p \in [DOMAIN c.rows -> DOMAIN c.rows] :
            SortsByLength(p, c.rows) /\ call' = [call EXCEPT ![t] = d(p)]
      BY <1>9 DEF Sort, Goes
    <2>3. Sound(loader, t, d(p), map)
      BY <1>0, <2>1, <2>2, SortSound
    <2>4. d(p).pc = "pack"
      BY <1>0 DEF Call
    <2>5. UNCHANGED <<loader, gil, lock, poisoned, map, left>>
      BY <1>9 DEF Sort
    <2>. HIDE DEF d
    <2>. QED
      BY <1>0, <2>1, <2>2, <2>3, <2>4, <2>5, OneMoves
  <1>10. ASSUME NEW t \in Threads, Pack(t) PROVE IInv'
    <2>. DEFINE c == call[t]
                w(n) == Width(c.rows[c.order[n]].len)
                d(n) == [c EXCEPT
                  !.batches = Append(@, [rows |-> SubSeq(c.order, 1, n), width |-> w(n)]),
                  !.order = SubSeq(@, n + 1, Len(@))]
    <2>1. c.pc = "pack"
      BY <1>10 DEF Pack
    <2>2. PICK n \in DOMAIN c.order : call' = [call EXCEPT ![t] = d(n)]
      BY <1>10 DEF Pack, Goes
    <2>3. w(n) \in Nat
      <3>1. c \in Call /\ c.order[n] \in 1..Len(c.rows)
        <4>1. c \in Call /\ NoneLost(loader, c)
          BY <1>0 DEF Sound
        <4>2. n \in 1..Len(c.order)
          BY <4>1 DEF Call
        <4>. HIDE DEF c
        <4>. QED
          BY <2>1, <4>1, <4>2 DEF NoneLost
      <3>2. c.rows[c.order[n]] \in Row
        BY <3>1 DEF Call
      <3>3. c.rows[c.order[n]].len \in Nat
        BY <3>2 DEF Row
      <3>. QED
        BY <3>3 DEF Width, SEQ_MULTIPLE
    <2>4. Sound(loader, t, d(n), map)
      <3>. HIDE DEF w
      <3>. QED
        BY <1>0, <2>1, <2>2, <2>3, PackSound
    <2>5. d(n).pc = "pack"
      BY <1>0, <2>1 DEF Call
    <2>6. UNCHANGED <<loader, gil, lock, poisoned, map, left>>
      BY <1>10 DEF Pack
    <2>. HIDE DEF d
    <2>. QED
      BY <1>0, <2>1, <2>2, <2>4, <2>5, <2>6, OneMoves
  <1>11. ASSUME NEW t \in Threads, Packed(t) PROVE IInv'
    <2>. DEFINE d == [call[t] EXCEPT !.pc = "lock"]
    <2>1. call[t].pc = "pack" /\ call[t].order = << >>
      BY <1>11 DEF Packed
    <2>2. Sound(loader, t, d, map)
      BY <1>0, <2>1, PackedSound
    <2>3. d.pc = "lock"
      BY <1>0 DEF Call
    <2>4. call' = [call EXCEPT ![t] = d] /\ UNCHANGED <<loader, gil, lock, poisoned, map, left>>
      BY <1>11 DEF Packed, Goes
    <2>. HIDE DEF d
    <2>. QED
      BY <1>0, <2>1, <2>2, <2>3, <2>4, OneMoves
  <1>12. ASSUME NEW t \in Threads, Lock(t), ~poisoned PROVE IInv'
    <2>. DEFINE d == [call[t] EXCEPT !.pc = "run"]
    <2>1. call[t].pc = "lock" /\ lock = Nobody /\ lock' = t
      BY <1>12 DEF Lock
    <2>2. Sound(loader, t, d, map)
      BY <1>0, <2>1, LockSound
    <2>3. d.pc = "run"
      BY <1>0 DEF Call
    <2>4. call' = [call EXCEPT ![t] = d] /\ UNCHANGED <<loader, gil, poisoned, map, left>>
      BY <1>12 DEF Lock, Goes
    <2>. HIDE DEF d
    <2>. QED
      BY <1>0, <1>12, <2>1, <2>2, <2>3, <2>4, OneMoves
  <1>13. ASSUME NEW t \in Threads, Run(t) PROVE IInv'
    <2>. DEFINE c == call[t]
                batch == Head(c.batches)
                outputs == [b \in DOMAIN batch.rows |->
                              LET row == c.rows[batch.rows[b]]
                              IN Output(t, row.item, row.level)]
                d == [c EXCEPT !.outs = Scatter(@, batch, outputs), !.batches = Tail(@)]
    <2>1. c.pc = "run" /\ c.batches # << >>
      BY <1>13 DEF Run
    <2>2. Sound(loader, t, d, map)
      BY <1>0, <2>1, RunSound
    <2>3. d.pc = "run"
      BY <1>0, <2>1 DEF Call
    <2>4. call' = [call EXCEPT ![t] = d]
      BY <1>13 DEF Run, Goes
    <2>5. UNCHANGED <<loader, gil, lock, poisoned, map, left>>
      BY <1>13 DEF Run
    <2>. HIDE DEF d
    <2>. QED
      BY <1>0, <2>1, <2>2, <2>3, <2>4, <2>5, OneMoves
  <1>14. ASSUME NEW t \in Threads, Unlock(t) PROVE IInv'
    <2>. DEFINE d == [call[t] EXCEPT !.pc = IF loader = "embed" THEN "encode" ELSE "decode"]
    <2>1. call[t].pc = "run" /\ call[t].batches = << >> /\ lock' = Nobody
      BY <1>14 DEF Unlock
    <2>2. Sound(loader, t, d, map)
      BY <1>0, <2>1, UnlockSound
    <2>3. d.pc # "run"
      BY <1>0 DEF Call
    <2>4. call' = [call EXCEPT ![t] = d] /\ UNCHANGED <<loader, gil, poisoned, map, left>>
      BY <1>14 DEF Unlock, Goes
    <2>5. poisoned' \in BOOLEAN
      BY <2>4 DEF IInv
    <2>. HIDE DEF d
    <2>. QED
      BY <1>0, <2>1, <2>2, <2>3, <2>4, <2>5, OneMoves
  <1>15. ASSUME NEW t \in Threads, DecodeNext(t) PROVE IInv'
    <2>. DEFINE c == call[t]
                places == c.plan[Len(c.answers) + 1]
                d == [c EXCEPT !.answers =
                  Append(@, [logits |-> [j \in DOMAIN places |-> c.outs[places[j]]],
                             map |-> map])]
    <2>1. c.pc = "decode" /\ Len(c.answers) < Len(c.plan)
      BY <1>15 DEF DecodeNext
    <2>2. Sound(loader, t, d, map)
      BY <1>0, <2>1, DecodeSound
    <2>3. d.pc = "decode"
      BY <1>0, <2>1 DEF Call
    <2>4. call' = [call EXCEPT ![t] = d]
      BY <1>15 DEF DecodeNext, Goes
    <2>5. UNCHANGED <<loader, gil, lock, poisoned, map, left>>
      BY <1>15 DEF DecodeNext
    <2>. HIDE DEF d
    <2>. QED
      BY <1>0, <2>1, <2>2, <2>3, <2>4, <2>5, OneMoves
  <1>16. ASSUME NEW t \in Threads, Finish(t) PROVE IInv'
    <2>. DEFINE d == [call[t] EXCEPT !.pc = "attach", !.outcome = Answered(call[t].answers)]
    <2>1. call[t].pc = "decode" /\ Len(call[t].answers) = Len(call[t].plan)
      BY <1>16 DEF Finish
    <2>2. Sound(loader, t, d, map)
      BY <1>0, <2>1, FinishSound
    <2>3. d.pc = "attach"
      BY <1>0 DEF Call
    <2>4. call' = [call EXCEPT ![t] = d] /\ UNCHANGED <<loader, gil, lock, poisoned, map, left>>
      BY <1>16 DEF Finish, Goes
    <2>. HIDE DEF d
    <2>. QED
      BY <1>0, <2>1, <2>2, <2>3, <2>4, OneMoves
  <1>17. ASSUME UNCHANGED vars PROVE IInv'
    BY <1>17 DEF vars, IInv, Owned, NoRunAfterPanic
  <1>. QED
    BY <1>1, <1>2, <1>3, <1>4, <1>5, <1>6, <1>7, <1>8, <1>9, <1>10, <1>11, <1>12, <1>13,
       <1>14, <1>15, <1>16, <1>17
    DEF Next, Step, Over

\* What holds in every state of the model: see IInv.
THEOREM Inductive == Spec => []IInv
PROOF
  BY InitIInv, NextIInv, PTL DEF Spec

-----------------------------------------------------------------------------
(* What follows                                                            *)

\* The variables keep their types, whatever the threads ask (Sessions).
THEOREM TypeCorrect == Spec => []TypeOK
PROOF
  <1>1. IInv => TypeOK
    <2>. SUFFICES ASSUME IInv PROVE TypeOK
      OBVIOUS
    <2>1. \A t \in Threads :
            /\ call[t].items \in Calls[loader] \cup {<< >>}
            /\ call[t].rows \in Seq([item : Nat, level : Nat, len : Nat])
            /\ Len(call[t].outs) = Len(call[t].rows)
      BY DEF IInv, Sound, Call, Row, OwnOutputs
    <2>. QED
      BY <2>1 DEF IInv, TypeOK, Owned
  <1>. QED
    BY Inductive, <1>1, PTL

\* A call that does not raise returns the answers to its own items, in their
\* order, however its rows were sorted, batched and scattered.
THEOREM OwnAnswersHold == Spec => []OwnAnswers
PROOF
  <1>1. IInv => OwnAnswers
    <2>. SUFFICES ASSUME IInv, NEW t \in Threads, call[t].outcome.ok
                  PROVE  \E m \in 0..map : call[t].outcome = Answers(t, call[t].items, m)
      BY DEF OwnAnswers
    <2>1. call[t].outcome = Answers(t, call[t].items, map)
      BY DEF IInv, Sound, Answering
    <2>2. map \in 0..map
      BY DEF IInv
    <2>. QED
      BY <2>1, <2>2
  <1>. QED
    BY Inductive, <1>1, PTL

\* The answers of one call are made under one binning map.
THEOREM OneMapHolds == Spec => []OneMap
PROOF
  <1>1. IInv => OneMap
    <2>. SUFFICES ASSUME IInv, NEW t \in Threads,
                         NEW i \in DOMAIN call[t].answers, NEW j \in DOMAIN call[t].answers
                  PROVE  call[t].answers[i].map = call[t].answers[j].map
      BY DEF OneMap
    <2>1. Sound(loader, t, call[t], map)
      BY DEF IInv
    <2>2. i \in 1..Len(call[t].answers) /\ j \in 1..Len(call[t].answers)
      BY <2>1, SMTT(30) DEF Sound, Call
    <2>. DEFINE c == call[t]
    <2>3. /\ c.answers[i] = ItemAnswer(t, c, map, i)
          /\ c.answers[j] = ItemAnswer(t, c, map, j)
      BY <2>1, <2>2 DEF Sound, Answering
    <2>4. \A h : ItemAnswer(t, c, map, h).map = map
      BY DEF ItemAnswer
    <2>. QED
      BY <2>3, <2>4
  <1>. QED
    BY Inductive, <1>1, PTL

\* After a panic with the lock nobody runs the session again.
THEOREM PoisonHolds == Spec => []NoRunAfterPanic
PROOF
  <1>1. IInv => NoRunAfterPanic
    BY DEF IInv
  <1>. QED
    BY Inductive, <1>1, PTL

-----------------------------------------------------------------------------
(* The contract                                                            *)

\* Every step is one of the contract's, or none (its liveness is for TLC).
THEOREM SessionsImplement == Spec => Contract!Init /\ [][Contract!Next]_(Contract!vars)
PROOF
  <1>. DEFINE asked == [t \in Threads |-> IF t \in Borrowers THEN {call[t].items} ELSE {}]
  <1>1. Init => Contract!Init
    <2>. SUFFICES ASSUME Init PROVE Contract!Init
      OBVIOUS
    <2>1. \A t \in Threads : t \notin Borrowers
      BY DEF Init, Idle, Borrowers
    <2>. QED
      BY <2>1 DEF Init, Contract!Init
  <1>2. IInv /\ [Next]_vars => [Contract!Next]_(Contract!vars)
    <2>. SUFFICES ASSUME IInv, [Next]_vars PROVE [Contract!Next]_(Contract!vars)
      OBVIOUS
    <2>0. \A t \in Threads : call[t] \in Call /\ Sound(loader, t, call[t], map)
      BY DEF IInv
    <2>b. /\ \A t \in Threads : t \in Borrowers <=> call[t].pc \notin {"idle", "opening"}
          /\ \A t \in Threads : t \in Borrowers' <=> call'[t].pc \notin {"idle", "opening"}
      BY DEF Borrowers
    <2>1. ASSUME NEW t \in Threads, Begin(t) PROVE Contract!Ask(t)
      <3>1. PICK items \in Calls[loader] :
              call' = [call EXCEPT ![t] = [Idle EXCEPT !.pc = "encode", !.items = items]]
        BY <2>1 DEF Begin, Goes
      <3>2. call[t].pc = "idle" /\ UNCHANGED <<reply, map>>
        BY <2>1 DEF Begin
      <3>3. /\ call'[t].pc = "encode" /\ call'[t].items = items
            /\ \A u \in Threads \ {t} : call'[u] = call[u]
        BY <3>1 DEF IInv, Idle
      <3>4. items \in UNION {Calls[l] : l \in Loaders}
        BY DEF IInv
      <3>5. asked' = [asked EXCEPT ![t] = {items}] /\ asked[t] = {}
        BY <2>b, <3>2, <3>3
      <3>. HIDE DEF asked
      <3>. QED
        BY <3>2, <3>4, <3>5 DEF Contract!Ask, asked
    <2>2. ASSUME NEW t \in Threads, LoadMap(t) PROVE Contract!Install \/ UNCHANGED Contract!vars
      <3>1. UNCHANGED <<call, reply>>
        BY <2>2 DEF LoadMap
      <3>2. asked' = asked
        BY <3>1 DEF Borrowers
      <3>3. CASE Borrowers = {} /\ map' = map + 1
        <4>1. \A u \in Threads : asked[u] = {}
          BY <3>3
        <4>. QED
          BY <3>1, <3>2, <3>3, <4>1 DEF Contract!Install
      <3>4. CASE map' = map
        BY <3>1, <3>2, <3>4 DEF Contract!vars
      <3>. QED
        BY <2>2, <3>3, <3>4 DEF LoadMap
    <2>3. ASSUME NEW t \in Threads, NEW d, call' = [call EXCEPT ![t] = d],
                 UNCHANGED <<reply, map>>, d.items = call[t].items \/ t \notin Borrowers,
                 d.pc \notin {"idle", "opening"} <=> t \in Borrowers
          PROVE  UNCHANGED Contract!vars
      <3>1. call'[t] = d /\ \A u \in Threads \ {t} : call'[u] = call[u]
        BY <2>3 DEF IInv
      <3>2. \A u \in Threads : /\ u \in Borrowers' <=> u \in Borrowers
                               /\ u \in Borrowers => call'[u].items = call[u].items
        <4>. TAKE u \in Threads
        <4>1. CASE u = t
          BY <2>3, <2>b, <3>1, <4>1
        <4>2. CASE u # t
          BY <2>b, <3>1, <4>2
        <4>. QED
          BY <4>1, <4>2
      <3>3. asked' = asked
        BY <3>2
      <3>. QED
        BY <2>3, <3>3 DEF Contract!vars
    <2>4. ASSUME NEW t \in Threads, Attach(t) PROVE Contract!Reply(t)
      <3>1. /\ call[t].pc = "attach" /\ call' = [call EXCEPT ![t] = Idle]
            /\ reply' = [reply EXCEPT ![t] = {call[t].outcome}] /\ map' = map
        BY <2>4 DEF Attach, Goes
      <3>2. /\ call'[t].pc = "idle"
            /\ \A u \in Threads \ {t} : call'[u] = call[u]
        BY <3>1 DEF IInv, Idle
      <3>3. asked' = [asked EXCEPT ![t] = {}] /\ asked[t] = {call[t].items}
        BY <2>b, <3>1, <3>2
      <3>4. call[t].outcome \in {Answers(t, call[t].items, map), Raised}
        BY <2>0 DEF Sound, Answering
      <3>. HIDE DEF asked
      <3>. QED
        BY <3>1, <3>3, <3>4 DEF Contract!Reply, asked
    <2>5. ASSUME NEW t \in Threads, Open(t) \/ Opened(t) PROVE UNCHANGED Contract!vars
      <3>1. t \notin Borrowers /\ UNCHANGED <<reply, map>>
        BY <2>5, <2>b DEF Open, Opened
      <3>2. PICK d \in {Idle, [Idle EXCEPT !.pc = "opening"]} : call' = [call EXCEPT ![t] = d]
        BY <2>5 DEF Open, Opened, Goes
      <3>3. d.pc \in {"idle", "opening"}
        BY DEF Idle
      <3>. QED
        BY <2>3, <3>1, <3>2, <3>3
    <2>6. ASSUME NEW t \in Threads,
                 \/ EncodeNext(t) \/ Refuse(t) \/ NothingToRun(t) \/ Collate(t)
                 \/ Sort(t) \/ Pack(t) \/ Packed(t)
                 \/ Lock(t) \/ Run(t) \/ RunFails(t) \/ RunPanics(t) \/ Unlock(t)
                 \/ DecodeNext(t) \/ Finish(t)
          PROVE  UNCHANGED Contract!vars
      <3>0. /\ t \in Borrowers /\ UNCHANGED <<reply, map>> /\ call[t] \in Call
            /\ call[t].pc \notin {"idle", "opening"}
        BY <2>0, <2>b, <2>6
        DEF EncodeNext, Refuse, NothingToRun, Collate, Sort, Pack, Packed, Lock, Run,
            RunFails, RunPanics, Unlock, DecodeNext, Finish
      <3>. DEFINE Moves == \E d : /\ call' = [call EXCEPT ![t] = d]
                                 /\ d.items = call[t].items
                                 /\ d.pc \notin {"idle", "opening"}
      <3>1. ASSUME EncodeNext(t) PROVE Moves
        <4>. DEFINE d == LET c == call[t]
                        i == Len(c.plan) + 1
                        k == Len(c.items[i])
                        more == [j \in 1..k |->
                                   [item |-> i, level |-> j, len |-> c.items[i][j]]]
                        places == rebase(Len(c.rows), k)
                    IN [c EXCEPT
                         !.rows = @ \o more,
                         !.plan = Append(@, places),
                         !.outs = @ \o [j \in 1..k |-> << >>],
                         !.batches = IF loader = "embed"
                           THEN <<[rows |-> places, width |-> c.items[i][1]]>> ELSE @,
                         !.pc = IF loader = "embed" THEN "lock" ELSE @]
        <4>1. call' = [call EXCEPT ![t] = d]
          BY <3>1 DEF EncodeNext, Goes
        <4>2. d.items = call[t].items /\ d.pc = (IF loader = "embed" THEN "lock" ELSE call[t].pc)
          BY <3>0 DEF Call
        <4>. HIDE DEF d
        <4>. QED
          BY <4>1, <4>2, <3>0
      <3>2. ASSUME \/ Refuse(t) \/ RunFails(t) \/ RunPanics(t)
                   \/ Lock(t) /\ poisoned
            PROVE  Moves
        <4>. DEFINE d == [call[t] EXCEPT !.pc = "attach", !.outcome = Raised]
        <4>1. call' = [call EXCEPT ![t] = d]
          BY <3>2 DEF Refuse, RunFails, RunPanics, Lock, Fails, Goes
        <4>2. d.items = call[t].items /\ d.pc = "attach"
          BY <3>0 DEF Call
        <4>. HIDE DEF d
        <4>. QED
          BY <4>1, <4>2, <3>0
      <3>3. ASSUME \/ NothingToRun(t) \/ Packed(t) \/ Unlock(t)
                   \/ Lock(t) /\ ~poisoned
            PROVE  Moves
        <4>. DEFINE d(x) == [call[t] EXCEPT !.pc = x]
        <4>1. PICK x \in {"decode", "encode", "lock", "run"} :
               call' = [call EXCEPT ![t] = d(x)]
          BY <3>3 DEF NothingToRun, Packed, Unlock, Lock, Goes
        <4>2. d(x).items = call[t].items /\ d(x).pc = x
          BY <3>0 DEF Call
        <4>. HIDE DEF d
        <4>. QED
          BY <4>1, <4>2, <3>0
      <3>4. ASSUME Collate(t) PROVE Moves
        <4>. DEFINE d(x) == [call[t] EXCEPT
                        !.batches = <<[rows |-> [r \in DOMAIN call[t].rows |-> r], width |-> x]>>,
                        !.pc = "lock"]
        <4>1. PICK x : call' = [call EXCEPT ![t] = d(x)]
          BY <3>4 DEF Collate, Goes
        <4>2. d(x).items = call[t].items /\ d(x).pc = "lock"
          BY <3>0 DEF Call
        <4>. HIDE DEF d
        <4>. QED
          BY <4>1, <4>2, <3>0
      <3>5. ASSUME Sort(t) PROVE Moves
        <4>. DEFINE d(x) == [call[t] EXCEPT !.order = x, !.pc = "pack"]
        <4>1. PICK x : call' = [call EXCEPT ![t] = d(x)]
          BY <3>5 DEF Sort, Goes
        <4>2. d(x).items = call[t].items /\ d(x).pc = "pack"
          BY <3>0 DEF Call
        <4>. HIDE DEF d
        <4>. QED
          BY <4>1, <4>2, <3>0
      <3>6. ASSUME Pack(t) PROVE Moves
        <4>. DEFINE d(x) == [call[t] EXCEPT
                        !.batches = Append(@, [rows |-> SubSeq(call[t].order, 1, x),
                                               width |-> Width(call[t].rows[call[t].order[x]].len)]),
                        !.order = SubSeq(@, x + 1, Len(@))]
        <4>1. PICK x : call' = [call EXCEPT ![t] = d(x)]
          BY <3>6 DEF Pack, Goes
        <4>2. d(x).items = call[t].items /\ d(x).pc = call[t].pc
          BY <3>0 DEF Call
        <4>. HIDE DEF d
        <4>. QED
          BY <4>1, <4>2, <3>0
      <3>7. ASSUME Run(t) PROVE Moves
        <4>. DEFINE d == LET c == call[t]
                        batch == Head(c.batches)
                        outputs == [b \in DOMAIN batch.rows |->
                                      LET row == c.rows[batch.rows[b]]
                                      IN Output(t, row.item, row.level)]
                    IN [c EXCEPT !.outs = Scatter(@, batch, outputs), !.batches = Tail(@)]
        <4>1. call' = [call EXCEPT ![t] = d]
          BY <3>7 DEF Run, Goes
        <4>2. d.items = call[t].items /\ d.pc = call[t].pc
          BY <3>0 DEF Call
        <4>. HIDE DEF d
        <4>. QED
          BY <4>1, <4>2, <3>0
      <3>8. ASSUME DecodeNext(t) PROVE Moves
        <4>. DEFINE d == LET c == call[t]
                        places == c.plan[Len(c.answers) + 1]
                    IN [c EXCEPT !.answers =
                         Append(@, [logits |-> [j \in DOMAIN places |-> c.outs[places[j]]],
                                    map |-> map])]
        <4>1. call' = [call EXCEPT ![t] = d]
          BY <3>8 DEF DecodeNext, Goes
        <4>2. d.items = call[t].items /\ d.pc = call[t].pc
          BY <3>0 DEF Call
        <4>. HIDE DEF d
        <4>. QED
          BY <4>1, <4>2, <3>0
      <3>9. ASSUME Finish(t) PROVE Moves
        <4>. DEFINE d == [call[t] EXCEPT !.pc = "attach", !.outcome = Answered(call[t].answers)]
        <4>1. call' = [call EXCEPT ![t] = d]
          BY <3>9 DEF Finish, Goes
        <4>2. d.items = call[t].items /\ d.pc = "attach"
          BY <3>0 DEF Call
        <4>. HIDE DEF d
        <4>. QED
          BY <4>1, <4>2, <3>0
      <3>. HIDE DEF Moves
      <3>10. Lock(t) => Moves
        <4>1. CASE poisoned
          BY <3>2, <4>1
        <4>2. CASE ~poisoned
          BY <3>3, <4>2
        <4>. QED
          BY <4>1, <4>2
      <3>11. Moves
        <4>1. CASE EncodeNext(t) \/ Collate(t) \/ Sort(t) \/ Pack(t)
          BY <3>1, <3>4, <3>5, <3>6, <4>1
        <4>2. CASE Refuse(t) \/ RunFails(t) \/ RunPanics(t)
          BY <3>2, <4>2
        <4>3. CASE NothingToRun(t) \/ Packed(t) \/ Unlock(t)
          BY <3>3, <4>3
        <4>4. CASE Run(t) \/ DecodeNext(t) \/ Finish(t)
          BY <3>7, <3>8, <3>9, <4>4
        <4>. QED
          BY <2>6, <3>10, <4>1, <4>2, <4>3, <4>4
      <3>. USE DEF Moves
      <3>. QED
        BY <2>3, <3>0, <3>11
    <2>7. ASSUME UNCHANGED vars PROVE UNCHANGED Contract!vars
      BY <2>7 DEF vars, Contract!vars, Borrowers
    <2>. QED
      BY <2>1, <2>2, <2>4, <2>5, <2>6, <2>7 DEF Next, Step, Over, Contract!Next
  <1>. QED
    BY Inductive, <1>1, <1>2, PTL DEF Spec
=============================================================================
