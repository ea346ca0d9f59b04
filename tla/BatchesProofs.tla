---------------------------- MODULE BatchesProofs ----------------------------
(***************************************************************************)
(* The batches of a call, for any number of threads and whatever they ask: *)
(* every row that has no output is in exactly one batch still to run, no   *)
(* row is wider than its batch, and a batch keeps to the budget.           *)
(*                                                                         *)
(* SessionsProofs shows that such a row is in some batch (NoneLost).  That *)
(* it is in one only needs that the places of the batches hold different   *)
(* rows (Apart), which in turn takes that what is still to be packed is in *)
(* no batch yet and in the order twice nowhere (Waiting).  The widths need *)
(* that the order is by length.                                            *)
(***************************************************************************)
EXTENDS SessionsProofs

\* What is in a batch is a row without an output, no wider than the batch.
Runnable(rows, outs, bs) ==
  \A b \in 1..Len(bs) :
    /\ Len(bs[b].rows) <= Len(rows)
    /\ \A i \in 1..Len(bs[b].rows) :
         /\ bs[b].rows[i] \in 1..Len(rows)
         /\ outs[bs[b].rows[i]] = << >>
         /\ rows[bs[b].rows[i]].len <= bs[b].width

\* No two places of the batches hold the same row.
Apart(bs) ==
  \A a, b \in 1..Len(bs) :
    \A i \in 1..Len(bs[a].rows), j \in 1..Len(bs[b].rows) :
      bs[a].rows[i] = bs[b].rows[j] => a = b /\ i = j

\* A batch of several rows keeps to the budget.
InBudget(bs) ==
  \A b \in 1..Len(bs) :
    Len(bs[b].rows) = 1 \/ bs[b].width * Len(bs[b].rows) <= ROW_BUDGET

\* What is still to be packed: rows by length, none twice, none in a batch.
Waiting(rows, outs, bs, order) ==
  /\ Len(order) <= Len(rows)
  /\ \A i \in 1..Len(order) :
       /\ order[i] \in 1..Len(rows)
       /\ outs[order[i]] = << >>
       /\ ~InBatches(order[i], bs)
  /\ \A i, j \in 1..Len(order) :
       i < j => order[i] # order[j] /\ rows[order[i]].len <= rows[order[j]].len

\* Where a call stands with its batches.
Batching(l, c) ==
  /\ c.pc = "encode" =>
       /\ c.batches = << >>
       /\ l # "embed" => \A r \in 1..Len(c.rows) : c.outs[r] = << >>
  /\ c.pc \in {"pack", "lock", "run"} =>
       /\ Runnable(c.rows, c.outs, c.batches) /\ Apart(c.batches)
       /\ l = "2b" => InBudget(c.batches)
  /\ c.pc = "pack" => Waiting(c.rows, c.outs, c.batches, c.order)

BatchingInv == \A t \in Threads : Batching(loader, call[t])

-----------------------------------------------------------------------------
(* The steps                                                               *)

\* When one call goes on, the others stay where they stand.
LEMMA OneBatching ==
  ASSUME IInv, BatchingInv, NEW t \in Threads, NEW d, call' = [call EXCEPT ![t] = d],
         loader' = loader, Batching(loader, d)
  PROVE  BatchingInv'
PROOF
  <1>1. /\ \A u \in Threads \ {t} : call'[u] = call[u]
        /\ call'[t] = d
    BY DEF IInv
  <1>. QED
    BY <1>1 DEF BatchingInv

\* Away from the batches there is nothing to say.
LEMMA ElsewhereBatching ==
  ASSUME NEW l, NEW d, d.pc \notin {"encode", "pack", "lock", "run"}
  PROVE  Batching(l, d)
PROOF
  BY DEF Batching

\* A row is no wider than what it is padded to.
LEMMA WidthCovers ==
  ASSUME NEW n \in Nat
  PROVE  Width(n) \in Nat /\ n <= Width(n)
PROOF
  BY DEF Width, SEQ_MULTIPLE

\* A call begins without rows or batches.
LEMMA BeginBatching ==
  ASSUME NEW l, NEW items
  PROVE  Batching(l, [Idle EXCEPT !.pc = "encode", !.items = items])
PROOF
  BY DEF Batching, Idle

\* A batch whose i-th row is row i.
LEMMA AllRows ==
  ASSUME NEW l, NEW rows \in Seq(Row), NEW outs, NEW w \in Nat,
         \A r \in 1..Len(rows) : outs[r] = << >> /\ rows[r].len <= w,
         NEW bs, bs = <<[rows |-> [r \in 1..Len(rows) |-> r], width |-> w]>>
  PROVE  Runnable(rows, outs, bs) /\ Apart(bs)
PROOF
  <1>1. PICK all : all = [r \in 1..Len(rows) |-> r]
    OBVIOUS
  <1>2. all \in Seq(Nat) /\ Len(all) = Len(rows) /\ \A r \in 1..Len(rows) : all[r] = r
    BY <1>1
  <1>3. Len(bs) = 1 /\ bs[1].rows = all /\ bs[1].width = w /\ Len(rows) \in Nat
    BY <1>1
  <1>4. \A b \in 1..Len(bs) : b = 1
    BY <1>3
  <1>5. Runnable(rows, outs, bs)
    BY <1>2, <1>3, <1>4 DEF Runnable
  <1>6. Apart(bs)
    BY <1>2, <1>3, <1>4 DEF Apart
  <1>. QED
    BY <1>5, <1>6

\* One batch of all rows.
LEMMA CollateBatching ==
  ASSUME NEW l, NEW t \in Threads, NEW m, NEW c, Sound(l, t, c, m), Batching(l, c),
         c.pc = "encode", l \notin {"embed", "2b"}, NEW w \in Nat,
         \A r \in DOMAIN c.rows : c.rows[r].len <= w
  PROVE  Batching(l, [c EXCEPT
           !.batches = <<[rows |-> [r \in DOMAIN c.rows |-> r], width |-> w]>>,
           !.pc = "lock"])
PROOF
  <1> DEFINE bs == <<[rows |-> [r \in DOMAIN c.rows |-> r], width |-> w]>>
             d == [c EXCEPT !.batches = bs, !.pc = "lock"]
  <1>1. c \in Call
    BY DEF Sound
  <1>2. c.rows \in Seq(Row) /\ DOMAIN c.rows = 1..Len(c.rows)
    BY <1>1 DEF Call
  <1>3. d.pc = "lock" /\ d.rows = c.rows /\ d.outs = c.outs /\ d.batches = bs
    BY <1>1 DEF Call
  <1>. HIDE DEF d
  <1>4. bs = <<[rows |-> [r \in 1..Len(c.rows) |-> r], width |-> w]>>
    BY <1>2
  <1>. HIDE DEF bs
  <1>5. \A r \in 1..Len(c.rows) : c.outs[r] = << >> /\ c.rows[r].len <= w
    BY <1>2 DEF Batching
  <1>6. Runnable(c.rows, c.outs, bs) /\ Apart(bs)
    BY <1>2, <1>4, <1>5, AllRows
  <1>7. Batching(l, d)
    BY <1>3, <1>6 DEF Batching
  <1>. QED
    BY <1>7 DEF d, bs

\* The next item's rows have no output; a text's row is its own batch.
LEMMA EncodeBatching ==
  ASSUME NEW l \in Loaders, NEW t \in Threads, NEW m, NEW c, Sound(l, t, c, m),
         Batching(l, c), c.pc = "encode", Len(c.plan) # Len(c.items)
  PROVE  LET i == Len(c.plan) + 1
             k == Len(c.items[i])
             more == [j \in 1..k |-> [item |-> i, level |-> j, len |-> c.items[i][j]]]
             places == rebase(Len(c.rows), k)
         IN Batching(l,
              [c EXCEPT
                !.rows = @ \o more,
                !.plan = Append(@, places),
                !.outs = @ \o [j \in 1..k |-> << >>],
                !.batches = IF l = "embed"
                              THEN <<[rows |-> places, width |-> c.items[i][1]]>> ELSE @,
                !.pc = IF l = "embed" THEN "lock" ELSE @])
PROOF
  <1> DEFINE i == Len(c.plan) + 1
             k == Len(c.items[i])
             more == [j \in 1..k |-> [item |-> i, level |-> j, len |-> c.items[i][j]]]
             places == rebase(Len(c.rows), k)
             none == [j \in 1..k |-> << >>]
             n == Len(c.rows)
             bs == IF l = "embed"
                     THEN <<[rows |-> places, width |-> c.items[i][1]]>> ELSE c.batches
             rs == c.rows \o more
             os == c.outs \o none
             d == [c EXCEPT
                    !.rows = rs,
                    !.plan = Append(@, places),
                    !.outs = os,
                    !.batches = bs,
                    !.pc = IF l = "embed" THEN "lock" ELSE @]
  <1>. SUFFICES Batching(l, d)
    OBVIOUS
  <1>1. c \in Call /\ c.items \in Calls[l] \cup {<< >>}
    BY DEF Sound
  <1>2. /\ c.items \in Seq(Seq(Nat)) /\ c.plan \in Seq(Seq(Nat)) /\ c.rows \in Seq(Row)
        /\ c.outs \in Seq(Seq(Logit))
        /\ Len(c.plan) \in Nat /\ Len(c.items) \in Nat /\ n \in Nat
    BY <1>1 DEF Call
  <1>3. i \in 1..Len(c.items)
    BY <1>2 DEF Sound, Planned
  <1>4. c.items[i] \in Seq(Nat)
    BY <1>2, <1>3, ElementOfSeq
  <1>5. k \in Nat
    BY <1>4
  <1>6. Len(c.outs) = n
    BY DEF Sound, OwnOutputs
  <1>7. /\ d.pc = IF l = "embed" THEN "lock" ELSE "encode"
        /\ d.rows = rs /\ d.outs = os /\ d.batches = bs
    BY <1>1 DEF Call
  <1>8. more \in Seq(Row) /\ Len(more) = k /\ none \in Seq(Seq(Logit)) /\ Len(none) = k
    <2>1. \A j \in 1..k : c.items[i][j] \in Nat
      BY <1>4, ElementOfSeq
    <2>2. i \in Nat
      BY <1>2
    <2>. HIDE DEF k, i
    <2>3. more \in [1..k -> Row] /\ none \in [1..k -> Seq(Logit)]
      BY <2>1, <2>2 DEF Row
    <2>. QED
      BY <2>3, <1>5
  <1>9. \A j \in 1..k : more[j].len = c.items[i][j] /\ none[j] = << >>
    OBVIOUS
  <1>. HIDE DEF d
  <1>10. CASE l = "embed"
    <2>1. k = 1
      <3>1. c.items \in Calls[l] /\ i \in DOMAIN c.items
        BY <1>1, <1>2, <1>3
      <3>. HIDE DEF i
      <3>. QED
        BY <1>10, <3>1, CallsAssumption
    <2>2. PICK w : w = c.items[i][1]
      OBVIOUS
    <2>3. w \in Nat
      BY <1>4, <2>1, <2>2, ElementOfSeq
    <2>4. more[1].len = w /\ none[1] = << >>
      BY <1>9, <2>1, <2>2
    <2>5. places = <<n + 1>>
      BY <2>1 DEF rebase
    <2>6. bs = <<[rows |-> <<n + 1>>, width |-> w]>>
      BY <1>10, <2>2, <2>5
    <2>. HIDE DEF i, k, more, none, places, bs
    <2>7. /\ Len(rs) = n + 1 /\ rs[n + 1] = more[1]
          /\ os[n + 1] = none[1]
      <3>1. /\ c.rows \in Seq(Row) /\ more \in Seq(Row)
            /\ c.outs \in Seq(Seq(Logit)) /\ none \in Seq(Seq(Logit))
            /\ Len(more) = 1 /\ Len(none) = 1
        BY <1>2, <1>8, <2>1
      <3>2. n + 1 \in 1..(n + 1) /\ ~(n + 1 <= n) /\ (n + 1) - n = 1
        BY <1>2
      <3>3. /\ Len(rs) = n + Len(more)
            /\ \A r \in 1..(n + Len(more)) :
                 rs[r] = IF r <= n THEN c.rows[r] ELSE more[r - n]
        BY <3>1, ConcatProperties
      <3>4. \A r \in 1..(Len(c.outs) + Len(none)) :
              os[r] = IF r <= Len(c.outs) THEN c.outs[r] ELSE none[r - Len(c.outs)]
        BY <3>1, ConcatProperties
      <3>. HIDE DEF rs, os, n
      <3>5. Len(rs) = n + 1 /\ rs[n + 1] = more[1]
        BY <3>1, <3>2, <3>3, Zenon
      <3>6. Len(c.outs) = n
        BY <1>6 DEF n
      <3>7. os[n + 1] = none[1]
        BY <3>1, <3>2, <3>4, <3>6, Zenon
      <3>. QED
        BY <3>5, <3>7
    <2>8. Len(bs) = 1 /\ bs[1].rows = <<n + 1>> /\ bs[1].width = w
      BY <2>6
    <2>. HIDE DEF rs, os, n
    <2>9. \A b \in 1..Len(bs) : b = 1 /\ \A j \in 1..Len(bs[b].rows) : j = 1
      <3>1. Len(bs) = 1 /\ Len(bs[1].rows) = 1
        BY <2>8
      <3>2. \A b \in 1..1 : b = 1
        OBVIOUS
      <3>. QED
        BY <3>1, <3>2, Zenon
    <2>10. /\ Len(bs[1].rows) = 1 /\ bs[1].rows[1] = n + 1
           /\ n + 1 \in 1..(n + 1) /\ 1 <= n + 1
      BY <1>2, <2>8
    <2>11. os[n + 1] = << >> /\ rs[n + 1].len <= bs[1].width
      BY <2>3, <2>4, <2>7, <2>8
    <2>12. Runnable(rs, os, bs)
      BY <2>7, <2>9, <2>10, <2>11, Zenon DEF Runnable
    <2>13. Apart(bs)
      BY <2>9, Zenon DEF Apart
    <2>. QED
      BY <1>7, <1>10, <2>12, <2>13 DEF Batching
  <1>11. CASE l # "embed"
    <2>1. c.batches = << >> /\ \A r \in 1..n : c.outs[r] = << >>
      BY <1>11 DEF Batching
    <2>. HIDE DEF k, more, none
    <2>2. Len(rs) = n + k
      BY <1>2, <1>8
    <2>3. \A r \in 1..(n + k) : os[r] = << >>
      <3>. TAKE r \in 1..(n + k)
      <3>1. os[r] = IF r <= n THEN c.outs[r] ELSE none[r - n]
        <4>1. c.outs \in Seq(Seq(Logit)) /\ none \in Seq(Seq(Logit)) /\ r \in 1..(Len(c.outs) + Len(none))
          BY <1>2, <1>6, <1>8
        <4>2. os[r] = IF r <= Len(c.outs) THEN c.outs[r] ELSE none[r - Len(c.outs)]
          BY <4>1, ConcatProperties, Zenon
        <4>. QED
          BY <1>6, <4>2
      <3>2. CASE r <= n
        BY <1>2, <1>5, <2>1, <3>1, <3>2
      <3>3. CASE ~(r <= n)
        <4>1. r - n \in 1..k
          BY <1>2, <1>5, <3>3
        <4>. QED
          BY <1>9, <3>1, <3>3, <4>1, Zenon
      <3>. QED
        BY <3>2, <3>3
    <2>. QED
      BY <1>7, <1>11, <2>1, <2>2, <2>3 DEF Batching
  <1>. QED
    BY <1>10, <1>11

\* The rows are sorted by length, each of them once.
LEMMA SortBatching ==
  ASSUME NEW l, NEW t \in Threads, NEW m, NEW c, Sound(l, t, c, m), Batching(l, c),
         c.pc = "encode", l # "embed",
         NEW p \in [DOMAIN c.rows -> DOMAIN c.rows], SortsByLength(p, c.rows)
  PROVE  Batching(l, [c EXCEPT !.order = p, !.pc = "pack"])
PROOF
  <1> DEFINE d == [c EXCEPT !.order = p, !.pc = "pack"]
  <1>1. c \in Call
    BY DEF Sound
  <1>2. c.rows \in Seq(Row) /\ DOMAIN c.rows = 1..Len(c.rows) /\ Len(c.rows) \in Nat
    BY <1>1 DEF Call
  <1>3. /\ d.pc = "pack" /\ d.rows = c.rows /\ d.outs = c.outs /\ d.batches = c.batches
        /\ d.order = p
    BY <1>1 DEF Call
  <1>. HIDE DEF d
  <1>4. c.batches = << >> /\ \A r \in 1..Len(c.rows) : c.outs[r] = << >>
    BY DEF Batching
  <1>5. p \in Seq(Nat) /\ Len(p) = Len(c.rows) /\ DOMAIN p = 1..Len(c.rows)
    BY <1>2
  <1>6. \A i \in 1..Len(p) : p[i] \in 1..Len(c.rows)
    BY <1>2, <1>5
  <1>7. \A r \in 1..Len(c.rows) : c.rows[r].len \in Nat
    <2>1. \A r \in 1..Len(c.rows) : c.rows[r] \in Row
      BY <1>2
    <2>. QED
      BY <2>1 DEF Row
  <1>8. ASSUME NEW i \in 1..Len(p), NEW j \in 1..Len(p), i < j
        PROVE  p[i] # p[j] /\ c.rows[p[i]].len <= c.rows[p[j]].len
    <2>1. \/ c.rows[p[i]].len < c.rows[p[j]].len
          \/ c.rows[p[i]].len = c.rows[p[j]].len /\ p[i] < p[j]
      BY <1>5, <1>8 DEF SortsByLength
    <2>2. /\ c.rows[p[i]].len \in Nat /\ c.rows[p[j]].len \in Nat
          /\ p[i] \in Nat /\ p[j] \in Nat
      <3>1. p[i] \in 1..Len(c.rows) /\ p[j] \in 1..Len(c.rows)
        BY <1>6, <1>8
      <3>2. c.rows[p[i]].len \in Nat /\ c.rows[p[j]].len \in Nat
        BY <1>7, <3>1, Zenon
      <3>3. \A r \in 1..Len(c.rows) : r \in Nat
        BY <1>2
      <3>. QED
        BY <3>1, <3>2, <3>3, Zenon
    <2>. QED
      BY <2>1, <2>2
  <1>9. \A r : ~InBatches(r, c.batches)
    BY <1>4 DEF InBatches
  <1>10. Waiting(c.rows, c.outs, c.batches, p)
    <2>1. Len(p) <= Len(c.rows)
      BY <1>2, <1>5
    <2>2. ASSUME NEW i \in 1..Len(p)
          PROVE  p[i] \in 1..Len(c.rows) /\ c.outs[p[i]] = << >> /\ ~InBatches(p[i], c.batches)
      BY <1>4, <1>6, <1>9
    <2>. QED
      BY <2>1, <2>2, <1>8, Zenon DEF Waiting
  <1>11. Runnable(c.rows, c.outs, c.batches) /\ Apart(c.batches) /\ InBudget(c.batches)
    BY <1>4 DEF Runnable, Apart, InBudget
  <1>12. Batching(l, d)
    BY <1>3, <1>10, <1>11 DEF Batching
  <1>. QED
    BY <1>12 DEF d

\* Nothing but the place in the call changes.
LEMMA SameBatching ==
  ASSUME NEW l, NEW c, Batching(l, c), c.pc \in {"pack", "lock"},
         NEW d, d.pc \in {"lock", "run"},
         d.rows = c.rows, d.outs = c.outs, d.batches = c.batches
  PROVE  Batching(l, d)
PROOF
  BY DEF Batching

\* Every batch is through; a text's row has its output.
LEMMA UnlockBatching ==
  ASSUME NEW l, NEW t, NEW m, NEW c, Sound(l, t, c, m), c.batches = << >>
  PROVE  Batching(l, [c EXCEPT !.pc = IF l = "embed" THEN "encode" ELSE "decode"])
PROOF
  BY DEF Batching, Sound, Call

\* The next batch is cut off the order: no longer in it, and in no other batch.
LEMMA PackBatching ==
  ASSUME NEW l, NEW t \in Threads, NEW m, NEW c, Sound(l, t, c, m), Batching(l, c),
         c.pc = "pack", NEW n \in DOMAIN c.order,
         Fits(c.order, c.rows, n)
  PROVE  Batching(l, [c EXCEPT
           !.batches = Append(@, [rows |-> SubSeq(c.order, 1, n),
                                  width |-> Width(c.rows[c.order[n]].len)]),
           !.order = SubSeq(@, n + 1, Len(@))])
PROOF
  <1> DEFINE rows == c.rows
             outs == c.outs
             order == c.order
             bs == c.batches
             head == SubSeq(order, 1, n)
             rest == SubSeq(order, n + 1, Len(order))
             w == Width(rows[order[n]].len)
             new == [rows |-> head, width |-> w]
             more == Append(bs, new)
             d == [c EXCEPT !.batches = more, !.order = rest]
  <1>. SUFFICES Batching(l, d)
    OBVIOUS
  <1>1. c \in Call
    BY DEF Sound
  <1>2. /\ rows \in Seq(Row) /\ order \in Seq(Nat) /\ bs \in Seq(Batch)
        /\ Len(rows) \in Nat /\ Len(order) \in Nat /\ Len(bs) \in Nat
        /\ n \in 1..Len(order)
    BY <1>1 DEF Call
  <1>3. /\ head \in Seq(Nat) /\ Len(head) = n /\ \A i \in 1..n : head[i] = order[i]
        /\ rest \in Seq(Nat) /\ Len(rest) = Len(order) - n
        /\ \A i \in 1..(Len(order) - n) : rest[i] = order[n + i]
    BY <1>2, TwoParts
  <1>4. /\ Runnable(rows, outs, bs) /\ Apart(bs) /\ (l = "2b" => InBudget(bs))
        /\ Waiting(rows, outs, bs, order)
    BY DEF Batching
  <1>5. /\ d.pc = "pack" /\ d.rows = rows /\ d.outs = outs /\ d.batches = more
        /\ d.order = rest
    BY <1>1 DEF Call
  <1>6. Fits(order, rows, n)
    OBVIOUS
  <1>. HIDE DEF d, head, rest, rows, outs, order, bs
  <1>7. /\ Len(order) <= Len(rows)
        /\ \A i \in 1..Len(order) :
             /\ order[i] \in 1..Len(rows) /\ outs[order[i]] = << >>
             /\ ~InBatches(order[i], bs)
        /\ \A i, j \in 1..Len(order) :
             i < j => order[i] # order[j] /\ rows[order[i]].len <= rows[order[j]].len
    BY <1>4 DEF Waiting
  <1>8. \A i \in 1..Len(order) : rows[order[i]].len \in Nat
    <2>. TAKE i \in 1..Len(order)
    <2>1. rows[order[i]] \in Row
      BY <1>2, <1>7, ElementOfSeq
    <2>. QED
      BY <2>1 DEF Row
  <1>9. w \in Nat /\ rows[order[n]].len <= w
    BY <1>2, <1>8, WidthCovers
  <1>10. new \in Batch
    BY <1>3, <1>9 DEF Batch
  <1>11. new.rows = head /\ new.width = w
    OBVIOUS
  <1>12. Len(head) = 1 \/ w * Len(head) <= ROW_BUDGET
    BY <1>3, <1>6 DEF Fits
  <1>. HIDE DEF w, new
  <1>13. /\ more \in Seq(Batch) /\ Len(more) = Len(bs) + 1
         /\ \A b \in 1..Len(bs) : more[b] = bs[b]
         /\ more[Len(bs) + 1] = new
    BY <1>2, <1>10, AppendProperties
  <1>. HIDE DEF more
  <1>14. \A b \in 1..Len(more) : b \in 1..Len(bs) \/ b = Len(bs) + 1
    BY <1>2, <1>13
  <1>15. \A i \in 1..Len(head) : i \in 1..Len(order) /\ head[i] = order[i]
    BY <1>2, <1>3
  <1>16. Runnable(rows, outs, more)
    <2>1. Len(head) <= Len(rows)
      BY <1>2, <1>3, <1>7
    <2>2. ASSUME NEW i \in 1..Len(head)
          PROVE  /\ head[i] \in 1..Len(rows) /\ outs[head[i]] = << >>
                 /\ rows[head[i]].len <= w
      <3>1. i \in 1..Len(order) /\ head[i] = order[i]
        BY <1>15
      <3>2. rows[order[i]].len <= rows[order[n]].len
        <4>1. i < n \/ i = n
          BY <1>2, <1>3
        <4>2. CASE i = n
          BY <1>8, <3>1, <4>2
        <4>. QED
          BY <1>2, <1>7, <3>1, <4>1, <4>2
      <3>3. rows[order[i]].len <= w
        <4>1. PICK x, y : x = rows[order[i]].len /\ y = rows[order[n]].len
          OBVIOUS
        <4>2. x \in Nat /\ y \in Nat /\ w \in Nat /\ x <= y /\ y <= w
          BY <1>2, <1>8, <1>9, <3>1, <3>2, <4>1
        <4>3. x <= w
          BY <4>2
        <4>. QED
          BY <4>1, <4>3
      <3>. QED
        BY <1>7, <3>1, <3>3
    <2>3. ASSUME NEW b \in 1..Len(more)
          PROVE  /\ Len(more[b].rows) <= Len(rows)
                 /\ \A i \in 1..Len(more[b].rows) :
                      /\ more[b].rows[i] \in 1..Len(rows)
                      /\ outs[more[b].rows[i]] = << >>
                      /\ rows[more[b].rows[i]].len <= more[b].width
      <3>1. CASE b \in 1..Len(bs)
        <4>1. more[b] = bs[b]
          BY <1>13, <3>1, Zenon
        <4>2. /\ Len(bs[b].rows) <= Len(rows)
              /\ \A i \in 1..Len(bs[b].rows) :
                   /\ bs[b].rows[i] \in 1..Len(rows)
                   /\ outs[bs[b].rows[i]] = << >>
                   /\ rows[bs[b].rows[i]].len <= bs[b].width
          BY <1>4, <3>1, Zenon DEF Runnable
        <4>. QED
          BY <4>1, <4>2, Zenon
      <3>2. CASE b = Len(bs) + 1
        BY <1>11, <1>13, <2>1, <2>2, <3>2, Zenon
      <3>. QED
        BY <1>14, <3>1, <3>2
    <2>. QED
      BY <2>3 DEF Runnable
  <1>17. Apart(more)
    <2>1. ASSUME NEW b \in 1..Len(bs), NEW i \in 1..Len(bs[b].rows), NEW j \in 1..Len(head)
          PROVE  bs[b].rows[i] # head[j]
      <3>1. ~InBatches(head[j], bs)
        BY <1>7, <1>15
      <3>. QED
        BY <3>1 DEF InBatches, InBatch
    <2>2. ASSUME NEW i \in 1..Len(head), NEW j \in 1..Len(head), head[i] = head[j]
          PROVE  i = j
      <3>1. i \in 1..Len(order) /\ j \in 1..Len(order) /\ order[i] = order[j]
        BY <1>15, <2>2
      <3>2. ~(i < j) /\ ~(j < i)
        BY <1>7, <3>1
      <3>. QED
        BY <1>2, <3>1, <3>2
    <2>3. ASSUME NEW a \in 1..Len(more), NEW b \in 1..Len(more),
                 NEW i \in 1..Len(more[a].rows), NEW j \in 1..Len(more[b].rows),
                 more[a].rows[i] = more[b].rows[j]
          PROVE  a = b /\ i = j
      <3>1. CASE a \in 1..Len(bs) /\ b \in 1..Len(bs)
        <4>1. more[a] = bs[a] /\ more[b] = bs[b]
          BY <1>13, <3>1
        <4>. QED
          BY <1>4, <2>3, <3>1, <4>1 DEF Apart
      <3>2. CASE a \in 1..Len(bs) /\ b = Len(bs) + 1
        <4>1. more[a] = bs[a] /\ more[b].rows = head
          BY <1>11, <1>13, <3>2
        <4>. QED
          BY <2>1, <2>3, <3>2, <4>1
      <3>3. CASE a = Len(bs) + 1 /\ b \in 1..Len(bs)
        <4>1. more[b] = bs[b] /\ more[a].rows = head
          BY <1>11, <1>13, <3>3
        <4>. QED
          BY <2>1, <2>3, <3>3, <4>1
      <3>4. CASE a = Len(bs) + 1 /\ b = Len(bs) + 1
        <4>1. more[a].rows = head /\ more[b].rows = head
          BY <1>11, <1>13, <3>4
        <4>. QED
          BY <2>2, <2>3, <3>4, <4>1
      <3>. QED
        BY <1>14, <3>1, <3>2, <3>3, <3>4
    <2>. QED
      BY <2>3 DEF Apart
  <1>18. l = "2b" => InBudget(more)
    <2>. SUFFICES ASSUME l = "2b", NEW b \in 1..Len(more)
                  PROVE  Len(more[b].rows) = 1 \/ more[b].width * Len(more[b].rows) <= ROW_BUDGET
      BY DEF InBudget
    <2>1. CASE b \in 1..Len(bs)
      BY <1>4, <1>13, <2>1, Zenon DEF InBudget
    <2>2. CASE b = Len(bs) + 1
      BY <1>11, <1>12, <1>13, <2>2, Zenon
    <2>. QED
      BY <1>14, <2>1, <2>2
  <1>19. Waiting(rows, outs, more, rest)
    <2>1. \A i \in 1..Len(rest) : n + i \in 1..Len(order) /\ rest[i] = order[n + i]
      <3>. TAKE i \in 1..Len(rest)
      <3>1. i \in 1..(Len(order) - n)
        BY <1>3
      <3>2. n + i \in 1..Len(order)
        BY <1>2, <3>1
      <3>. QED
        BY <1>3, <3>1, <3>2
    <2>2. Len(rest) <= Len(rows)
      BY <1>2, <1>3, <1>7
    <2>3. ASSUME NEW i \in 1..Len(rest)
          PROVE  /\ rest[i] \in 1..Len(rows) /\ outs[rest[i]] = << >>
                 /\ ~InBatches(rest[i], more)
      <3>1. n + i \in 1..Len(order) /\ rest[i] = order[n + i]
        BY <2>1
      <3>2. ~InBatches(rest[i], bs)
        BY <1>7, <3>1
      <3>3. \A j \in 1..Len(head) : head[j] # rest[i]
        <4>. TAKE j \in 1..Len(head)
        <4>1. j \in 1..Len(order) /\ head[j] = order[j]
          BY <1>15
        <4>2. j < n + i
          BY <1>2, <1>3
        <4>. QED
          BY <1>7, <3>1, <4>1, <4>2
      <3>4. ASSUME InBatches(rest[i], more) PROVE FALSE
        <4>1. PICK b \in 1..Len(more) : InBatch(rest[i], more[b])
          BY <3>4 DEF InBatches
        <4>2. CASE b \in 1..Len(bs)
          BY <1>13, <3>2, <4>1, <4>2 DEF InBatches
        <4>3. CASE b = Len(bs) + 1
          BY <1>11, <1>13, <3>3, <4>1, <4>3 DEF InBatch
        <4>. QED
          BY <1>14, <4>2, <4>3
      <3>. QED
        BY <1>7, <3>1, <3>4
    <2>4. ASSUME NEW i \in 1..Len(rest), NEW j \in 1..Len(rest), i < j
          PROVE  rest[i] # rest[j] /\ rows[rest[i]].len <= rows[rest[j]].len
      <3>1. n + i < n + j
        BY <1>2, <1>3, <2>4
      <3>. QED
        BY <1>7, <2>1, <3>1
    <2>. QED
      BY <2>2, <2>3, <2>4, Zenon DEF Waiting
  <1>. QED
    BY <1>5, <1>16, <1>17, <1>18, <1>19 DEF Batching

\* A batch is run: its rows, which are in no other, have their outputs now.
LEMMA RunBatching ==
  ASSUME NEW l, NEW t \in Threads, NEW m, NEW c, Sound(l, t, c, m), Batching(l, c),
         c.pc = "run", c.batches # << >>, NEW outputs
  PROVE  Batching(l, [c EXCEPT !.outs = Scatter(@, Head(c.batches), outputs),
                               !.batches = Tail(@)])
PROOF
  <1> DEFINE rows == c.rows
             outs == c.outs
             bs == c.batches
             batch == Head(bs)
             rest == Tail(bs)
             os == Scatter(outs, batch, outputs)
             d == [c EXCEPT !.outs = os, !.batches = rest]
  <1>. SUFFICES Batching(l, d)
    OBVIOUS
  <1>1. c \in Call
    BY DEF Sound
  <1>2. /\ bs \in Seq(Batch) /\ Len(bs) \in Nat /\ Len(rows) \in Nat
        /\ DOMAIN outs = 1..Len(outs)
    BY <1>1 DEF Call
  <1>3. Len(outs) = Len(rows)
    BY DEF Sound, OwnOutputs
  <1>4. /\ batch \in Batch /\ Len(rest) = Len(bs) - 1 /\ batch = bs[1]
        /\ \A b \in 1..Len(rest) : rest[b] = bs[b + 1]
    BY <1>2, HeadTailProperties
  <1>5. Runnable(rows, outs, bs) /\ Apart(bs) /\ (l = "2b" => InBudget(bs))
    BY DEF Batching
  <1>6. d.pc = "run" /\ d.rows = rows /\ d.outs = os /\ d.batches = rest
    BY <1>1 DEF Call
  <1>. HIDE DEF d, rows, outs, bs, batch, rest
  <1>7. /\ 1 \in 1..Len(bs)
        /\ \A b \in 1..Len(rest) : b + 1 \in 1..Len(bs) /\ b + 1 # 1
        /\ \A a, b \in 1..Len(rest) : a + 1 = b + 1 => a = b
    <2>1. Len(rest) \in Int /\ Len(bs) = Len(rest) + 1
      BY <1>2, <1>4
    <2>2. Len(bs) # 0
      BY <1>2 DEF bs
    <2>. QED
      BY <1>2, <2>1, <2>2
  <1>8. ASSUME NEW b \in 1..Len(rest), NEW i \in 1..Len(rest[b].rows)
        PROVE  os[rest[b].rows[i]] = << >>
    <2>1. PICK r : r = rest[b].rows[i]
      OBVIOUS
    <2>2. b + 1 \in 1..Len(bs) /\ rest[b] = bs[b + 1]
      BY <1>4, <1>7
    <2>3. r \in 1..Len(rows) /\ outs[r] = << >>
      BY <1>5, <2>1, <2>2 DEF Runnable
    <2>4. ~InBatch(r, batch)
      <3>1. \A j \in 1..Len(bs[1].rows) : bs[1].rows[j] # r
        BY <1>5, <1>7, <2>1, <2>2 DEF Apart
      <3>. QED
        BY <1>4, <3>1 DEF InBatch
    <2>5. r \in DOMAIN outs
      BY <1>2, <1>3, <2>3
    <2>6. os[r] = outs[r]
      BY <1>4, <2>4, <2>5, ScatterRow
    <2>. QED
      BY <2>1, <2>3, <2>6
  <1>. HIDE DEF os
  <1>9. Runnable(rows, os, rest)
    <2>1. ASSUME NEW b \in 1..Len(rest)
          PROVE  /\ Len(rest[b].rows) <= Len(rows)
                 /\ \A i \in 1..Len(rest[b].rows) :
                      /\ rest[b].rows[i] \in 1..Len(rows)
                      /\ rows[rest[b].rows[i]].len <= rest[b].width
      <3>1. b + 1 \in 1..Len(bs) /\ rest[b] = bs[b + 1]
        BY <1>4, <1>7
      <3>. QED
        BY <1>5, <3>1, Zenon DEF Runnable
    <2>. QED
      BY <1>8, <2>1, Zenon DEF Runnable
  <1>10. Apart(rest)
    <2>1. ASSUME NEW a \in 1..Len(rest), NEW b \in 1..Len(rest),
                 NEW i \in 1..Len(rest[a].rows), NEW j \in 1..Len(rest[b].rows),
                 rest[a].rows[i] = rest[b].rows[j]
          PROVE  a = b /\ i = j
      <3>1. /\ a + 1 \in 1..Len(bs) /\ rest[a] = bs[a + 1]
            /\ b + 1 \in 1..Len(bs) /\ rest[b] = bs[b + 1]
        BY <1>4, <1>7
      <3>2. a + 1 = b + 1 /\ i = j
        BY <1>5, <2>1, <3>1 DEF Apart
      <3>. QED
        BY <1>7, <3>2
    <2>. QED
      BY <2>1 DEF Apart
  <1>11. l = "2b" => InBudget(rest)
    BY <1>4, <1>5, <1>7, Zenon DEF InBudget
  <1>. QED
    BY <1>6, <1>9, <1>10, <1>11 DEF Batching

\* Every step keeps it, given what SessionsProofs keeps.
LEMMA NextBatching == IInv /\ BatchingInv /\ [Next]_vars => BatchingInv'
PROOF
  <1>. SUFFICES ASSUME IInv, BatchingInv, [Next]_vars PROVE BatchingInv'
    OBVIOUS
  <1>0. /\ loader \in Loaders
        /\ \A t \in Threads : /\ call[t] \in Call /\ Sound(loader, t, call[t], map)
                              /\ Batching(loader, call[t])
    BY DEF IInv, BatchingInv
  <1>1. ASSUME NEW t \in Threads, Begin(t) PROVE BatchingInv'
    <2>1. PICK items \in Calls[loader] :
            call' = [call EXCEPT ![t] = [Idle EXCEPT !.pc = "encode", !.items = items]]
      BY <1>1 DEF Begin, Goes
    <2>2. loader' = loader
      BY <1>1 DEF Begin
    <2>. QED
      BY <2>1, <2>2, BeginBatching, OneBatching
  <1>2. ASSUME NEW t \in Threads, Open(t) \/ Opened(t) \/ Attach(t) PROVE BatchingInv'
    <2>1. PICK d : /\ d.pc \in {"opening", "idle"} /\ call' = [call EXCEPT ![t] = d]
                   /\ loader' = loader
      BY <1>2 DEF Open, Opened, Attach, Goes, Idle
    <2>. QED
      BY <2>1, ElsewhereBatching, OneBatching
  <1>3. ASSUME NEW t \in Threads,
               \/ Refuse(t) \/ RunFails(t) \/ RunPanics(t)
               \/ NothingToRun(t) \/ DecodeNext(t) \/ Finish(t)
        PROVE  BatchingInv'
    <2>1. PICK d : /\ d.pc \in {"attach", "decode"} /\ call' = [call EXCEPT ![t] = d]
                   /\ loader' = loader
      BY <1>0, <1>3
      DEF Refuse, RunFails, RunPanics, NothingToRun, DecodeNext, Finish, Fails, Goes, Call
    <2>. QED
      BY <2>1, ElsewhereBatching, OneBatching
  <1>4. ASSUME NEW t \in Threads, EncodeNext(t) PROVE BatchingInv'
    <2>. DEFINE c == call[t]
                i == Len(c.plan) + 1
                k == Len(c.items[i])
                more == [j \in 1..k |-> [item |-> i, level |-> j, len |-> c.items[i][j]]]
                places == rebase(Len(c.rows), k)
                d == [c EXCEPT
                       !.rows = @ \o more,
                       !.plan = Append(@, places),
                       !.outs = @ \o [j \in 1..k |-> << >>],
                       !.batches = IF loader = "embed"
                                     THEN <<[rows |-> places, width |-> c.items[i][1]]>> ELSE @,
                       !.pc = IF loader = "embed" THEN "lock" ELSE @]
    <2>1. c.pc = "encode" /\ Len(c.plan) # Len(c.items)
      BY <1>4 DEF EncodeNext, Encoded
    <2>2. Batching(loader, d)
      BY <1>0, <2>1, EncodeBatching
    <2>3. call' = [call EXCEPT ![t] = d] /\ loader' = loader
      BY <1>4 DEF EncodeNext, Goes
    <2>. HIDE DEF d
    <2>. QED
      BY <2>2, <2>3, OneBatching
  <1>5. ASSUME NEW t \in Threads, Collate(t) PROVE BatchingInv'
    <2>. DEFINE c == call[t]
                d(w) == [c EXCEPT
                  !.batches = <<[rows |-> [r \in DOMAIN c.rows |-> r], width |-> w]>>,
                  !.pc = "lock"]
    <2>1. c.pc = "encode" /\ loader \notin {"embed", "2b"}
      BY <1>5 DEF Collate
    <2>2. PICK w \in {0} \cup {c.rows[r].len : r \in DOMAIN c.rows} :
            /\ \A r \in DOMAIN c.rows : c.rows[r].len <= w
            /\ call' = [call EXCEPT ![t] = d(w)]
      BY <1>5 DEF Collate, Goes
    <2>3. w \in Nat
      <3>1. \A r \in DOMAIN c.rows : c.rows[r] \in Row
        BY <1>0 DEF Call
      <3>2. \A r \in DOMAIN c.rows : c.rows[r].len \in Nat
        BY <3>1 DEF Row
      <3>. QED
        BY <2>2, <3>2
    <2>4. Batching(loader, d(w))
      BY <1>0, <2>1, <2>2, <2>3, CollateBatching
    <2>5. loader' = loader
      BY <1>5 DEF Collate
    <2>. HIDE DEF d
    <2>. QED
      BY <2>2, <2>4, <2>5, OneBatching
  <1>6. ASSUME NEW t \in Threads, Sort(t) PROVE BatchingInv'
    <2>. DEFINE c == call[t]
                d(p) == [c EXCEPT !.order = p, !.pc = "pack"]
    <2>1. c.pc = "encode" /\ loader # "embed"
      BY <1>6 DEF Sort
    <2>2. PICK p \in [DOMAIN c.rows -> DOMAIN c.rows] :
            SortsByLength(p, c.rows) /\ call' = [call EXCEPT ![t] = d(p)]
      BY <1>6 DEF Sort, Goes
    <2>3. Batching(loader, d(p))
      BY <1>0, <2>1, <2>2, SortBatching
    <2>4. loader' = loader
      BY <1>6 DEF Sort
    <2>. HIDE DEF d
    <2>. QED
      BY <2>2, <2>3, <2>4, OneBatching
  <1>7. ASSUME NEW t \in Threads, Pack(t) PROVE BatchingInv'
    <2>. DEFINE c == call[t]
                d(n) == [c EXCEPT
                  !.batches = Append(@, [rows |-> SubSeq(c.order, 1, n),
                                         width |-> Width(c.rows[c.order[n]].len)]),
                  !.order = SubSeq(@, n + 1, Len(@))]
    <2>1. c.pc = "pack" /\ loader' = loader
      BY <1>7 DEF Pack
    <2>2. PICK n \in DOMAIN c.order : /\ \A j \in 1..n : Fits(c.order, c.rows, j)
                                      /\ call' = [call EXCEPT ![t] = d(n)]
      BY <1>7 DEF Pack, Goes
    <2>3. Fits(c.order, c.rows, n)
      <3>1. n \in 1..Len(c.order) /\ Len(c.order) \in Nat
        BY <1>0, <2>2 DEF Call
      <3>2. n \in 1..n
        BY <3>1
      <3>. QED
        BY <2>2, <3>2
    <2>4. Batching(loader, d(n))
      BY <1>0, <2>1, <2>2, <2>3, PackBatching
    <2>. HIDE DEF d
    <2>. QED
      BY <2>1, <2>2, <2>4, OneBatching
  <1>8. ASSUME NEW t \in Threads, Packed(t) PROVE BatchingInv'
    <2>1. PICK d : /\ d.pc = "lock" /\ call[t].pc = "pack"
                   /\ d.rows = call[t].rows /\ d.outs = call[t].outs
                   /\ d.batches = call[t].batches
                   /\ call' = [call EXCEPT ![t] = d] /\ loader' = loader
      BY <1>0, <1>8 DEF Packed, Goes, Call
    <2>2. Batching(loader, d)
      BY <1>0, <2>1, SameBatching
    <2>. QED
      BY <2>1, <2>2, OneBatching
  <1>9. ASSUME NEW t \in Threads, Run(t) PROVE BatchingInv'
    <2>. DEFINE c == call[t]
                batch == Head(c.batches)
                outputs == [b \in DOMAIN batch.rows |->
                              LET row == c.rows[batch.rows[b]]
                              IN Output(t, row.item, row.level)]
                d(o) == [c EXCEPT !.outs = Scatter(@, Head(c.batches), o), !.batches = Tail(@)]
    <2>1. c.pc = "run" /\ c.batches # << >> /\ loader' = loader
      BY <1>9 DEF Run
    <2>2. call' = [call EXCEPT ![t] = d(outputs)]
      BY <1>9 DEF Run, Goes
    <2>. HIDE DEF outputs
    <2>3. Batching(loader, d(outputs))
      BY <1>0, <2>1, RunBatching
    <2>. HIDE DEF d
    <2>. QED
      BY <2>1, <2>2, <2>3, OneBatching
  <1>10. ASSUME NEW t \in Threads, Unlock(t) PROVE BatchingInv'
    <2>. DEFINE d == [call[t] EXCEPT !.pc = IF loader = "embed" THEN "encode" ELSE "decode"]
    <2>1. call[t].pc = "run" /\ call[t].batches = << >> /\ loader' = loader
      BY <1>10 DEF Unlock
    <2>2. Batching(loader, d)
      BY <1>0, <2>1, UnlockBatching
    <2>3. call' = [call EXCEPT ![t] = d]
      BY <1>10 DEF Unlock, Goes
    <2>. HIDE DEF d
    <2>. QED
      BY <2>1, <2>2, <2>3, OneBatching
  <1>11. ASSUME \/ \E t \in Threads : LoadMap(t)
                \/ UNCHANGED vars
         PROVE  BatchingInv'
    BY <1>11 DEF LoadMap, vars, BatchingInv
  <1>12. ASSUME NEW t \in Threads, Lock(t) PROVE BatchingInv'
    <2>1. CASE poisoned
      <3>1. PICK d : d.pc = "attach" /\ call' = [call EXCEPT ![t] = d] /\ loader' = loader
        BY <1>0, <1>12, <2>1 DEF Lock, Fails, Goes, Call
      <3>. QED
        BY <3>1, ElsewhereBatching, OneBatching
    <2>2. CASE ~poisoned
      <3>1. PICK d : /\ d.pc = "run" /\ call[t].pc = "lock"
                     /\ d.rows = call[t].rows /\ d.outs = call[t].outs
                     /\ d.batches = call[t].batches
                     /\ call' = [call EXCEPT ![t] = d] /\ loader' = loader
        BY <1>0, <1>12, <2>2 DEF Lock, Goes, Call
      <3>2. Batching(loader, d)
        BY <1>0, <3>1, SameBatching
      <3>. QED
        BY <3>1, <3>2, OneBatching
    <2>. QED
      BY <2>1, <2>2
  <1>13. ASSUME NEW t \in Threads, Step(t) PROVE BatchingInv'
    <2>1. CASE Opened(t) \/ Attach(t)
      BY <1>2, <2>1
    <2>2. CASE \/ Refuse(t) \/ RunFails(t) \/ RunPanics(t)
               \/ NothingToRun(t) \/ DecodeNext(t) \/ Finish(t)
      BY <1>3, <2>2
    <2>3. CASE Packed(t)
      BY <1>8, <2>3
    <2>4. CASE EncodeNext(t) \/ Collate(t) \/ Sort(t) \/ Pack(t)
               \/ Lock(t) \/ Run(t) \/ Unlock(t)
      BY <1>4, <1>5, <1>6, <1>7, <1>9, <1>10, <1>12, <2>4
    <2>. QED
      BY <1>13, <2>1, <2>2, <2>3, <2>4 DEF Step
  <1>14. ASSUME NEW t \in Threads, Begin(t) \/ LoadMap(t) \/ Open(t) \/ Step(t)
         PROVE  BatchingInv'
    BY <1>1, <1>2, <1>11, <1>13, <1>14
  <1>. QED
    BY <1>11, <1>14 DEF Next, Over

-----------------------------------------------------------------------------
(* The theorem                                                             *)

\* pack_row_batches and the single batches, for any rows: when the session is
\* asked for, every row without an output is in exactly one batch, once, padded
\* and not cut, and no batch of several rows exceeds the budget.
THEOREM BatchesHold == Spec => []BatchesSound
PROOF
  <1>1. Init => BatchingInv
    <2>. SUFFICES ASSUME Init, NEW t \in Threads PROVE Batching(loader, call[t])
      BY DEF BatchingInv
    <2>1. call[t].pc = "idle"
      BY DEF Init, Idle
    <2>. QED
      BY <2>1, ElsewhereBatching
  <1>2. IInv /\ BatchingInv => BatchesSound
    <2>. SUFFICES ASSUME IInv, BatchingInv, NEW t \in Threads,
                         call[t].pc \in {"lock", "run"}
                  PROVE  LET c == call[t]
                             Places == {p \in (DOMAIN c.batches) \X (DOMAIN c.rows) :
                                          p[2] \in DOMAIN c.batches[p[1]].rows}
                         IN /\ \A r \in DOMAIN c.rows :
                                 IF c.outs[r] # << >>
                                   THEN \A p \in Places : c.batches[p[1]].rows[p[2]] # r
                                   ELSE \E p \in Places : \A q \in Places :
                                          c.batches[q[1]].rows[q[2]] = r <=> p = q
                            /\ \A p \in Places :
                                 c.rows[c.batches[p[1]].rows[p[2]]].len
                                   <= c.batches[p[1]].width
                            /\ loader = "2b" => \A b \in DOMAIN c.batches :
                                 \/ Len(c.batches[b].rows) = 1
                                 \/ c.batches[b].width * Len(c.batches[b].rows) <= ROW_BUDGET
      BY DEF BatchesSound
    <2>. DEFINE rows == call[t].rows
                outs == call[t].outs
                bs == call[t].batches
                Places == {p \in (DOMAIN bs) \X (DOMAIN rows) : p[2] \in DOMAIN bs[p[1]].rows}
    <2>1. /\ call[t] \in Call /\ Sound(loader, t, call[t], map)
          /\ Runnable(rows, outs, bs) /\ Apart(bs) /\ (loader = "2b" => InBudget(bs))
      BY DEF IInv, BatchingInv, Batching
    <2>2. /\ DOMAIN bs = 1..Len(bs) /\ DOMAIN rows = 1..Len(rows)
          /\ Len(rows) \in Nat /\ bs \in Seq(Batch)
      BY <2>1 DEF Call
    <2>3. \A b \in 1..Len(bs) : /\ DOMAIN bs[b].rows = 1..Len(bs[b].rows)
                                /\ Len(bs[b].rows) \in Nat
      <3>. TAKE b \in 1..Len(bs)
      <3>1. bs[b] \in Batch
        BY <2>2, ElementOfSeq
      <3>. QED
        BY <3>1 DEF Batch
    <2>4. ASSUME NEW r \in 1..Len(rows), outs[r] = << >> PROVE InBatches(r, bs)
      BY <2>1, <2>4 DEF Sound, NoneLost
    <2>. HIDE DEF rows, outs, bs
    <2>5. ASSUME NEW p \in Places
          PROVE  /\ p = <<p[1], p[2]>>
                 /\ p[1] \in 1..Len(bs) /\ p[2] \in 1..Len(bs[p[1]].rows)
      BY <2>2, <2>3
    <2>6. ASSUME NEW b \in 1..Len(bs), NEW i \in 1..Len(bs[b].rows)
          PROVE  <<b, i>> \in Places
      <3>1. Len(bs[b].rows) <= Len(rows)
        BY <2>1 DEF Runnable
      <3>2. i \in 1..Len(rows)
        BY <2>2, <2>3, <3>1
      <3>. QED
        BY <2>2, <2>3, <3>2
    <2>. HIDE DEF Places
    <2>7. ASSUME NEW p \in Places
          PROVE  /\ outs[bs[p[1]].rows[p[2]]] = << >>
                 /\ rows[bs[p[1]].rows[p[2]]].len <= bs[p[1]].width
      BY <2>1, <2>5 DEF Runnable
    <2>8. ASSUME NEW p \in Places, NEW q \in Places,
                 bs[p[1]].rows[p[2]] = bs[q[1]].rows[q[2]]
          PROVE  p = q
      <3>1. p[1] = q[1] /\ p[2] = q[2]
        BY <2>1, <2>5, <2>8 DEF Apart
      <3>. QED
        BY <2>5, <3>1
    <2>9. ASSUME NEW r \in 1..Len(rows), outs[r] = << >>
          PROVE  \E p \in Places : \A q \in Places : bs[q[1]].rows[q[2]] = r <=> p = q
      <3>1. PICK b \in 1..Len(bs) : \E i \in 1..Len(bs[b].rows) : bs[b].rows[i] = r
        BY <2>4, <2>9 DEF InBatches, InBatch
      <3>2. PICK i \in 1..Len(bs[b].rows) : bs[b].rows[i] = r
        BY <3>1
      <3>3. PICK p \in Places : p = <<b, i>>
        BY <2>6
      <3>4. bs[p[1]].rows[p[2]] = r
        BY <3>2, <3>3
      <3>. QED
        BY <2>8, <3>4
    <2>10. \A b \in 1..Len(bs) :
             loader = "2b" => Len(bs[b].rows) = 1 \/ bs[b].width * Len(bs[b].rows) <= ROW_BUDGET
      BY <2>1 DEF InBudget
    <2>11. ASSUME NEW r \in 1..Len(rows), outs[r] # << >>, NEW p \in Places
           PROVE  bs[p[1]].rows[p[2]] # r
      BY <2>7, <2>11
    <2>12. /\ \A r \in DOMAIN rows :
                IF outs[r] # << >>
                  THEN \A p \in Places : bs[p[1]].rows[p[2]] # r
                  ELSE \E p \in Places : \A q \in Places : bs[q[1]].rows[q[2]] = r <=> p = q
           /\ \A p \in Places : rows[bs[p[1]].rows[p[2]]].len <= bs[p[1]].width
           /\ loader = "2b" => \A b \in DOMAIN bs :
                \/ Len(bs[b].rows) = 1
                \/ bs[b].width * Len(bs[b].rows) <= ROW_BUDGET
      <3>1. \A r \in DOMAIN rows :
              IF outs[r] # << >>
                THEN \A p \in Places : bs[p[1]].rows[p[2]] # r
                ELSE \E p \in Places : \A q \in Places : bs[q[1]].rows[q[2]] = r <=> p = q
        <4>. TAKE r \in DOMAIN rows
        <4>1. r \in 1..Len(rows)
          BY <2>2
        <4>2. CASE outs[r] # << >>
          BY <2>11, <4>1, <4>2
        <4>3. CASE outs[r] = << >>
          BY <2>9, <4>1, <4>3
        <4>. QED
          BY <4>2, <4>3
      <3>. QED
        BY <2>2, <2>7, <2>10, <3>1
    <2>. QED
      BY <2>12 DEF rows, outs, bs, Places
  <1>. QED
    BY <1>1, <1>2, NextBatching, Inductive, PTL DEF Spec
=============================================================================
