------------------------------ MODULE Windows -------------------------------
(***************************************************************************)
(* Scoring a text longer than a model takes: Reranker::score_long and      *)
(* LayaDecider::predict_long.  Both settle a window and a step, slide the  *)
(* window over the tokens of the text, put every window through the model  *)
(* once per question, and let the best window answer.  They differ in how  *)
(* the window is settled and in the last window: the reranker aligns it    *)
(* with the end of the text, Laya leaves it short.                         *)
(*                                                                         *)
(* Only token counts matter here.  A window is decoded and encoded again   *)
(* before it is scored; like the code, the model takes it that this yields *)
(* the same tokens.                                                        *)
(***************************************************************************)
EXTENDS Integers, Sequences

CONSTANTS
  Jobs,           \* the calls made
  Scores          \* the scores the model gives

\* An Option<usize> is a set of at most one number.
Given(option) == CHOOSE n \in option : TRUE

\* A call: n tokens of text, the caller's window and stride, and for every
\* question the tokens a row spends on anything but the text.
Job ==
  [kind : {"rerank", "laya"}, n : Nat, max_len : Nat \ {0}, head_max_len : Nat,
   window : SUBSET Nat, stride : SUBSET Nat, used : Seq(Nat)]

ASSUME JobsAssumption ==
  /\ Jobs \subseteq Job
  /\ \A j \in Jobs :
       /\ \A m, n \in j.window : m = n
       /\ \A m, n \in j.stride : m = n
       /\ j.kind = "rerank" => Len(j.used) = 1

ASSUME ScoresAssumption == Scores \subseteq Int

VARIABLES
  job,            \* the call
  pc,             \* where it stands
  room,           \* tokens the questions measured so far leave for the text
  next,           \* the question measured next
  size, step,     \* the window and the stride settled on
  start,          \* where the next window starts
  spans,          \* the windows planned
  stat,           \* the scores, by <<window, question>>
  best            \* the answer to each question

vars == <<job, pc, room, next, size, step, start, spans, stat, best>>

Least(a, b) == IF a <= b THEN a ELSE b
Most(a, b) == IF a <= b THEN b ELSE a

\* Mutant of Less: the subtraction of C.
Less_signed(a, b) == a - b

\* usize::saturating_sub
Less(a, b) == IF b <= a THEN a - b ELSE 0

\* Mutant of half: the stride of a window of one token is 0.
half_zero(window) == window \div 2

\* The stride when the caller names none: every token is in two windows.
half(window) == Most(1, window \div 2)

Span(from, to) == [from |-> from, to |-> to]
Settled == {"refused", "failed", "answered"}

-----------------------------------------------------------------------------
(* Settling the window                                                     *)

\* The arguments are in.  A call of predict_long without questions has no
\* answers to give.
Init ==
  /\ job \in Jobs
  /\ pc = IF job.kind = "rerank" THEN "budget"
          ELSE IF job.used = << >> THEN "answered" ELSE "measure"
  /\ room = job.max_len
  /\ next = 1 /\ size = 0 /\ step = 0 /\ start = 0
  /\ spans = << >> /\ stat = << >> /\ best = << >>

\* The call goes on with this window and this stride, if it may.
Settle(may, window, stride) ==
  /\ pc' = IF may THEN "plan" ELSE "refused"
  /\ size' = IF may THEN window ELSE 0
  /\ step' = IF may THEN stride ELSE 0
  /\ UNCHANGED <<job, room, next, start, spans, stat, best>>

\* score_long: the window caps the whole pair.
Budget ==
  /\ pc = "budget"
  /\ LET window == IF job.window = {} THEN job.max_len ELSE Given(job.window)
         budget == window - job.used[1]
         stride == IF job.stride = {} THEN half(budget) ELSE Given(job.stride)
     IN Settle(/\ window \in 1..job.max_len
               /\ job.stride # {0}
               /\ budget > 0
               /\ stride <= budget,
               budget, stride)

\* Mutant of Measure: the room of the last question.
Measure_last ==
  /\ pc = "measure" /\ next <= Len(job.used)
  /\ room' = Less(job.max_len, job.used[next])
  /\ next' = next + 1
  /\ UNCHANGED <<job, pc, size, step, start, spans, stat, best>>

\* predict_long: the room is the tightest question's.  It starts from
\* usize::MAX, and the first question brings it to max_len or below.
Measure ==
  /\ pc = "measure" /\ next <= Len(job.used)
  /\ room' = Least(room, Less(job.max_len, job.used[next]))
  /\ next' = next + 1
  /\ UNCHANGED <<job, pc, size, step, start, spans, stat, best>>

\* The window predict_long scans with when there is room for it.
Requested(j) ==
  IF j.window # {} /\ j.window # {0} THEN Given(j.window)
  ELSE Most(64, Less(j.max_len, j.head_max_len + 8))

\* Mutant of Clamp: the stride does not follow the window.
Clamp_refuses ==
  /\ pc = "measure" /\ next > Len(job.used)
  /\ LET window == Least(Requested(job), room)
         stride == IF job.stride = {} THEN half(window) ELSE Given(job.stride)
     IN Settle(room > 0 /\ job.stride # {0} /\ stride <= window, window, stride)

\* predict_long: the window is clamped to the room; a stride that fitted the
\* window asked for follows it down, any other stride past it is refused.
Clamp ==
  /\ pc = "measure" /\ next > Len(job.used)
  /\ LET requested == Requested(job)
         window == Least(requested, room)
         stride == IF job.stride = {} THEN half(window) ELSE Given(job.stride)
         follows == window < requested /\ stride <= requested
     IN Settle(room > 0 /\ job.stride # {0} /\ (stride <= window \/ follows),
               window, IF stride <= window THEN stride ELSE half(window))

-----------------------------------------------------------------------------
(* Planning                                                                *)

\* plan_windows, and the fast path of predict_long: one window takes it all.
PlanWhole ==
  /\ pc = "plan" /\ job.n <= size
  /\ spans' = <<Span(0, job.n)>>
  /\ pc' = "planned"
  /\ UNCHANGED <<job, room, next, size, step, start, stat, best>>

\* The loops of plan_windows and plan_laya_spans.
Slide ==
  /\ pc = "plan" /\ job.n > size /\ start + size < job.n
  /\ spans' = Append(spans, Span(start, start + size))
  /\ start' = start + step
  /\ UNCHANGED <<job, pc, room, next, size, step, stat, best>>

\* Mutant of PlanTail: the windows end with the loop.
PlanTail_none ==
  /\ pc = "plan" /\ job.kind = "rerank" /\ job.n > size /\ start + size >= job.n
  /\ pc' = "planned"
  /\ UNCHANGED <<job, room, next, size, step, start, spans, stat, best>>

\* plan_windows: the last window ends with the text.
PlanTail ==
  /\ pc = "plan" /\ job.kind = "rerank" /\ job.n > size /\ start + size >= job.n
  /\ LET tail == job.n - size
     IN spans' = IF spans # << >> /\ spans[Len(spans)].from = tail THEN spans
                 ELSE Append(spans, Span(tail, job.n))
  /\ pc' = "planned"
  /\ UNCHANGED <<job, room, next, size, step, start, stat, best>>

\* plan_laya_spans: the last window is cut short.
PlanShort ==
  /\ pc = "plan" /\ job.kind = "laya" /\ job.n > size /\ start + size >= job.n
  /\ spans' = Append(spans, Span(start, Least(start + size, job.n)))
  /\ pc' = "planned"
  /\ UNCHANGED <<job, room, next, size, step, start, stat, best>>

-----------------------------------------------------------------------------
(* Scoring                                                                 *)

\* The rows of the one batch: for each window, each question.
items ==
  LET nq == Len(job.used)
  IN [i \in 1..(Len(spans) * nq) |-> <<((i - 1) \div nq) + 1, ((i - 1) % nq) + 1>>]

\* Mutant of row_of: windows and questions the other way round.
row_of_swapped(w, q) == items[(q - 1) * Len(spans) + w]

\* flat[w * nq + qi]
row_of(w, q) == items[(w - 1) * Len(job.used) + q]

\* select_laya_window, for which the first of the best wins; the reranker
\* returns the score alone.
select_window(q, scores) ==
  CHOOSE w \in DOMAIN spans :
    /\ \A v \in DOMAIN spans : scores[row_of(v, q)] <= scores[row_of(w, q)]
    /\ \A v \in 1..(w - 1) : scores[row_of(v, q)] < scores[row_of(w, q)]

\* One run of the session, and the answers read from it.
Answer ==
  /\ pc = "planned"
  /\ \E scores \in [(DOMAIN spans) \X (DOMAIN job.used) -> Scores] :
       /\ stat' = scores
       /\ best' = [q \in DOMAIN job.used |->
                     LET w == select_window(q, scores)
                     IN [window |-> w, score |-> scores[row_of(w, q)]]]
  /\ pc' = "answered"
  /\ UNCHANGED <<job, room, next, size, step, start, spans>>

\* The tokenizer or the session fails.
Fail ==
  /\ pc = "planned"
  /\ pc' = "failed"
  /\ UNCHANGED <<job, room, next, size, step, start, spans, stat, best>>

\* The call has returned; calls have nothing in common but the session.
Returned ==
  /\ pc \in Settled
  /\ UNCHANGED vars

Next ==
  \/ Budget \/ Measure \/ Clamp
  \/ PlanWhole \/ Slide \/ PlanTail \/ PlanShort
  \/ Answer \/ Fail \/ Returned

Spec == Init /\ [][Next]_vars

-----------------------------------------------------------------------------
(* Properties                                                              *)

\* Every variable keeps its type.
TypeOK ==
  /\ job \in Job
  /\ pc \in Settled \cup {"budget", "measure", "plan", "planned"}
  /\ room \in Nat /\ next \in Nat \ {0}
  /\ size \in Nat /\ step \in Nat /\ start \in Nat
  /\ spans \in Seq([from : Nat, to : Nat])

\* Whatever window and stride the caller asks for, no token of the text is
\* left out: every one is inside a window.
EveryTokenScored ==
  pc = "planned" =>
    \A t \in 0..(job.n - 1) :
      \E i \in DOMAIN spans : spans[i].from <= t /\ t < spans[i].to

\* No row exceeds max_len, so nothing of a window is cut off again: for every
\* question a window and what the row spends beside it fit.
RowsFit ==
  pc = "planned" =>
    \A i \in DOMAIN spans, q \in DOMAIN job.used :
      /\ spans[i].from <= spans[i].to /\ spans[i].to <= job.n
      /\ spans[i].to - spans[i].from > 0 =>
           job.used[q] + (spans[i].to - spans[i].from) <= job.max_len

\* Every window starts later than the one before it: the scan ends, and no
\* window is scored twice.
Advances ==
  \A i \in DOMAIN spans : i > 1 => spans[i - 1].from < spans[i].from

\* The answer to a question is read from a row of that question, and from the
\* first of the windows that score best.
BestWindow ==
  pc = "answered" =>
    \A q \in DOMAIN best :
      LET b == best[q]
      IN /\ b.score = stat[<<b.window, q>>]
         /\ \A w \in DOMAIN spans : stat[<<w, q>>] <= b.score
         /\ \A w \in 1..(b.window - 1) : stat[<<w, q>>] < b.score

\* What becomes of the caller's stride where predict_long narrows the window.  One
\* that fits the window asked for is never the reason for a refusal; one past that
\* window is never scanned with; and none is changed but where the window was
\* narrowed below it.  (The comment of predict_long and the changelog have every
\* stride past the narrowed window refused.)
ConsistentStride ==
  job.kind = "laya" =>
    /\ pc = "refused" =>
         \/ room = 0
         \/ job.stride = {0}
         \/ job.stride # {} /\ Given(job.stride) > Requested(job)
    /\ size > 0 /\ job.stride # {} =>
         /\ Given(job.stride) <= Requested(job)
         /\ step = Given(job.stride) \/ size < Given(job.stride)
=============================================================================
