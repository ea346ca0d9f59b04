--------------------------- MODULE WindowsProofs ----------------------------
(***************************************************************************)
(* What holds of a long text of any length, for any window, stride and     *)
(* questions.                                                              *)
(*                                                                         *)
(* The coverage of the text is not inductive as it stands: while the       *)
(* window slides one needs that everything before its start is covered     *)
(* already (Behind), which takes a stride of 1..size, and that the window  *)
(* settled on leaves every question its room (Fitting), which the tightest *)
(* question measured so far bounds (Measured).                             *)
(*                                                                         *)
(* That some window is the best one takes an induction on their number,    *)
(* which is done as the search for a least counterexample (LeastNat).      *)
(***************************************************************************)
EXTENDS Windows, WellFoundedInduction, TLAPS

\* The room is that of the tightest of the questions measured so far.
Measured ==
  pc = "measure" =>
    /\ job.kind = "laya"
    /\ \A i \in DOMAIN job.used : i < next => room <= Less(job.max_len, job.used[i])

\* The window settled on, and the stride, while they are in use.
Fitting ==
  pc \in {"plan", "planned"} =>
    /\ size > 0 /\ step > 0 /\ step <= size
    /\ \A q \in DOMAIN job.used : job.used[q] + size <= job.max_len

\* While the window slides, the windows behind it are whole ones that end
\* before the text does, and leave nothing out before its start, which the text
\* reaches.
Behind ==
  pc = "plan" =>
    /\ job.n > size => start < job.n
    /\ \A i \in DOMAIN spans :
         /\ spans[i].to = spans[i].from + size
         /\ spans[i].to < job.n
         /\ spans[i].from < start
    /\ \A t \in 0..(start - 1) :
         \E i \in DOMAIN spans : spans[i].from <= t /\ t < spans[i].to

\* Once it is planned no window is wider than the one settled on.
Ahead ==
  pc = "planned" =>
    \A i \in DOMAIN spans :
      /\ spans[i].from <= spans[i].to
      /\ spans[i].to <= job.n
      /\ spans[i].to - spans[i].from <= size

Typed ==
  /\ TypeOK
  /\ job \in Jobs
  /\ pc = "budget" => job.kind = "rerank"
  /\ pc \in {"budget", "measure"} => spans = << >> /\ start = 0

IInv ==
  /\ Typed /\ Measured /\ Fitting /\ Behind /\ Ahead
  /\ EveryTokenScored /\ Advances

-----------------------------------------------------------------------------
(* Calls and options                                                       *)

\* A call has the parts its record promises.
LEMMA JobParts ==
  ASSUME NEW j \in Jobs
  PROVE  /\ j.n \in Nat /\ j.max_len \in Nat \ {0} /\ j.head_max_len \in Nat
         /\ j.used \in Seq(Nat)
         /\ j.window \subseteq Nat /\ j.stride \subseteq Nat
         /\ j.kind \in {"rerank", "laya"}
         /\ j.kind = "rerank" => Len(j.used) = 1
BY JobsAssumption DEF Job

\* What an option gives is a number.
LEMMA GivenIsNat ==
  ASSUME NEW option \in SUBSET Nat, option # {}
  PROVE  Given(option) \in Nat /\ Given(option) \in option
BY DEF Given

\* Half a window is a stride of that window.
LEMMA HalfFits ==
  ASSUME NEW w \in Nat, w > 0
  PROVE  half(w) \in Nat /\ half(w) > 0 /\ half(w) <= w
BY SMT DEF half, Most

\* The elements of a sequence.
LEMMA Elements ==
  ASSUME NEW S, NEW s \in Seq(S)
  PROVE  Len(s) \in Nat /\ DOMAIN s = 1..Len(s) /\ \A i \in DOMAIN s : s[i] \in S
OBVIOUS

\* The ends of the windows are numbers.
LEMMA Ends ==
  ASSUME NEW s \in Seq([from : Nat, to : Nat])
  PROVE  \A i \in DOMAIN s : s[i].from \in Nat /\ s[i].to \in Nat
<1>1. \A i \in DOMAIN s : s[i] \in [from : Nat, to : Nat]
  BY Elements
<1> QED
  BY <1>1

\* The elements of a sequence after an Append.
LEMMA Appended ==
  ASSUME NEW S, NEW s \in Seq(S), NEW e \in S
  PROVE  /\ Append(s, e) \in Seq(S)
         /\ Len(Append(s, e)) = Len(s) + 1
         /\ DOMAIN s = 1..Len(s) /\ DOMAIN Append(s, e) = 1..(Len(s) + 1)
         /\ \A i \in DOMAIN s : Append(s, e)[i] = s[i]
         /\ Append(s, e)[Len(s) + 1] = e
BY SMT

\* The windows after one more of them is planned.
LEMMA OneMore ==
  ASSUME spans \in Seq([from : Nat, to : Nat]), NEW e \in [from : Nat, to : Nat],
         spans' = Append(spans, e)
  PROVE  /\ Len(spans) \in Nat /\ DOMAIN spans = 1..Len(spans)
         /\ DOMAIN spans' = 1..(Len(spans) + 1)
         /\ spans' \in Seq([from : Nat, to : Nat])
         /\ \A i \in DOMAIN spans : /\ spans'[i] = spans[i]
                                    /\ spans[i].from \in Nat /\ spans[i].to \in Nat
         /\ spans'[Len(spans) + 1] = e
<1>1. Len(spans) \in Nat /\ \A i \in DOMAIN spans : spans[i] \in [from : Nat, to : Nat]
  BY Elements
<1>2. \A i \in DOMAIN spans : spans[i].from \in Nat /\ spans[i].to \in Nat
  BY <1>1
<1>3. /\ Append(spans, e) \in Seq([from : Nat, to : Nat])
      /\ DOMAIN spans = 1..Len(spans) /\ DOMAIN Append(spans, e) = 1..(Len(spans) + 1)
      /\ \A i \in DOMAIN spans : Append(spans, e)[i] = spans[i]
      /\ Append(spans, e)[Len(spans) + 1] = e
  BY Appended
<1> QED
  BY <1>1, <1>2, <1>3

\* A window that starts after all the others keeps the order.
LEMMA OneMoreAdvances ==
  ASSUME spans \in Seq([from : Nat, to : Nat]), NEW e \in [from : Nat, to : Nat],
         spans' = Append(spans, e),
         Advances, \A i \in DOMAIN spans : spans[i].from < e.from
  PROVE  Advances'
<1>1. /\ Len(spans) \in Nat /\ DOMAIN spans = 1..Len(spans)
      /\ DOMAIN spans' = 1..(Len(spans) + 1)
      /\ \A i \in DOMAIN spans : spans'[i] = spans[i]
      /\ spans'[Len(spans) + 1] = e
  BY OneMore
<1>2. ASSUME NEW i \in DOMAIN spans', i > 1
      PROVE  spans'[i - 1].from < spans'[i].from
  <2>1. i - 1 \in DOMAIN spans
    BY <1>1, <1>2, SMT
  <2>2. CASE i \in DOMAIN spans
    BY <1>1, <1>2, <2>1, <2>2 DEF Advances
  <2>3. CASE i = Len(spans) + 1
    BY <1>1, <2>1, <2>3
  <2>4. i \in DOMAIN spans \/ i = Len(spans) + 1
    <3>1. Len(spans) \in Nat /\ i \in 1..(Len(spans) + 1) /\ DOMAIN spans = 1..Len(spans)
      BY <1>1
    <3> QED
      BY <3>1, SMT
  <2> QED
    BY <2>2, <2>3, <2>4
<1> QED
  BY <1>2 DEF Advances

-----------------------------------------------------------------------------
(* The steps                                                               *)

LEMMA InitInv == Init => IInv
<1> SUFFICES ASSUME Init PROVE IInv
  OBVIOUS
<1>1. /\ job \in Jobs /\ job \in Job
  BY JobsAssumption DEF Init
<1>2. Typed
  BY <1>1, JobParts DEF Init, Typed, TypeOK, Settled
<1>3. Measured
  BY <1>1, JobParts, SMT DEF Init, Measured
<1>4. Fitting /\ Behind /\ Ahead /\ EveryTokenScored
  BY DEF Init, Fitting, Behind, Ahead, EveryTokenScored
<1>5. Advances
  BY DEF Init, Advances
<1> QED
  BY <1>2, <1>3, <1>4, <1>5 DEF IInv

\* Settling on a window that leaves every question its room is safe.
LEMMA SettleInv ==
  ASSUME IInv, NEW may \in BOOLEAN, NEW window, NEW stride,
         Settle(may, window, stride),
         spans = << >>, start = 0,
         may => /\ window \in Nat /\ stride \in Nat
                /\ window > 0 /\ stride > 0 /\ stride <= window
                /\ \A q \in DOMAIN job.used : job.used[q] + window <= job.max_len
  PROVE  IInv'
<1>0. job.n \in Nat
  BY JobParts DEF IInv, Typed
<1>1. Typed'
  BY DEF IInv, Typed, TypeOK, Settle, Settled
<1>2. Measured' /\ Ahead' /\ EveryTokenScored'
  BY DEF Settle, Measured, Ahead, EveryTokenScored
<1>3. Fitting'
  BY DEF Settle, Fitting
<1>4. Behind' /\ Advances'
  BY <1>0, SMT DEF Settle, Behind, Advances
<1> QED
  BY <1>1, <1>2, <1>3, <1>4 DEF IInv

\* score_long settles on a window that fits beside the query.
LEMMA BudgetInv == IInv /\ Budget => IInv'
<1> SUFFICES ASSUME IInv, Budget PROVE IInv'
  OBVIOUS
<1> DEFINE window == IF job.window = {} THEN job.max_len ELSE Given(job.window)
           budget == window - job.used[1]
           stride == IF job.stride = {} THEN half(budget) ELSE Given(job.stride)
           may == /\ window \in 1..job.max_len
                  /\ job.stride # {0}
                  /\ budget > 0
                  /\ stride <= budget
<1>1. Settle(may, budget, stride)
  BY Zenon DEF Budget
<1>2. job \in Jobs /\ job.kind = "rerank" /\ spans = << >> /\ start = 0
  BY DEF IInv, Typed, Budget
<1>3. /\ job.max_len \in Nat /\ job.used \in Seq(Nat) /\ Len(job.used) = 1
      /\ job.used[1] \in Nat
  BY <1>2, JobParts
<1>4. may => window \in Nat /\ budget \in Nat /\ budget > 0
  <2> HAVE may
  <2>1. window \in 1..job.max_len /\ budget > 0
    BY Zenon
  <2> HIDE DEF window
  <2>2. PICK m \in Nat, u \in Nat : m = job.max_len /\ u = job.used[1]
    BY <1>3
  <2>3. window \in 1..m /\ window - u > 0
    BY <2>1, <2>2
  <2>4. window \in Nat /\ window - u \in Nat
    BY <2>2, <2>3, SMT
  <2> QED
    BY <2>1, <2>2, <2>4
<1>5. may => stride \in Nat /\ stride > 0 /\ stride <= budget
  <2> HAVE may
  <2>1. CASE job.stride = {}
    BY <2>1, <1>4, HalfFits
  <2>2. CASE job.stride # {}
    <3>1. job.stride \in SUBSET Nat /\ \A m, n \in job.stride : m = n
      BY <1>2, JobsAssumption, JobParts
    <3>2. Given(job.stride) \in Nat /\ Given(job.stride) \in job.stride
      BY <3>1, <2>2, GivenIsNat
    <3>3. Given(job.stride) # 0
      BY <3>1, <3>2
    <3> QED
      BY <2>2, <3>2, <3>3, SMT
  <2> QED
    BY <2>1, <2>2
<1>6. may => \A q \in DOMAIN job.used : job.used[q] + budget <= job.max_len
  BY <1>3, SMT
<1> HIDE DEF window, budget, stride, may
<1>7. may \in BOOLEAN
  BY DEF may
<1> QED
  BY <1>1, <1>2, <1>4, <1>5, <1>6, <1>7, SettleInv

\* The room shrinks to that of the question measured.
LEMMA MeasureInv == IInv /\ Measure => IInv'
<1> SUFFICES ASSUME IInv, Measure PROVE IInv'
  OBVIOUS
<1>1. /\ job \in Jobs /\ job.used \in Seq(Nat) /\ job.max_len \in Nat
      /\ room \in Nat /\ next \in Nat \ {0} /\ pc = "measure" /\ next \in DOMAIN job.used
  BY JobParts DEF IInv, Typed, TypeOK, Measure
<1>2. \A i \in DOMAIN job.used : Less(job.max_len, job.used[i]) \in Nat
  BY <1>1, SMT DEF Less
<1>3. Typed'
  BY <1>1, <1>2, SMT DEF IInv, Typed, TypeOK, Measure, Least, Settled
<1>4. Measured'
  <2>1. /\ room' <= room /\ room' <= Less(job.max_len, job.used[next])
        /\ room' \in Nat
    <3>1. PICK r \in Nat, l \in Nat : r = room /\ l = Less(job.max_len, job.used[next])
      BY <1>1, <1>2
    <3>2. room' = Least(r, l)
      BY <3>1 DEF Measure
    <3>3. room' <= r /\ room' <= l /\ room' \in Nat
      BY <3>2, SMT DEF Least
    <3> QED
      BY <3>1, <3>3
  <2>2. /\ job' = job /\ pc' = pc /\ next' = next + 1 /\ job.kind = "laya"
        /\ \A i \in DOMAIN job.used : i < next => room <= Less(job.max_len, job.used[i])
    BY <1>1 DEF IInv, Measured, Measure
  <2>3. DOMAIN job.used = 1..Len(job.used) /\ Len(job.used) \in Nat
    BY <1>1
  <2>4. ASSUME NEW i \in DOMAIN job.used, i < next + 1
        PROVE  room' <= Less(job.max_len, job.used[i])
    <3>1. CASE i = next
      BY <3>1, <2>1
    <3>2. CASE i < next
      <4>1. room <= Less(job.max_len, job.used[i]) /\ Less(job.max_len, job.used[i]) \in Nat
        BY <3>2, <2>2, <1>2
      <4> QED
        BY <4>1, <2>1, <1>1, SMT
    <3> QED
      BY <3>1, <3>2, <2>3, <2>4, <1>1, SMT
  <2> QED
    BY <2>2, <2>4 DEF Measured
<1>5. Fitting' /\ Behind' /\ Ahead' /\ EveryTokenScored'
  BY <1>1 DEF Measure, Fitting, Behind, Ahead, EveryTokenScored
<1>6. Advances'
  BY DEF Measure, IInv, Advances
<1> QED
  BY <1>3, <1>4, <1>5, <1>6 DEF IInv

\* The window predict_long asks for has a token at least.
LEMMA RequestedPositive ==
  ASSUME NEW j \in Jobs
  PROVE  Requested(j) \in Nat /\ Requested(j) > 0
<1>1. CASE j.window # {} /\ j.window # {0}
  <2>1. j.window \in SUBSET Nat /\ \A m, n \in j.window : m = n
    BY JobsAssumption, JobParts
  <2>2. Given(j.window) \in Nat /\ Given(j.window) \in j.window
    BY <2>1, <1>1, GivenIsNat
  <2>3. Given(j.window) # 0
    BY <2>1, <2>2, <1>1
  <2> QED
    BY <1>1, <2>2, <2>3, SMT DEF Requested
<1>2. CASE ~(j.window # {} /\ j.window # {0})
  <2>1. Less(j.max_len, j.head_max_len + 8) \in Nat
    BY JobParts, SMT DEF Less
  <2> QED
    BY <1>2, <2>1, SMT DEF Requested, Most
<1> QED
  BY <1>1, <1>2

\* predict_long settles on a window that fits beside every question.
LEMMA ClampInv == IInv /\ Clamp => IInv'
<1> SUFFICES ASSUME IInv, Clamp PROVE IInv'
  OBVIOUS
<1> DEFINE requested == Requested(job)
           window == Least(requested, room)
           stride == IF job.stride = {} THEN half(window) ELSE Given(job.stride)
           follows == window < requested /\ stride <= requested
           may == room > 0 /\ job.stride # {0} /\ (stride <= window \/ follows)
           taken == IF stride <= window THEN stride ELSE half(window)
<1>1. Settle(may, window, taken)
  BY Zenon DEF Clamp
<1>2. /\ job \in Jobs /\ spans = << >> /\ start = 0 /\ room \in Nat
      /\ next \in Nat /\ next > Len(job.used) /\ job.used \in Seq(Nat)
      /\ job.max_len \in Nat
  BY JobParts DEF IInv, Typed, TypeOK, Clamp
<1>3. requested \in Nat /\ requested > 0
  BY <1>2, RequestedPositive
<1>4. may => window \in Nat /\ window > 0 /\ window <= room
  BY <1>2, <1>3, SMT DEF Least
<1>5. may => taken \in Nat /\ taken > 0 /\ taken <= window
  <2> HAVE may
  <2>1. half(window) \in Nat /\ half(window) > 0 /\ half(window) <= window
    BY <1>4, HalfFits
  <2>2. CASE job.stride = {}
    BY <2>1, <2>2
  <2>3. CASE job.stride # {}
    <3>1. job.stride \in SUBSET Nat /\ \A m, n \in job.stride : m = n
      BY <1>2, JobsAssumption, JobParts
    <3>2. Given(job.stride) \in Nat /\ Given(job.stride) \in job.stride
      BY <3>1, <2>3, GivenIsNat
    <3>3. Given(job.stride) # 0
      BY <3>1, <3>2
    <3> HIDE DEF window
    <3> QED
      BY <2>1, <2>3, <3>2, <3>3, SMT
  <2> QED
    BY <2>2, <2>3
<1>6. may => \A q \in DOMAIN job.used : job.used[q] + window <= job.max_len
  <2> SUFFICES ASSUME may, NEW q \in DOMAIN job.used
               PROVE  job.used[q] + window <= job.max_len
    OBVIOUS
  <2>1. room <= Less(job.max_len, job.used[q])
    BY <1>2, SMT DEF IInv, Measured, Clamp
  <2>2. PICK m \in Nat, u \in Nat : m = job.max_len /\ u = job.used[q]
    BY <1>2
  <2>3. window \in Nat /\ window > 0 /\ window <= room /\ room <= Less(m, u)
    BY <1>4, <2>1, <2>2
  <2> HIDE DEF window
  <2>4. room \in Nat
    BY <1>2
  <2>5. u + window <= m
    BY <2>3, <2>4, SMT DEF Less
  <2> QED
    BY <2>2, <2>5
<1> HIDE DEF requested, window, stride, follows, may, taken
<1>7. may \in BOOLEAN
  BY DEF may
<1> QED
  BY <1>1, <1>2, <1>4, <1>5, <1>6, <1>7, SettleInv

\* One window takes the whole text.
LEMMA PlanWholeInv == IInv /\ PlanWhole => IInv'
<1> SUFFICES ASSUME IInv, PlanWhole PROVE IInv'
  OBVIOUS
<1>1. job \in Jobs /\ job.n \in Nat /\ size \in Nat /\ job.n <= size
  BY JobParts DEF IInv, Typed, TypeOK, PlanWhole
<1>2. Typed'
  BY <1>1 DEF IInv, Typed, TypeOK, PlanWhole, Span, Settled
<1>3. Measured' /\ Behind'
  BY DEF PlanWhole, Measured, Behind
<1>4. Fitting'
  BY DEF IInv, PlanWhole, Fitting
<1>5. spans' = <<Span(0, job.n)>> /\ job' = job /\ size' = size
  BY DEF PlanWhole
<1>6. Ahead' /\ EveryTokenScored' /\ Advances'
  BY <1>1, <1>5, SMT DEF Ahead, EveryTokenScored, Advances, Span
<1> QED
  BY <1>2, <1>3, <1>4, <1>6 DEF IInv

\* A whole window, and on by the stride, which leaves no gap.
LEMMA SlideInv == IInv /\ Slide => IInv'
<1> SUFFICES ASSUME IInv, Slide PROVE IInv'
  OBVIOUS
<1> DEFINE e == Span(start, start + size)
<1>1. /\ job \in Jobs /\ job.n \in Nat /\ size \in Nat /\ start \in Nat /\ step \in Nat
      /\ spans \in Seq([from : Nat, to : Nat])
      /\ start + size < job.n /\ size > 0 /\ step > 0 /\ step <= size
  BY JobParts DEF IInv, Typed, TypeOK, Fitting, Slide
<1>2. /\ e \in [from : Nat, to : Nat] /\ e.from = start /\ e.to = start + size
  BY <1>1, SMT DEF Span
<1>3. spans' = Append(spans, e) /\ start' = start + step
      /\ job' = job /\ size' = size /\ step' = step /\ pc' = pc /\ pc = "plan"
  BY DEF Slide
<1> HIDE DEF e
<1>4. /\ Len(spans) \in Nat /\ DOMAIN spans = 1..Len(spans)
      /\ DOMAIN spans' = 1..(Len(spans) + 1)
      /\ spans' \in Seq([from : Nat, to : Nat])
      /\ \A i \in DOMAIN spans : spans'[i] = spans[i] /\ spans[i].from \in Nat
      /\ spans'[Len(spans) + 1] = e
  BY <1>1, <1>2, <1>3, OneMore
<1>5. Typed'
  BY <1>1, <1>3, <1>4, SMT DEF IInv, Typed, TypeOK, Slide, Settled
<1>6. Measured' /\ Ahead' /\ EveryTokenScored'
  BY <1>3 DEF Measured, Ahead, EveryTokenScored
<1>7. Fitting'
  BY <1>3 DEF IInv, Fitting
<1>8. Behind'
  <2>0. /\ \A i \in DOMAIN spans :
             /\ spans[i].to = spans[i].from + size
             /\ spans[i].to < job.n
             /\ spans[i].from < start
        /\ \A t \in 0..(start - 1) :
             \E i \in DOMAIN spans : spans[i].from <= t /\ t < spans[i].to
    BY <1>3 DEF IInv, Behind
  <2>1. \A i \in DOMAIN spans' :
          /\ spans'[i].to = spans'[i].from + size
          /\ spans'[i].to < job.n
          /\ spans'[i].from < start'
    <3>1. ASSUME NEW i \in DOMAIN spans'
          PROVE  /\ spans'[i].to = spans'[i].from + size
                 /\ spans'[i].to < job.n
                 /\ spans'[i].from < start + step
      <4>1. i \in DOMAIN spans \/ i = Len(spans) + 1
        BY <1>4
      <4>2. CASE i \in DOMAIN spans
        <5>1. spans'[i] = spans[i] /\ spans[i].from \in Nat /\ spans[i].from < start
          BY <1>4, <2>0, <4>2
        <5>2. spans[i].from < start + step
          BY <1>1, <5>1, SMT
        <5> QED
          BY <2>0, <4>2, <5>1, <5>2, Zenon
      <4>3. CASE i = Len(spans) + 1
        <5>1. start < start + step
          BY <1>1, SMT
        <5> QED
          BY <1>1, <1>2, <1>4, <4>3, <5>1, Zenon
      <4> QED
        BY <4>1, <4>2, <4>3
    <3> QED
      BY <1>3, <3>1
  <2>2. ASSUME NEW t \in 0..(start' - 1)
        PROVE  \E i \in DOMAIN spans' : spans'[i].from <= t /\ t < spans'[i].to
    <3>1. CASE t < start
      <4>1. PICK i \in DOMAIN spans : spans[i].from <= t /\ t < spans[i].to
        <5>1. t \in 0..(start - 1)
          BY <3>1, <1>1, SMT
        <5> QED
          BY <5>1, <2>0
      <4> QED
        BY <4>1, <1>4
    <3>2. CASE t >= start
      <4>1. t < start + size
        BY <3>2, <1>1, <1>3, SMT
      <4>2. Len(spans) + 1 \in DOMAIN spans'
        BY <1>4
      <4> QED
        BY <3>2, <4>1, <4>2, <1>2, <1>4
    <3>3. t < start \/ t >= start
      BY <1>1
    <3> QED
      BY <3>1, <3>2, <3>3, Zenon
  <2>3. start' < job.n
    BY <1>1, <1>3, SMT
  <2> QED
    BY <2>1, <2>2, <2>3, <1>3 DEF Behind
<1>9. Advances'
  <2>1. \A i \in DOMAIN spans : spans[i].from < e.from
    BY <1>2, <1>3 DEF IInv, Behind
  <2> QED
    BY <1>1, <1>2, <1>3, <2>1, OneMoreAdvances DEF IInv
<1> QED
  BY <1>5, <1>6, <1>7, <1>8, <1>9 DEF IInv

\* The last window of plan_windows ends with the text, and the whole windows
\* reach as far as it starts.
LEMMA PlanTailInv == IInv /\ PlanTail => IInv'
<1> SUFFICES ASSUME IInv, PlanTail PROVE IInv'
  OBVIOUS
<1> DEFINE tail == job.n - size
           e == Span(tail, job.n)
<1>1. /\ job \in Jobs /\ job.n \in Nat /\ size \in Nat /\ start \in Nat
      /\ spans \in Seq([from : Nat, to : Nat])
      /\ job.n > size /\ start + size >= job.n /\ size > 0
  BY JobParts DEF IInv, Typed, TypeOK, Fitting, PlanTail
<1>2. tail \in Nat /\ tail <= start /\ tail + size = job.n
  <2>1. /\ job.n \in Nat /\ size \in Nat /\ start \in Nat
        /\ job.n > size /\ start + size >= job.n
    BY <1>1
  <2> QED
    BY <2>1, SMT
<1>3. e \in [from : Nat, to : Nat] /\ e.from = tail /\ e.to = job.n
  BY <1>1, <1>2 DEF Span
<1>4. /\ job' = job /\ size' = size /\ step' = step /\ pc' = "planned"
      /\ spans' = IF spans # << >> /\ spans[Len(spans)].from = tail THEN spans
                  ELSE Append(spans, e)
  BY DEF PlanTail
<1> HIDE DEF tail, e
<1>5. /\ \A i \in DOMAIN spans :
           /\ spans[i].to = spans[i].from + size
           /\ spans[i].to < job.n
           /\ spans[i].from < start
      /\ \A t \in 0..(start - 1) :
           \E i \in DOMAIN spans : spans[i].from <= t /\ t < spans[i].to
  BY DEF IInv, Behind, PlanTail
<1>6. \A i \in DOMAIN spans : /\ spans[i].from \in Nat /\ spans[i].to \in Nat
                              /\ spans[i].from < tail
  <2> TAKE i \in DOMAIN spans
  <2>1. /\ spans[i].from \in Nat /\ spans[i].to \in Nat
        /\ job.n \in Nat /\ size \in Nat
    BY <1>1, Ends
  <2>2. spans[i].to = spans[i].from + size /\ spans[i].to < job.n
    BY <1>5
  <2> QED
    BY <1>2, <2>1, <2>2, SMT
<1>7. spans' = Append(spans, e)
  <2>1. CASE spans = << >>
    BY <1>4, <2>1
  <2>2. CASE spans # << >>
    <3>1. Len(spans) \in DOMAIN spans
      BY <1>1, <2>2
    <3>2. spans[Len(spans)].from # tail
      BY <3>1, <1>2, <1>6
    <3> QED
      BY <1>4, <3>2
  <2> QED
    BY <2>1, <2>2
<1>8. /\ Len(spans) \in Nat /\ DOMAIN spans = 1..Len(spans)
      /\ DOMAIN spans' = 1..(Len(spans) + 1)
      /\ spans' \in Seq([from : Nat, to : Nat])
      /\ \A i \in DOMAIN spans : spans'[i] = spans[i]
      /\ spans'[Len(spans) + 1] = e
  BY <1>1, <1>3, <1>7, OneMore
<1>9. Typed' /\ Measured' /\ Fitting' /\ Behind'
  BY <1>4, <1>8 DEF IInv, Typed, TypeOK, Measured, Fitting, Behind, PlanTail, Settled
<1>10. Ahead'
  <2>1. ASSUME NEW i \in DOMAIN spans'
        PROVE  /\ spans'[i].from <= spans'[i].to
               /\ spans'[i].to <= job.n
               /\ spans'[i].to - spans'[i].from <= size
    <3>1. i \in DOMAIN spans \/ i = Len(spans) + 1
      BY <1>8
    <3>2. CASE i \in DOMAIN spans
      <4>1. /\ spans[i].from \in Nat /\ spans[i].to = spans[i].from + size
            /\ spans[i].to < job.n /\ job.n \in Nat /\ size \in Nat
            /\ spans'[i] = spans[i]
        BY <3>2, <1>1, <1>5, <1>6, <1>8
      <4> QED
        BY <4>1, SMT
    <3>3. CASE i = Len(spans) + 1
      <4>1. spans'[i].from = tail /\ spans'[i].to = job.n
        BY <3>3, <1>3, <1>8
      <4>2. tail <= job.n /\ job.n <= job.n /\ job.n - tail <= size
        BY <1>1, <1>2
      <4> QED
        BY <4>1, <4>2, Zenon
    <3> QED
      BY <3>1, <3>2, <3>3
  <2> QED
    BY <2>1, <1>4 DEF Ahead
<1>11. EveryTokenScored'
  <2>1. ASSUME NEW t \in 0..(job.n - 1)
        PROVE  \E i \in DOMAIN spans' : spans'[i].from <= t /\ t < spans'[i].to
    <3>1. CASE t < tail
      <4>1. t \in 0..(start - 1)
        BY <3>1, <1>1, <1>2, SMT
      <4>2. PICK i \in DOMAIN spans : spans[i].from <= t /\ t < spans[i].to
        BY <4>1, <1>5, Zenon
      <4>3. i \in DOMAIN spans' /\ spans'[i] = spans[i]
        BY <1>8
      <4> QED
        BY <4>2, <4>3, Zenon
    <3>2. CASE t >= tail
      <4>1. Len(spans) + 1 \in DOMAIN spans' /\ t < job.n
        BY <1>1, <1>8, SMT
      <4> QED
        BY <3>2, <4>1, <1>3, <1>8
    <3>3. t < tail \/ t >= tail
      BY <1>2
    <3> QED
      BY <3>1, <3>2, <3>3, Zenon
  <2> QED
    BY <2>1, <1>4 DEF EveryTokenScored
<1>12. Advances'
  BY <1>1, <1>3, <1>6, <1>7, OneMoreAdvances DEF IInv
<1> QED
  BY <1>9, <1>10, <1>11, <1>12 DEF IInv

\* The last window of plan_laya_spans runs to the end of the text.
LEMMA PlanShortInv == IInv /\ PlanShort => IInv'
<1> SUFFICES ASSUME IInv, PlanShort PROVE IInv'
  OBVIOUS
<1> DEFINE e == Span(start, Least(start + size, job.n))
<1>1. /\ job \in Jobs /\ job.n \in Nat /\ size \in Nat /\ start \in Nat /\ step \in Nat
      /\ spans \in Seq([from : Nat, to : Nat])
      /\ job.n > size /\ start + size >= job.n /\ step <= size
  BY JobParts DEF IInv, Typed, TypeOK, Fitting, PlanShort
<1>2. Least(start + size, job.n) = job.n
  BY <1>1, SMT DEF Least
<1>3. e \in [from : Nat, to : Nat] /\ e.from = start /\ e.to = job.n
  BY <1>1, <1>2 DEF Span
<1>4. /\ job' = job /\ size' = size /\ step' = step /\ pc' = "planned"
      /\ spans' = Append(spans, e)
  BY DEF PlanShort
<1> HIDE DEF e
<1>5. /\ \A i \in DOMAIN spans :
           /\ spans[i].to = spans[i].from + size
           /\ spans[i].to < job.n
           /\ spans[i].from < start
      /\ \A t \in 0..(start - 1) :
           \E i \in DOMAIN spans : spans[i].from <= t /\ t < spans[i].to
  BY DEF IInv, Behind, PlanShort
<1>6. /\ Len(spans) \in Nat /\ DOMAIN spans = 1..Len(spans)
      /\ DOMAIN spans' = 1..(Len(spans) + 1)
      /\ spans' \in Seq([from : Nat, to : Nat])
      /\ \A i \in DOMAIN spans : /\ spans'[i] = spans[i]
                                 /\ spans[i].from \in Nat /\ spans[i].to \in Nat
      /\ spans'[Len(spans) + 1] = e
  BY <1>1, <1>3, <1>4, OneMore
<1>7. start < job.n
  BY <1>1 DEF IInv, Behind, PlanShort
<1>8. Typed' /\ Measured' /\ Fitting' /\ Behind'
  BY <1>4, <1>6 DEF IInv, Typed, TypeOK, Measured, Fitting, Behind, PlanShort, Settled
<1>9. Ahead'
  <2>1. ASSUME NEW i \in DOMAIN spans'
        PROVE  /\ spans'[i].from <= spans'[i].to
               /\ spans'[i].to <= job.n
               /\ spans'[i].to - spans'[i].from <= size
    <3>1. i \in DOMAIN spans \/ i = Len(spans) + 1
      BY <1>6
    <3>2. CASE i \in DOMAIN spans
      <4>1. /\ spans[i].from \in Nat /\ spans[i].to = spans[i].from + size
            /\ spans[i].to < job.n /\ job.n \in Nat /\ size \in Nat
            /\ spans'[i] = spans[i]
        BY <3>2, <1>1, <1>5, <1>6
      <4> QED
        BY <4>1, SMT
    <3>3. CASE i = Len(spans) + 1
      <4>1. spans'[i].from = start /\ spans'[i].to = job.n
        BY <3>3, <1>3, <1>6
      <4>2. start <= job.n /\ job.n <= job.n /\ job.n - start <= size
        BY <1>1, <1>7
      <4> QED
        BY <4>1, <4>2, Zenon
    <3> QED
      BY <3>1, <3>2, <3>3
  <2> QED
    BY <2>1, <1>4 DEF Ahead
<1>10. EveryTokenScored'
  <2>1. ASSUME NEW t \in 0..(job.n - 1)
        PROVE  \E i \in DOMAIN spans' : spans'[i].from <= t /\ t < spans'[i].to
    <3>1. CASE t < start
      <4>1. t \in 0..(start - 1)
        BY <3>1, <1>1, SMT
      <4>2. PICK i \in DOMAIN spans : spans[i].from <= t /\ t < spans[i].to
        BY <4>1, <1>5, Zenon
      <4>3. i \in DOMAIN spans' /\ spans'[i] = spans[i]
        BY <1>6
      <4> QED
        BY <4>2, <4>3, Zenon
    <3>2. CASE t >= start
      <4>1. Len(spans) + 1 \in DOMAIN spans' /\ t < job.n
        BY <1>1, <1>6, SMT
      <4> QED
        BY <3>2, <4>1, <1>3, <1>6
    <3> QED
      BY <3>1, <3>2, <1>1, SMT
  <2> QED
    BY <2>1, <1>4 DEF EveryTokenScored
<1>11. Advances'
  BY <1>1, <1>3, <1>4, <1>5, OneMoreAdvances DEF IInv
<1> QED
  BY <1>8, <1>9, <1>10, <1>11 DEF IInv

\* Scoring and returning leave the plan alone.
LEMMA RestInv == IInv /\ (Answer \/ Fail \/ Returned) => IInv'
<1> SUFFICES ASSUME IInv, Answer \/ Fail \/ Returned PROVE IInv'
  OBVIOUS
<1>1. /\ UNCHANGED <<job, room, next, size, step, start, spans>>
      /\ pc' \in Settled
  BY DEF Answer, Fail, Returned, vars, Settled
<1> QED
  BY <1>1 DEF IInv, Typed, TypeOK, Measured, Fitting, Behind, Ahead,
              EveryTokenScored, Advances, Settled

LEMMA StutterInv == IInv /\ UNCHANGED vars => IInv'
BY DEF vars, IInv, Typed, TypeOK, Measured, Fitting, Behind, Ahead,
       EveryTokenScored, Advances

\* Every reachable state satisfies the inductive invariant.
THEOREM Inductive == Spec => []IInv
<1>1. IInv /\ [Next]_vars => IInv'
  BY BudgetInv, MeasureInv, ClampInv, PlanWholeInv, SlideInv, PlanTailInv,
     PlanShortInv, RestInv, StutterInv DEF Next
<1> QED
  BY InitInv, <1>1, PTL DEF Spec

-----------------------------------------------------------------------------
(* Scoring                                                                 *)

\* Any naturals there are have a least one.
LEMMA LeastNat ==
  ASSUME NEW T, T \subseteq Nat, T # {}
  PROVE  \E x \in T : \A y \in T : x <= y
<1>1. PICK R : R = OpToRel(<, Nat)
  OBVIOUS
<1>2. IsWellFoundedOn(R, Nat)
  BY <1>1, NatLessThanWellFounded, Zenon
<1>3. PICK x \in T : \A y \in T : ~ (<<y, x>> \in R)
  BY <1>2, WFMin
<1>4. \A y, z \in Nat : y < z => <<y, z>> \in R
  BY <1>1 DEF OpToRel
<1>5. ASSUME NEW y \in T PROVE x <= y
  <2>1. x \in Nat /\ y \in Nat /\ ~ (y < x)
    BY <1>3, <1>4
  <2> QED
    BY <2>1
<1> QED
  BY <1>5

\* Of a list of scores one is the greatest.
LEMMA GreatestScore ==
  ASSUME NEW n \in Nat, n > 0, NEW f \in [1..n -> Int]
  PROVE  \E w \in 1..n : \A v \in 1..n : f[v] <= f[w]
<1> DEFINE Has(m) == \E w \in 1..m : \A v \in 1..m : f[v] <= f[w]
           Without == {m \in 1..n : ~ Has(m)}
<1>1. SUFFICES ASSUME Without # {} PROVE FALSE
  <2>1. n \in 1..n
    OBVIOUS
  <2> QED
    BY <1>1, <2>1
<1>2. PICK m \in Without : \A k \in Without : m <= k
  <2>1. Without \subseteq Nat
    OBVIOUS
  <2> HIDE DEF Without
  <2> QED
    BY <1>1, <2>1, LeastNat
<1>3. m \in 1..n /\ ~ Has(m)
  BY <1>2
<1>4. \A v \in 1..n : f[v] \in Int
  OBVIOUS
<1>5. CASE m = 1
  <2>1. 1 \in 1..1 /\ \A v \in 1..1 : v = 1
    OBVIOUS
  <2>2. f[1] <= f[1]
    BY <1>3, <1>4, <1>5
  <2> QED
    BY <1>3, <1>5, <2>1, <2>2
<1>6. CASE m > 1
  <2>1. m - 1 \in 1..n /\ ~ (m <= m - 1)
    BY <1>3, <1>6
  <2>2. Has(m - 1)
    BY <1>2, <2>1
  <2>3. PICK w \in 1..(m - 1) : \A v \in 1..(m - 1) : f[v] <= f[w]
    BY <2>2
  <2>4. /\ w \in 1..m /\ m \in 1..m /\ f[w] \in Int /\ f[m] \in Int
        /\ \A v \in 1..m : v \in 1..(m - 1) \/ v = m
        /\ \A v \in 1..m : f[v] \in Int
    BY <1>3, <1>4, <1>6, SMT
  <2>5. CASE f[m] <= f[w]
    BY <1>3, <2>3, <2>4, <2>5
  <2>6. CASE ~ (f[m] <= f[w])
    <3>1. ASSUME NEW v \in 1..m PROVE f[v] <= f[m]
      BY <2>3, <2>4, <2>6, SMT
    <3> QED
      BY <1>3, <2>4, <3>1
  <2> QED
    BY <2>5, <2>6
<1> QED
  BY <1>3, <1>5, <1>6

\* Of the greatest scores of a list one is the first.
LEMMA FirstGreatest ==
  ASSUME NEW n \in Nat, n > 0, NEW f \in [1..n -> Int]
  PROVE  \E w \in 1..n : /\ \A v \in 1..n : f[v] <= f[w]
                         /\ \A v \in 1..(w - 1) : f[v] < f[w]
<1> DEFINE Tops == {w \in 1..n : \A v \in 1..n : f[v] <= f[w]}
<1>1. Tops # {} /\ Tops \subseteq Nat
  <2>1. \E w \in 1..n : \A v \in 1..n : f[v] <= f[w]
    BY GreatestScore
  <2> QED
    BY <2>1
<1>2. PICK w \in Tops : \A v \in Tops : w <= v
  <2> HIDE DEF Tops
  <2> QED
    BY <1>1, LeastNat
<1>3. w \in 1..n /\ \A v \in 1..n : f[v] <= f[w]
  BY <1>2
<1>4. ASSUME NEW v \in 1..(w - 1) PROVE f[v] < f[w]
  <2>1. v \in 1..n /\ ~ (w <= v) /\ \A u \in 1..n : f[u] \in Int
    BY <1>3
  <2>2. v \notin Tops
    BY <1>2, <2>1
  <2>3. PICK u \in 1..n : ~ (f[u] <= f[v])
    BY <2>1, <2>2
  <2>4. f[u] <= f[w] /\ f[u] \in Int /\ f[v] \in Int /\ f[w] \in Int
    BY <1>3, <2>1
  <2> QED
    BY <2>3, <2>4
<1> QED
  BY <1>3, <1>4

\* A list of k rows of nq columns, row by row.
Flattened(k, nq) == [m \in 1..(k * nq) |-> <<((m - 1) \div nq) + 1, ((m - 1) % nq) + 1>>]

\* In it the place of a row and a column holds that row and that column.
LEMMA Flat ==
  ASSUME NEW k \in Nat, NEW nq \in Nat, NEW w \in 1..k, NEW q \in 1..nq
  PROVE  Flattened(k, nq)[(w - 1) * nq + q] = <<w, q>>
<1>1. PICK a \in Nat : a = w - 1
  OBVIOUS
<1>2. PICK b \in Nat : b = q - 1
  OBVIOUS
<1>3. (a * nq + b) \div nq = a
  BY <1>2
<1>4. (a * nq + b) % nq = b
  BY <1>2
<1>5. a * nq \in Nat /\ a * nq + nq <= k * nq
  BY <1>1
<1>6. PICK i : i = (a * nq + b) + 1
  OBVIOUS
<1>7. i \in 1..(k * nq) /\ i - 1 = a * nq + b
  BY <1>1, <1>2, <1>5, <1>6
<1>8. (w - 1) * nq + q = i
  BY <1>1, <1>2, <1>5, <1>6
<1>9. a + 1 = w /\ b + 1 = q
  BY <1>1, <1>2
<1>10. ((i - 1) \div nq) + 1 = w /\ ((i - 1) % nq) + 1 = q
  BY <1>3, <1>4, <1>7, <1>9, Zenon
<1>11. Flattened(k, nq)[i] = <<w, q>>
  BY <1>7, <1>10, Zenon DEF Flattened
<1> QED
  BY <1>8, <1>11, Zenon

\* Where row_of looks for a row of a window, the question's row of that window is.
LEMMA RowOf ==
  ASSUME spans \in Seq([from : Nat, to : Nat]), job.used \in Seq(Nat),
         NEW w, w \in DOMAIN spans, NEW q, q \in DOMAIN job.used
  PROVE  row_of(w, q) = <<w, q>>
<1>0. /\ Len(spans) \in Nat /\ DOMAIN spans = 1..Len(spans)
      /\ Len(job.used) \in Nat /\ DOMAIN job.used = 1..Len(job.used)
  BY Elements
<1>1. PICK k : k = Len(spans)
  OBVIOUS
<1>2. PICK nq : nq = Len(job.used)
  OBVIOUS
<1>3. k \in Nat /\ nq \in Nat /\ w \in 1..k /\ q \in 1..nq
  BY <1>0, <1>1, <1>2, Zenon
<1>4. Flattened(k, nq)[(w - 1) * nq + q] = <<w, q>>
  BY <1>3, Flat, Zenon
<1>5. items = Flattened(k, nq)
  BY <1>1, <1>2, Zenon DEF items, Flattened
<1>6. row_of(w, q) = items[(w - 1) * nq + q]
  BY <1>2, Zenon DEF row_of
<1> QED
  BY <1>4, <1>5, <1>6, Zenon

\* The answer to a question that select_window picks, whatever the scores.
LEMMA Selected ==
  ASSUME spans \in Seq([from : Nat, to : Nat]), spans # << >>, job.used \in Seq(Nat),
         NEW scores \in [(DOMAIN spans) \X (DOMAIN job.used) -> Scores],
         NEW q \in DOMAIN job.used
  PROVE  /\ select_window(q, scores) \in DOMAIN spans
         /\ row_of(select_window(q, scores), q) = <<select_window(q, scores), q>>
         /\ \A v \in DOMAIN spans :
              scores[<<v, q>>] <= scores[<<select_window(q, scores), q>>]
         /\ \A v \in 1..(select_window(q, scores) - 1) :
              scores[<<v, q>>] < scores[<<select_window(q, scores), q>>]
<1>1. PICK k \in Nat : k > 0 /\ k = Len(spans) /\ DOMAIN spans = 1..k
  OBVIOUS
<1>2. \A w \in 1..k : row_of(w, q) = <<w, q>>
  BY <1>1, RowOf
<1>3. \A w \in 1..k : scores[<<w, q>>] \in Int
  <2> TAKE w \in 1..k
  <2>1. <<w, q>> \in (DOMAIN spans) \X (DOMAIN job.used)
    BY <1>1
  <2> QED
    BY <2>1, ScoresAssumption
<1>4. PICK f \in [1..k -> Int] : \A w \in 1..k : f[w] = scores[<<w, q>>]
  <2>1. [w \in 1..k |-> scores[<<w, q>>]] \in [1..k -> Int]
    BY <1>3
  <2> QED
    BY <2>1
<1> DEFINE First(w) ==
             /\ \A v \in DOMAIN spans : scores[row_of(v, q)] <= scores[row_of(w, q)]
             /\ \A v \in 1..(w - 1) : scores[row_of(v, q)] < scores[row_of(w, q)]
<1>5. ASSUME NEW w \in 1..k
      PROVE  \A v \in 1..(w - 1) : v \in 1..k
  OBVIOUS
<1>6. \E w \in DOMAIN spans : First(w)
  <2>1. PICK w \in 1..k : /\ \A v \in 1..k : f[v] <= f[w]
                          /\ \A v \in 1..(w - 1) : f[v] < f[w]
    BY <1>1, FirstGreatest
  <2>2. First(w)
    BY <1>1, <1>2, <1>4, <1>5, <2>1
  <2> QED
    BY <1>1, <2>2
<1>7. select_window(q, scores) = CHOOSE w \in DOMAIN spans : First(w)
  BY DEF select_window
<1>8. PICK w : w = select_window(q, scores)
  OBVIOUS
<1>9. w \in DOMAIN spans /\ First(w)
  <2> HIDE DEF First
  <2> QED
    BY <1>6, <1>7, <1>8
<1>10. /\ w \in 1..k /\ row_of(w, q) = <<w, q>>
       /\ \A v \in 1..k : scores[<<v, q>>] <= scores[<<w, q>>]
       /\ \A v \in 1..(w - 1) : scores[<<v, q>>] < scores[<<w, q>>]
  BY <1>1, <1>2, <1>5, <1>9
<1> QED
  BY <1>1, <1>8, <1>10

\* A plan is never empty: there is a window to answer from.
SomeWindow == pc = "planned" => spans # << >>

\* Both plans put at least one window down before they are done.
LEMMA SomeWindowKept == IInv /\ SomeWindow /\ [Next]_vars => SomeWindow'
<1> SUFFICES ASSUME IInv, SomeWindow, [Next]_vars PROVE SomeWindow'
  OBVIOUS
<1>1. CASE PlanWhole
  BY <1>1 DEF PlanWhole, SomeWindow
<1>2. CASE PlanTail \/ PlanShort
  <2>1. spans \in Seq([from : Nat, to : Nat])
    BY DEF IInv, Typed, TypeOK
  <2>2. spans' # << >>
    BY <1>2, <2>1 DEF PlanTail, PlanShort
  <2> QED
    BY <2>2 DEF SomeWindow
<1>3. CASE ~ PlanWhole /\ ~ PlanTail /\ ~ PlanShort
  <2>1. pc' # "planned" \/ UNCHANGED <<pc, spans>>
    BY <1>3 DEF Next, Budget, Measure, Clamp, Settle, Slide, Answer, Fail, Returned,
                vars
  <2> QED
    BY <2>1 DEF SomeWindow
<1> QED
  BY <1>1, <1>2, <1>3

\* What Answer reads is the first of the best windows of every question.
LEMMA AnswerBest == IInv /\ SomeWindow /\ Answer => BestWindow'
<1> SUFFICES ASSUME IInv, SomeWindow, Answer PROVE BestWindow'
  OBVIOUS
<1>1. /\ spans \in Seq([from : Nat, to : Nat]) /\ spans # << >>
      /\ job.used \in Seq(Nat) /\ spans' = spans
  BY JobParts DEF IInv, Typed, TypeOK, SomeWindow, Answer
<1>2. PICK scores \in [(DOMAIN spans) \X (DOMAIN job.used) -> Scores] :
        /\ stat' = scores
        /\ best' = [q \in DOMAIN job.used |->
                      LET w == select_window(q, scores)
                      IN [window |-> w, score |-> scores[row_of(w, q)]]]
  BY DEF Answer
<1>3. ASSUME NEW q \in DOMAIN job.used
      PROVE  /\ best'[q].score = scores[<<best'[q].window, q>>]
             /\ \A w \in DOMAIN spans : scores[<<w, q>>] <= best'[q].score
             /\ \A w \in 1..(best'[q].window - 1) : scores[<<w, q>>] < best'[q].score
  <2>1. PICK w : w = select_window(q, scores)
    OBVIOUS
  <2>2. /\ row_of(w, q) = <<w, q>>
        /\ \A v \in DOMAIN spans : scores[<<v, q>>] <= scores[<<w, q>>]
        /\ \A v \in 1..(w - 1) : scores[<<v, q>>] < scores[<<w, q>>]
    BY <1>1, <2>1, Selected
  <2>3. best'[q] = [window |-> w, score |-> scores[row_of(w, q)]]
    BY <1>2, <2>1
  <2> QED
    BY <2>2, <2>3
<1>4. DOMAIN best' = DOMAIN job.used
  BY <1>2
<1>5. stat' = scores /\ spans' = spans
  BY <1>1, <1>2
<1> QED
  BY <1>3, <1>4, <1>5, Zenon DEF BestWindow

-----------------------------------------------------------------------------
(* The theorems                                                            *)

\* The variables keep their types for every call: no usize subtraction of
\* score_long or predict_long goes below 0.
THEOREM TypeCorrect == Spec => []TypeOK
<1>1. IInv => TypeOK
  BY DEF IInv, Typed
<1> QED
  BY <1>1, Inductive, PTL

\* plan_windows and plan_laya_spans leave no token of the text out, whatever
\* window and stride the caller asks for.
THEOREM Coverage == Spec => []EveryTokenScored
<1>1. IInv => EveryTokenScored
  BY DEF IInv
<1> QED
  BY <1>1, Inductive, PTL

\* The windows come in order and none twice, so the scan ends.
THEOREM Progress == Spec => []Advances
<1>1. IInv => Advances
  BY DEF IInv
<1> QED
  BY <1>1, Inductive, PTL

\* Whatever the questions spend, each of their rows fits max_len: the room of
\* predict_long is the tightest question's.
THEOREM RowsAlwaysFit == Spec => []RowsFit
<1>1. IInv => RowsFit
  <2> SUFFICES ASSUME IInv, pc = "planned",
                      NEW i \in DOMAIN spans, NEW q \in DOMAIN job.used
               PROVE  /\ spans[i].from <= spans[i].to /\ spans[i].to <= job.n
                      /\ spans[i].to - spans[i].from > 0 =>
                           job.used[q] + (spans[i].to - spans[i].from) <= job.max_len
    BY DEF RowsFit
  <2>1. /\ spans[i].from <= spans[i].to /\ spans[i].to <= job.n
        /\ spans[i].to - spans[i].from <= size
        /\ job.used[q] + size <= job.max_len
    BY DEF IInv, Ahead, Fitting
  <2>2. /\ spans[i].from \in Nat /\ spans[i].to \in Nat /\ size \in Nat
        /\ job.used[q] \in Nat /\ job.max_len \in Nat
    <3>1. /\ job \in Jobs /\ spans \in Seq([from : Nat, to : Nat]) /\ size \in Nat
      BY DEF IInv, Typed, TypeOK
    <3> QED
      BY <3>1, JobParts, Ends, Elements
  <2> QED
    BY <2>1, <2>2, SMT
<1> QED
  BY <1>1, Inductive, PTL

\* predict_long refuses a stride exactly if it does not fit the window the caller
\* asked for: a narrower window takes the stride down with it, and changes no other.
THEOREM StrideFollows == Spec => []ConsistentStride
<1>1. Init => ConsistentStride
  BY DEF Init, ConsistentStride
<1>2. IInv /\ ConsistentStride /\ [Next]_vars => ConsistentStride'
  <2> SUFFICES ASSUME IInv, ConsistentStride, [Next]_vars PROVE ConsistentStride'
    OBVIOUS
  <2>1. CASE Budget
    BY <2>1 DEF IInv, Typed, Budget, Settle, ConsistentStride
  <2>2. CASE Clamp
    <3> DEFINE requested == Requested(job)
               window == Least(requested, room)
               stride == IF job.stride = {} THEN half(window) ELSE Given(job.stride)
               follows == window < requested /\ stride <= requested
               may == room > 0 /\ job.stride # {0} /\ (stride <= window \/ follows)
    <3>1. /\ pc' = IF may THEN "plan" ELSE "refused"
          /\ job' = job /\ room' = room
      BY <2>2, Zenon DEF Clamp, Settle
    <3>2. /\ job \in Jobs /\ room \in Nat /\ requested \in Nat /\ requested > 0
      BY RequestedPositive DEF IInv, Typed, TypeOK
    <3>3. ASSUME ~may, room # 0, job.stride # {0}
          PROVE  job.stride # {} /\ Given(job.stride) > requested
      <4>1. window \in Nat /\ window > 0 /\ window <= requested
        BY <3>2, <3>3, SMT DEF Least
      <4>2. ~(stride <= window) /\ ~follows
        BY <3>2, <3>3, SMT
      <4>3. job.stride # {}
        <5>1. half(window) <= window
          BY <4>1, HalfFits
        <5> QED
          BY <4>2, <5>1
      <4>4. stride = Given(job.stride) /\ stride \in Nat
        <5>1. job.stride \in SUBSET Nat
          BY <3>2, JobParts
        <5> QED
          BY <4>3, <5>1, GivenIsNat
      <4> HIDE DEF requested, window, stride
      <4>5. ~(window < requested) \/ ~(stride <= requested)
        BY <4>2
      <4> QED
        BY <3>2, <4>1, <4>2, <4>3, <4>4, <4>5, SMT
    <3>4. Requested(job)' = Requested(job)
      BY <3>1 DEF Requested
    <3>5. ASSUME may, job.stride # {}
          PROVE  /\ Given(job.stride) <= requested
                 /\ step' = Given(job.stride) \/ size' < Given(job.stride)
      <4>1. window \in Nat /\ window <= requested
        BY <3>2, SMT DEF Least
      <4>2. stride = Given(job.stride) /\ stride \in Nat
        <5>1. job.stride \in SUBSET Nat
          BY <3>2, JobParts
        <5> QED
          BY <3>5, <5>1, GivenIsNat
      <4>3. stride <= window \/ follows
        BY <3>5, Zenon
      <4>4. size' = window /\ step' = IF stride <= window THEN stride ELSE half(window)
        BY <2>2, <3>5, Zenon DEF Clamp, Settle
      <4> HIDE DEF requested, window, stride, may
      <4> QED
        BY <3>2, <4>1, <4>2, <4>3, <4>4, SMT
    <3> HIDE DEF may
    <3>6. CASE may
      BY <3>1, <3>4, <3>6, <3>5 DEF ConsistentStride
    <3>7. CASE ~may
      <4>1. size' = 0
        BY <2>2, <3>7, Zenon DEF Clamp, Settle, may
      <4> QED
        BY <3>1, <3>3, <3>4, <3>7, <4>1 DEF ConsistentStride
    <3> QED
      BY <3>6, <3>7
  <2>3. CASE ~Budget /\ ~Clamp
    <3>1. /\ pc' # "refused" \/ UNCHANGED <<pc, room>>
          /\ UNCHANGED <<job, size, step>>
      BY <2>3 DEF Next, Measure, PlanWhole, Slide, PlanTail, PlanShort, Answer, Fail,
                  Returned, vars
    <3> QED
      BY <3>1 DEF ConsistentStride, Requested
  <2> QED
    BY <2>1, <2>2, <2>3
<1> QED
  BY <1>1, <1>2, Inductive, PTL DEF Spec

\* However many windows and questions the one batch has, flat[w * nq + qi] is
\* the row of that window and question, and the answer to a question is the
\* first of its best rows.
THEOREM BestAnswers == Spec => []BestWindow
<1>1. Init => SomeWindow /\ BestWindow
  BY DEF Init, SomeWindow, BestWindow
<1>2. IInv /\ SomeWindow /\ BestWindow /\ [Next]_vars => BestWindow'
  <2> SUFFICES ASSUME IInv, SomeWindow, BestWindow, [Next]_vars PROVE BestWindow'
    OBVIOUS
  <2>1. CASE Answer
    BY <2>1, AnswerBest
  <2>2. CASE ~ Answer
    <3>1. pc' # "answered" \/ UNCHANGED <<pc, spans, stat, best>>
      BY <2>2 DEF Next, Budget, Measure, Clamp, Settle, PlanWhole, Slide, PlanTail,
                  PlanShort, Fail, Returned, vars
    <3> QED
      BY <3>1 DEF BestWindow
  <2> QED
    BY <2>1, <2>2
<1> QED
  BY <1>1, <1>2, SomeWindowKept, Inductive, PTL DEF Spec
=============================================================================
