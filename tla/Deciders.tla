------------------------------ MODULE Deciders ------------------------------
(***************************************************************************)
(* The life of one decider of any of the three families: it is opened from *)
(* explicit files, a Laya decider may be given a binning map, and it is    *)
(* asked questions call by call.  A call validates all its questions,      *)
(* builds all rows, runs the graph once and decodes.  How calls of several *)
(* threads share the session, and how the slots are cut into batches, is   *)
(* in Sessions; how files are fetched, in Acquire.                         *)
(*                                                                         *)
(* An optional value is a set of at most one element.  A raw number of a   *)
(* JSON file is an optional integer, {} being anything that is no number.  *)
(***************************************************************************)
EXTENDS Rows

CONSTANTS
  Checkpoints,    \* the files opened, with the arguments they are opened with
  Maps,           \* the binning maps offered
  Calls,          \* Calls[family]: the calls made, sequences of [state, question]
  Peaks           \* which options a graph may favour: sets of their numbers

Families == {"gliclass", "laya", "slots"}

ASSUME CallsAssumption ==
  /\ \A c \in Checkpoints : c.family \in Families
  /\ DOMAIN Calls = Families
  /\ \A p \in Peaks : p \subseteq Nat

\* What is opened, loaded and asked has the types the source gives it.
ASSUME ShapesAssumption ==
  /\ \A f \in Families : Calls[f] \subseteq Seq([state: Text, question: Tuples])
  /\ \A c \in Checkpoints :
       /\ c.max_length \subseteq Nat /\ \A a, b \in c.max_length : a = b
       /\ c.family = "laya" =>
            /\ c.max_len \in Nat /\ c.head_max_len \in Nat
            /\ \A b \in DOMAIN c.by_options : c.by_options[b] \subseteq Int
       /\ c.family = "slots" =>
            /\ {c.max_ctx, c.max_options, c.max_levels, c.label_ids} \subseteq Nat
            /\ c.row_temp \subseteq Int /\ \A a, b \in c.row_temp : a = b
       /\ c.family = "gliclass" => c.prompt_first \in BOOLEAN
       /\ c.family # "gliclass" => c.temperature \in Seq(SUBSET Int)
  /\ \A raw \in Maps : \A b \in DOMAIN raw :
       raw[b].bins \subseteq Int /\ raw[b].values \in Seq(SUBSET Int)

VARIABLES
  decider,        \* {the decider}, or {} before it is open
  checkpoint,     \* {what it was opened from}
  binning,        \* the binning map installed, empty when there is none
  pc,             \* where the decider stands
  call,           \* the questions of the call under way
  rows,           \* the rows built, each with the question it is for
  plans,          \* plans[i]: the rows of question i
  logits,         \* logits[r]: what the graph said of row r, column by column
  answers         \* answers[i]: the answer to question i

callVars == <<call, rows, plans, logits, answers>>
decidersVars == <<decider, checkpoint, binning, pc, callVars>>

LAYA_ABSOLUTE_MAX == 1024
DECIDE_DEFAULT_MAX == 512
DECIDE_ABSOLUTE_MAX == 4096
NoMap == << >>

-----------------------------------------------------------------------------
(* Opening                                                                 *)

\* check_laya_limit_for, check_decider2b_limit_for, and the check open_files of
\* Decider makes; {} when the limit asked for is refused.
Limit(max_length, default, ceiling) ==
  IF max_length = {} THEN {default} ELSE max_length \cap (1..ceiling)

\* Mutant of clamp: nothing is clamped but what is no number.
clamp_not(raw, low) == IF raw = {} THEN 100 ELSE CHOOSE t \in raw : TRUE

\* clamp_temperature and clamp_decider2b_temperature
clamp(raw, low) ==
  IF raw = {} THEN 100 ELSE Most(low, Least(500, CHOOSE t \in raw : TRUE))

\* The temperatures of a checkpoint, and the list of those the clamp changed.
Temperatures(triple, by_options, low) ==
  IF Len(triple) # 3 THEN {}
  ELSE {[triple |-> [i \in 1..3 |-> clamp(triple[i], low)],
         by_options |-> [b \in DOMAIN by_options |-> clamp(by_options[b], low)],
         rejections |-> {<<i, "temperature">> : i \in {i \in 1..3 : triple[i] # {clamp(triple[i], low)}}}
                          \cup {b \in DOMAIN by_options : by_options[b] # {clamp(by_options[b], low)}}]}

OpenGliclass(c) ==
  {[family |-> "gliclass", max_len |-> n, prompt_first |-> c.prompt_first] :
     n \in Limit(c.max_length, DECIDE_DEFAULT_MAX, DECIDE_ABSOLUTE_MAX)}

OpenLaya(c) ==
  LET ceiling == Least(c.max_len, LAYA_ABSOLUTE_MAX)
  IN IF c.max_len = 0 \/ c.head_max_len = 0 \/ ~ (c.option_layout \subseteq {"sequential"}) THEN {}
     ELSE {[family |-> "laya", max_len |-> n, head_max_len |-> c.head_max_len, temps |-> t] :
             n \in Limit(c.max_length, ceiling, ceiling),
             t \in Temperatures(c.temperature, c.by_options, 50)}

\* Mutant of Decider2BConfig: the labels are not counted.
Decider2BConfig_short(c) ==
  IF c.layout # "decider-slots-v1" \/ 0 \in {c.max_ctx, c.max_options, c.max_levels} THEN {}
  ELSE {[row_temp |-> r, temps |-> t] :
          r \in {r \in c.row_temp : r > 0}, t \in Temperatures(c.temperature, NoMap, 5)}

\* Mutant of Decider2BConfig: any number is a row temperature.
Decider2BConfig_anyRow(c) ==
  IF \/ c.layout # "decider-slots-v1"
     \/ 0 \in {c.max_ctx, c.max_options, c.max_levels}
     \/ c.label_ids < c.max_options
    THEN {}
    ELSE {[row_temp |-> r, temps |-> t] :
            r \in c.row_temp, t \in Temperatures(c.temperature, NoMap, 5)}

\* What Decider2BConfig::load takes: there is a label for every option, and the
\* temperature of the isolated rows is positive (it is not clamped).
Decider2BConfig(c) ==
  IF \/ c.layout # "decider-slots-v1"
     \/ 0 \in {c.max_ctx, c.max_options, c.max_levels}
     \/ c.label_ids < c.max_options
    THEN {}
    ELSE {[row_temp |-> r, temps |-> t] :
            r \in {r \in c.row_temp : r > 0}, t \in Temperatures(c.temperature, NoMap, 5)}

OpenSlots(c) ==
  {[family |-> "slots", max_len |-> n, max_options |-> c.max_options,
    max_levels |-> c.max_levels, isolated_levels |-> c.isolated_levels,
    label_ids |-> c.label_ids, row_temp |-> cfg.row_temp, temps |-> cfg.temps] :
     n \in Limit(c.max_length, c.max_ctx, c.max_ctx), cfg \in Decider2BConfig(c)}

OpenFiles ==
  /\ decider = {}
  /\ \E c \in Checkpoints :
       /\ decider' = CASE c.family = "gliclass" -> OpenGliclass(c)
                       [] c.family = "laya"     -> OpenLaya(c)
                       [] c.family = "slots"    -> OpenSlots(c)
       /\ checkpoint' = IF decider' = {} THEN {} ELSE {c}
       /\ pc' = IF decider' = {} THEN "closed" ELSE "open"
  /\ UNCHANGED <<binning, callVars>>

The == CHOOSE d \in decider : TRUE

\* Mutant of BinningMap: any number is a confidence.
BinningMap_wide(raw) ==
  IF \A b \in DOMAIN raw :
       /\ \A n \in raw[b].bins : n >= 1 /\ Len(raw[b].values) = n
       /\ raw[b].bins # {}
       /\ {} \notin ToSet(raw[b].values)
    THEN {[b \in DOMAIN raw |->
             [bins |-> CHOOSE n \in raw[b].bins : TRUE,
              values |-> [i \in DOMAIN raw[b].values |-> CHOOSE v \in raw[b].values[i] : TRUE]]]}
    ELSE {}

\* BinningMap::parse: one entry that is not well formed spoils the map.
BinningMap(raw) ==
  IF \A b \in DOMAIN raw :
       /\ \A n \in raw[b].bins : n >= 1 /\ Len(raw[b].values) = n
       /\ raw[b].bins # {}
       /\ \A v \in ToSet(raw[b].values) : v # {} /\ v \subseteq 0..100
    THEN {[b \in DOMAIN raw |->
             [bins |-> CHOOSE n \in raw[b].bins : TRUE,
              values |-> [i \in DOMAIN raw[b].values |-> CHOOSE v \in raw[b].values[i] : TRUE]]]}
    ELSE {}

\* The call before is over: its answers are the caller's.
Forgotten ==
  call' = << >> /\ rows' = << >> /\ plans' = << >> /\ logits' = << >> /\ answers' = << >>

\* load_binning_map borrows the decider exclusively: no call is under way.  A map
\* that is refused leaves the old one in place.
LoadBinningMap ==
  /\ decider # {} /\ The.family = "laya"
  /\ pc \in {"open", "refused", "failed", "answered"}
  /\ \E raw \in Maps :
       LET map == BinningMap(raw)
       IN binning' = IF map \subseteq {NoMap} THEN binning ELSE CHOOSE m \in map : TRUE
  /\ pc' = "open" /\ Forgotten
  /\ UNCHANGED <<decider, checkpoint>>

-----------------------------------------------------------------------------
(* A call                                                                  *)

validate(d, q) ==
  CASE d.family = "gliclass" -> validate_question(q)
    [] d.family = "laya"     -> validate_laya_question(q)
    [] d.family = "slots"    -> validate_decider2b_question(q, d.max_options, d.max_levels)

\* The bindings parse every question, and the decider validates every one, before
\* any text is encoded.
Decide ==
  /\ decider # {}
  /\ pc \in {"open", "refused", "failed", "answered"}
  /\ \E c \in Calls[The.family] :
       LET parsed == [i \in DOMAIN c |-> parse(c[i].question)]
           good == \A i \in DOMAIN c : \E q \in parsed[i] : validate(The, q)
       IN /\ pc' = IF good THEN "build" ELSE "refused"
          /\ call' = IF good THEN [i \in DOMAIN c |->
                         [state |-> c[i].state, q |-> CHOOSE q \in parsed[i] : TRUE]]
                     ELSE << >>
  /\ rows' = << >> /\ plans' = << >> /\ logits' = << >> /\ answers' = << >>
  /\ UNCHANGED <<decider, checkpoint, binning>>

RowsOf(d, q, state) ==
  CASE d.family = "gliclass" -> GliclassRow(q, state, d.max_len, d.prompt_first)
    [] d.family = "laya"     -> encode_row(q, state, d.max_len, d.head_max_len)
    [] d.family = "slots"    -> encode_pair(q, state, d)

\* Mutant of Rebased: a plan keeps the indices it was made with.
Rebased_not(base, n) == [r \in 1..n |-> r]

\* Mutant of Rebased: the rows are counted after the new ones are in.
Rebased_late(base, n) == [r \in 1..n |-> base + n + r]

\* The rows of a question, as indices of all rows.
Rebased(base, n) == [r \in 1..n |-> base + r]

\* One row, or one per level; a question that has none fails the call.
BuildRows ==
  /\ pc = "build" /\ Len(plans) < Len(call)
  /\ LET i == Len(plans) + 1
         built == RowsOf(The, call[i].q, call[i].state)
     IN IF built = << >> THEN pc' = "failed" /\ UNCHANGED <<rows, plans>>
        ELSE /\ rows' = rows \o [r \in DOMAIN built |-> [item |-> i, row |-> built[r]]]
             /\ plans' = Append(plans, Rebased(Len(rows), Len(built)))
             /\ UNCHANGED pc
  /\ UNCHANGED <<decider, checkpoint, binning, call, logits, answers>>

\* The tokens of a row that a graph scores, wherever they come from: GLiClass
\* looks for its label token, the slots for their letters.
Scored(d, ids) ==
  LET token == IF d.family = "gliclass" THEN "label" ELSE "letter"
  IN Only(ids, {t \in ToSet(ids) : t.id = token})

Widest(lens) == Max({0} \cup ToSet(lens))

\* Mutant of Columns: no more columns than markers.
Columns_exact(d, rs) ==
  Widest([r \in DOMAIN rs |->
            IF d.family = "laya" THEN Len(rs[r].row.markers) ELSE Len(Scored(d, rs[r].row.ids))])

\* The columns of a batch.  The head of Laya takes the best two of at least two.
Columns(d, rs) ==
  Most(IF d.family = "laya" THEN 2 ELSE 0,
       Widest([r \in DOMAIN rs |->
         IF d.family = "laya" THEN Len(rs[r].row.markers) ELSE Len(Scored(d, rs[r].row.ids))]))

\* What the graph says in column c of a row: the token it is about, and how likely
\* it finds it.  Laya's graph is told the places, the other two find the tokens
\* themselves; columns past those are padding.
Cell(d, r, c, peaks) ==
  LET ids == r.row.ids
      seen == IF d.family # "laya" THEN Scored(d, ids)
              ELSE [m \in DOMAIN r.row.markers |-> ids[r.row.markers[m]]]
      of == IF c \in DOMAIN seen THEN seen[c].of ELSE <<"padding", 0>>
  IN [item |-> r.item, of |-> of, over |-> {},
      weight |-> IF of[1] = "marker" /\ of[2] \in peaks THEN 3 ELSE 1]

Graph(d, rs, peaks) ==
  [r \in DOMAIN rs |-> [c \in 1..Columns(d, rs) |-> Cell(d, rs[r], c, peaks)]]

\* One run for all rows, or a run per batch of them: a row answers for itself.
\* Laya's graph fails on a single column, and may on no row at all.
Run ==
  /\ pc = "build" /\ Len(plans) = Len(call)
  /\ \/ /\ The.family # "laya" \/ rows = << >> \/ Columns(The, rows) >= 2
        /\ \E peaks \in Peaks : logits' = Graph(The, rows, peaks)
        /\ pc' = "decode"
     \/ /\ The.family = "laya" /\ (rows = << >> \/ Columns(The, rows) < 2)
        /\ pc' = "failed" /\ UNCHANGED logits
  /\ UNCHANGED <<decider, checkpoint, binning, call, rows, plans, answers>>

OptionCount(q) == IF q.kind = "noul" THEN 2 ELSE Len(q.options)

\* Mutant of option_logits: yes and no of a level are swapped.
option_logits_swapped(outs, plan, k, row_temp) ==
  IF Len(plan) = 1 THEN Take(outs[plan[1]], k)
  ELSE [o \in 1..k |-> [outs[plan[o]][1] EXCEPT !.over = {row_temp}]]

\* Mutant of option_logits: what is read of a row is not divided.
option_logits_undivided(outs, plan, k, row_temp) ==
  IF Len(plan) = 1 THEN Take(outs[plan[1]], k) ELSE [o \in 1..k |-> outs[plan[o]][2]]

\* The scores of a question: the first k of its row, or the yes of each of its
\* rows, over the temperature of the isolated rows.
option_logits(outs, plan, k, row_temp) ==
  IF Len(plan) = 1 THEN Take(outs[plan[1]], k)
  ELSE [o \in 1..k |-> [outs[plan[o]][2] EXCEPT !.over = {row_temp}]]

\* The scores of a question as they are decoded: the other two families have one
\* row for each question.
Logits(d, outs, plan, k) ==
  IF d.family = "slots" THEN option_logits(outs, plan, k, d.row_temp)
  ELSE Take(outs[plan[1]], k)

Decoded(d, outs, plan, q) ==
  LET p == Logits(d, outs, plan, OptionCount(q))
  IN CASE d.family = "gliclass" -> decode_gliclass_row(p)
       [] d.family = "laya"     -> decode_laya_row(p, q, d.temps, binning)
       [] d.family = "slots"    -> decode_decider2b_row(p, q, d.temps)

Decode ==
  /\ pc = "decode"
  /\ answers' = [i \in DOMAIN call |-> Decoded(The, logits, plans[i], call[i].q)]
  /\ pc' = "answered"
  /\ UNCHANGED <<decider, checkpoint, binning, call, rows, plans, logits>>

DecidersInit ==
  /\ decider = {} /\ checkpoint = {} /\ binning = NoMap /\ pc = "closed"
  /\ call = << >> /\ rows = << >> /\ plans = << >> /\ logits = << >> /\ answers = << >>

DecidersNext == OpenFiles \/ LoadBinningMap \/ Decide \/ BuildRows \/ Run \/ Decode
DecidersSpec == DecidersInit /\ [][DecidersNext]_decidersVars

-----------------------------------------------------------------------------
(* Properties                                                              *)

\* The variables keep their shape: the rows planned for are there.
DecidersTypeOK ==
  /\ Cardinality(decider) <= 1 /\ Cardinality(checkpoint) = Cardinality(decider)
  /\ pc \in {"closed", "open", "refused", "build", "failed", "decode", "answered"}
  /\ pc = "closed" <=> decider = {}
  /\ Len(plans) <= Len(call)
  /\ \A i \in DOMAIN plans : plans[i] # << >> /\ ToSet(plans[i]) \subseteq DOMAIN rows
  /\ pc \in {"decode", "answered"} =>
       Len(plans) = Len(call) /\ DOMAIN logits = DOMAIN rows
  /\ pc = "answered" => DOMAIN answers = DOMAIN call

RowsHeld == {rows[r] : r \in DOMAIN rows}
QuestionOf(r) == call[r.item].q
Count(r, of) == Cardinality({p \in DOMAIN r.row.ids : r.row.ids[p].of = of})
StateLen(r) ==
  Len(IF The.family = "laya" THEN scrub(call[r.item].state) ELSE call[r.item].state)

\* The mask tokens of a row of Laya are its markers and no others, whatever the
\* caller's texts hold, and each stands before the option its slot is for.
MarkersAreMasks ==
  decider # {} /\ The.family = "laya" =>
    \A r \in RowsHeld :
      /\ {p \in DOMAIN r.row.ids : r.row.ids[p].id = "mask"} = ToSet(r.row.markers)
      /\ Len(r.row.markers) = OptionCount(QuestionOf(r))
      /\ \A s \in DOMAIN r.row.markers :
           r.row.ids[r.row.markers[s]].of =
             <<"marker", ShownOrder(QuestionOf(r), OptionCount(QuestionOf(r)))[s] + 1>>

\* Only what does not fit is cut from a state: a row that lacks some of it fills
\* the window to the last token.  A row that has any of it is closed by a SEP.
\* Of a decider of slots this holds of the context, and the question comes on top.
WindowUsed ==
  \A r \in RowsHeld :
    LET ids == r.row.ids
        kept == Count(r, <<"state", 0>>)
        filled == IF The.family = "slots" THEN kept + 1 ELSE Len(ids)
    IN /\ filled <= The.max_len
       /\ kept < StateLen(r) => filled = The.max_len
       /\ The.family # "slots" /\ kept > 0 => ids[Len(ids)] = SEP[1]

\* What a row keeps of its question.  GLiClass and the slots show it whole.  Laya
\* keeps eight tokens of "<kind> question: <instructions>", which is five of the
\* instructions at best, and three of every option but the last, when there are so
\* many.
Kept(r, o, text) == Count(r, <<"option", o>>) >= Len(text)
QuestionWhole ==
  \A r \in RowsHeld :
    LET q == QuestionOf(r)
        asked == Count(r, <<"question", 0>>)
        n == OptionCount(q)
    IN CASE The.family = "gliclass" ->
              /\ asked = Len(q.instructions)
              /\ \A o \in 1..n : Kept(r, o, q.options[o].text)
         [] The.family = "slots" ->
              /\ asked = Len(q.instructions)
              /\ \/ \A o \in 1..n : Kept(r, o, render_decider_options(q)[o])
                 \/ /\ q.kind = "score" /\ The.isolated_levels
                    /\ \E o \in 1..n :
                         /\ Count(r, <<"marker", o>>) = 1
                         /\ Kept(r, o, strip_level_number(q.options[o].text))
         [] The.family = "laya" ->
              /\ asked >= Least(Less(8, HeadTokens[q.kind]), Len(scrub(q.instructions)))
              /\ \A o \in 1..n :
                   \/ o = ShownOrder(q, n)[n] + 1
                   \/ Kept(r, o, Take(scrub(render_laya_options(q)[o]), 3))

\* Every probability was read at that option of that question, whatever else was
\* in the call and in whatever order the options were shown.  GLiClass finds its
\* options by itself, so no option may hold its label token, and no state that
\* comes before the options.
FindsItsOptions(i) ==
  The.family = "gliclass" =>
    /\ \A o \in DOMAIN call[i].q.options : "label" \notin ToSet(call[i].q.options[o].text)
    /\ The.prompt_first \/ "label" \notin ToSet(call[i].state)
OwnLogit ==
  pc = "answered" =>
    \A i \in DOMAIN call : FindsItsOptions(i) =>
      LET p == answers[i].probabilities
      IN /\ Len(p) = OptionCount(call[i].q)
         /\ \A o \in DOMAIN p : p[o].item = i /\ p[o].of = <<"marker", o>>

\* A question is answered as it would be in a call of its own: with the same
\* probabilities, at the same temperature, with the same confidence.
Alone(i, peaks) ==
  LET built == RowsOf(The, call[i].q, call[i].state)
      rs == [r \in DOMAIN built |-> [item |-> i, row |-> built[r]]]
  IN Decoded(The, Graph(The, rs, peaks), Rebased(0, Len(built)), call[i].q)
AloneAsInBatch ==
  pc = "answered" =>
    \E peaks \in Peaks :
      /\ logits = Graph(The, rows, peaks)
      /\ \A i \in DOMAIN call : answers[i] = Alone(i, peaks)

\* Whatever map was loaded, a confidence stays within [0, 1].
ConfidenceInRange ==
  \A i \in DOMAIN answers : answers[i].answer_confidence \in 0..100

\* The calibration temperature of an answer is within the usable range, and where
\* it is not the checkpoint's own number the rejections say so.  The levels of an
\* isolated score, and nothing else, are divided before it by the row temperature
\* of the checkpoint, which is positive, and taken as it is however large.
TemperatureAccounted ==
  decider # {} /\ The.family # "gliclass" =>
    \A i \in DOMAIN answers : \A c \in checkpoint :
      LET t == answers[i].temperature
          qtype == qtype_of(call[i].q)
          b == temp_bucket(qtype, OptionCount(call[i].q))
          fitted == The.family = "laya" /\ b \in DOMAIN c.by_options
      IN /\ t \in (IF The.family = "laya" THEN 50 ELSE 5)..500
         /\ \/ (IF fitted THEN c.by_options[b] ELSE c.temperature[qtype]) = {t}
            \/ (IF fitted THEN b ELSE <<qtype, "temperature">>) \in The.temps.rejections
         /\ \A o \in DOMAIN answers[i].probabilities :
              LET over == answers[i].probabilities[o].over
              IN IF The.family = "slots" /\ call[i].q.kind = "score" /\ c.isolated_levels
                   THEN over = c.row_temp /\ \E r \in over : r > 0
                   ELSE over = {}

\* A call whose questions were taken fails only where the question alone is too
\* large for the window; and, of the slots, on a listed score of more levels than
\* there are labels.  Laya's questions take at most max(head_max_len, 4n + 8)
\* tokens and three specials.
FailsForRoom ==
  pc = "failed" /\ call # << >> =>
    /\ Len(plans) < Len(call)
    /\ LET q == call[Len(plans) + 1].q
       IN CASE The.family = "gliclass" -> Len(label_text(q)) + 2 >= The.max_len
            [] The.family = "laya" ->
                 Most(The.head_max_len, 4 * OptionCount(q) + 8) + 3 > The.max_len
            [] The.family = "slots" ->
                 q.kind = "score" /\ ~The.isolated_levels /\ Len(q.options) > The.label_ids
=============================================================================
