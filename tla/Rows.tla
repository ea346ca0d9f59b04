-------------------------------- MODULE Rows --------------------------------
(***************************************************************************)
(* What the three deciders feed their graphs and read back: the rows of    *)
(* tokens Decider (GLiClass), LayaDecider and Decider2B (slots) build of a *)
(* question and a state, the places an option is scored at, and the answer *)
(* decoded from the scores.                                                *)
(*                                                                         *)
(* A text is the sequence of tokens its tokenizer makes of it, by kind:    *)
(* "word", the model's own "mask" token, GLiClass's "label" token, or the  *)
(* number "num" that may start a level (Kinds).  A token of a row keeps    *)
(* its kind as id, and its origin in "of": <<part, option>>.               *)
(* Temperatures, scores and confidences are in hundredths.                 *)
(***************************************************************************)
EXTENDS Integers, Sequences, FiniteSets, SequencesExt

CONSTANT
  HeadTokens      \* HeadTokens[kind]: how many tokens Laya's "<kind> question: " is

\* A word, the word "question" and a colon are three tokens at the least.
ASSUME HeadTokensAssumption ==
  \A kind \in {"choice", "score", "noul"} : HeadTokens[kind] \in Nat \ 0..2

Kinds == {"word", "mask", "label", "num"}
Text == Seq(Kinds)

Option == [label: STRING, text: Text, description: Text]

\* A question as a caller hands it to the bindings.
Tuples ==
  [kind: STRING, instructions: Text, options: Seq(Option), order: SUBSET Seq(Int),
   true_criterion: Text, false_criterion: SUBSET Text]

Least(a, b) == IF a <= b THEN a ELSE b
Most(a, b) == IF a <= b THEN b ELSE a

\* usize::saturating_sub
Less(a, b) == IF b <= a THEN a - b ELSE 0

Take(s, n) == SubSeq(s, 1, Least(n, Len(s)))

Total(lens) ==
  LET sum[n \in 0..Len(lens)] == IF n = 0 THEN 0 ELSE sum[n - 1] + lens[n]
  IN sum[Len(lens)]

\* The elements of s that are in K, in their order.
Only(s, K) ==
  LET only[n \in 0..Len(s)] ==
        IF n = 0 THEN << >>
        ELSE IF s[n] \in K THEN Append(only[n - 1], s[n]) ELSE only[n - 1]
  IN only[Len(s)]

Encode(text, of) == [j \in DOMAIN text |-> [id |-> text[j], of |-> of]]
Frame(ids) == Encode(ids, <<"frame", 0>>)
CLS == Frame(<<"cls">>)
SEP == Frame(<<"sep">>)

\* The token at which an option is scored.
Marker(id, option) == <<[id |-> id, of |-> <<"marker", option>>]>>

-----------------------------------------------------------------------------
(* Questions                                                               *)

\* The bindings: an option_order that is no list of indices is taken for none,
\* a false criterion that is no string for the empty one.
parse(t) ==
  IF t.kind \notin {"choice", "score", "noul"} THEN {}
  ELSE {[kind |-> t.kind, instructions |-> t.instructions, options |-> t.options,
         option_order |-> {o \in t.order : t.kind = "choice" /\ ToSet(o) \subseteq Nat},
         true_criterion |-> t.true_criterion,
         false_criterion |-> IF t.false_criterion = {} THEN << >>
                             ELSE CHOOSE c \in t.false_criterion : TRUE]}

Labels(q) == {q.options[o].label : o \in DOMAIN q.options}
Distinct(q) == Cardinality(Labels(q)) = Len(q.options)

\* decide_many of Decider refuses what its model has no head for.
validate_question(q) ==
  /\ q.kind # "noul"
  /\ q.options # << >>
  /\ \A o \in DOMAIN q.options : q.options[o].text # << >>

validate_laya_question(q) ==
  /\ q.instructions # << >>
  /\ q.kind # "noul" => Len(q.options) \in 1..256
  /\ q.kind = "choice" =>
       /\ Distinct(q)
       /\ \A order \in q.option_order :
            Len(order) = Len(q.options) /\ ToSet(order) = 0..(Len(q.options) - 1)

validate_decider2b_question(q, max_options, max_levels) ==
  /\ q.instructions # << >>
  /\ q.kind = "choice" => Len(q.options) \in 2..max_options /\ Distinct(q)
  /\ q.kind = "score" => Len(q.options) \in 2..max_levels

Described(option) == option.text \o option.description

\* A side of a noul: a stock text, or one that carries the caller's.
Side(criterion) == <<"word">> \o criterion

-----------------------------------------------------------------------------
(* GLiClass: the options are spliced into the text                         *)

label_text(q) ==
  FlattenSeq([o \in DOMAIN q.options |->
                Marker("label", o) \o Encode(q.options[o].text, <<"option", o>>)])
    \o SEP \o Encode(q.instructions, <<"question", 0>>)

\* Mutant of truncate_state_to: the two specials are not counted.
truncate_state_to_free(state_len, label_len, cap) ==
  IF label_len < cap THEN {Least(cap - label_len, state_len)} ELSE {}

\* The tokens of the state that fit; {} when the options leave none.
truncate_state_to(state_len, label_len, cap) ==
  IF label_len + 2 < cap THEN {Least(cap - (label_len + 2), state_len)} ELSE {}

\* The row, or << >> when there is no room for the state.
GliclassRow(q, state, max_len, prompt_first) ==
  LET labels == label_text(q)
      keep == truncate_state_to(Len(state), Len(labels), max_len)
      kept == Take(Encode(state, <<"state", 0>>), CHOOSE k \in keep : TRUE)
  IN IF keep = {} THEN << >>
     ELSE <<[ids |-> CLS \o (IF prompt_first THEN labels \o kept ELSE kept \o labels) \o SEP,
             markers |-> << >>]>>

-----------------------------------------------------------------------------
(* Laya: the options stand behind markers                                  *)

\* Mutant of scrub: the text goes in as it is.
scrub_not(text) == text

\* A mask token of the caller's is blanked.
scrub(text) == Only(text, Kinds \ {"mask"})

render_laya_options(q) ==
  CASE q.kind = "choice" -> [o \in DOMAIN q.options |-> Described(q.options[o])]
    [] q.kind = "score"  -> [o \in DOMAIN q.options |-> <<"word", "num">> \o q.options[o].text]
    [] q.kind = "noul"   -> <<Side(<<"word">>), Side(q.true_criterion)>>

\* The slots in the order they are shown, as indices of options.
ShownOrder(q, n) ==
  IF q.option_order # {} THEN CHOOSE order \in q.option_order : TRUE
  ELSE [s \in 1..n |-> s - 1]

\* Mutant of truncate_options_to_budget: an option may be cut to nothing.
truncate_options_to_budget_unfloored(lens, head_max_len) ==
  LET per == Less(head_max_len, 16) \div Most(1, Len(lens))
      capped == [s \in DOMAIN lens |-> Least(lens[s], per)]
  IN IF Less(head_max_len, Total(lens)) >= 16
       THEN [kept |-> lens, budget |-> Less(head_max_len, Total(lens))]
       ELSE [kept |-> capped, budget |-> Less(head_max_len, Total(capped))]

\* Options that leave the instructions fewer than 16 tokens are cut down, to no
\* fewer than 4 each.
truncate_options_to_budget(lens, head_max_len) ==
  LET per == Most(4, Less(head_max_len, 16) \div Most(1, Len(lens)))
      capped == [s \in DOMAIN lens |-> Least(lens[s], per)]
  IN IF Less(head_max_len, Total(lens)) >= 16
       THEN [kept |-> lens, budget |-> Less(head_max_len, Total(lens))]
       ELSE [kept |-> capped, budget |-> Less(head_max_len, Total(capped))]

\* An option as it is shown: its marker, and at most 48 tokens of it.
ShownOption(q, o) ==
  Marker("mask", o) \o Encode(Take(scrub(render_laya_options(q)[o]), 48), <<"option", o>>)

build_laya_head(q, head_max_len) ==
  LET order == ShownOrder(q, Len(render_laya_options(q)))
      shown == [s \in DOMAIN order |-> ShownOption(q, order[s] + 1)]
      cut == truncate_options_to_budget([s \in DOMAIN shown |-> Len(shown[s])], head_max_len)
      text == Frame([j \in 1..HeadTokens[q.kind] |-> "word"])
                \o Encode(scrub(q.instructions), <<"question", 0>>)
      ahead == CLS \o Take(text, Most(8, cut.budget)) \o SEP
  IN [ids |-> ahead \o FlattenSeq([s \in DOMAIN shown |-> Take(shown[s], cut.kept[s])]) \o SEP,
      markers |-> [s \in DOMAIN shown |->
                     Len(ahead) + Total(SubSeq(cut.kept, 1, s - 1)) + 1]]

\* Mutant of build_laya_sequence: the state may take the place of the last SEP.
build_laya_sequence_open(head, state, max_len) ==
  LET ids == Take(head.ids \o Take(state, Less(max_len, Len(head.ids))) \o SEP, max_len)
  IN IF \E s \in DOMAIN head.markers : head.markers[s] > max_len THEN << >>
     ELSE <<[ids |-> ids, markers |-> head.markers]>>

\* The row, or << >> when a marker is lost.
build_laya_sequence(head, state, max_len) ==
  LET ids == Take(head.ids \o Take(state, Less(max_len, Len(head.ids) + 1)) \o SEP, max_len)
  IN IF \E s \in DOMAIN head.markers : head.markers[s] > max_len THEN << >>
     ELSE <<[ids |-> ids, markers |-> head.markers]>>

encode_row(q, state, max_len, head_max_len) ==
  build_laya_sequence(build_laya_head(q, head_max_len),
                      Encode(scrub(state), <<"state", 0>>), max_len)

-----------------------------------------------------------------------------
(* Slots: the options are lettered                                         *)

strip_level_number(text) ==
  IF text # << >> /\ text[1] = "num" THEN Tail(text) ELSE text

render_decider_options(q) ==
  CASE q.kind = "choice" -> [o \in DOMAIN q.options |-> Described(q.options[o])]
    [] q.kind = "score"  -> [o \in DOMAIN q.options |-> <<"num">> \o q.options[o].text]
    [] q.kind = "noul"   -> <<Side(q.false_criterion), Side(q.true_criterion)>>

\* Ten options are lettered in the text; more take one label token each, and
\* there may be too few of those.  << >> is that failure.
build_piece(question, options, label_ids) ==
  LET one(o) == Frame(<<"word">>) \o options[o].label \o Frame(<<"word">>) \o options[o].text
  IN IF Len(options) > 10 /\ Len(options) > label_ids THEN << >>
     ELSE Frame(<<"word">>) \o question \o Frame(<<"word">>)
            \o FlattenSeq([o \in DOMAIN options |-> one(o)]) \o Frame(<<"slot">>)

\* A row of its own for a level: does the proposed answer fit?
build_isolated_row(ctx, q, o, label_ids) ==
  ctx \o build_piece(
    Encode(q.instructions, <<"question", 0>>)
      \o Encode(strip_level_number(q.options[o].text), <<"option", o>>),
    <<[label |-> Encode(<<"letter">>, <<"no", o>>), text |-> Frame(<<"word">>)],
      [label |-> Marker("letter", o), text |-> Frame(<<"word">>)]>>,
    label_ids)

Slotted(ids) == [ids |-> ids, markers |-> <<Len(ids)>>]

\* The rows of a question; only the context is cut.
encode_pair(q, state, cfg) ==
  LET ctx == Take(Frame(<<"word">>) \o Encode(state, <<"state", 0>>), cfg.max_len)
      rendered == render_decider_options(q)
      piece == build_piece(Encode(q.instructions, <<"question", 0>>),
                 [o \in DOMAIN rendered |->
                    [label |-> Marker("letter", o),
                     text |-> Encode(rendered[o], <<"option", o>>)]], cfg.label_ids)
  IN IF q.kind = "score" /\ cfg.isolated_levels
       THEN [o \in DOMAIN q.options |->
               Slotted(build_isolated_row(ctx, q, o, cfg.label_ids))]
       ELSE IF piece = << >> THEN << >> ELSE <<Slotted(ctx \o piece)>>

-----------------------------------------------------------------------------
(* Decoding                                                                *)

qtype_of(q) == CASE q.kind = "choice" -> 1 [] q.kind = "score" -> 2 [] q.kind = "noul" -> 3

temp_bucket(qtype, k) ==
  <<qtype, IF k <= 2 THEN "2" ELSE IF k <= 5 THEN "3-5" ELSE IF k <= 10 THEN "6-10" ELSE "11+">>

\* Mutant of scale: what the checkpoint says of the bucket is not looked at.
scale_triple(temps, qtype, k) == temps.triple[qtype]

scale(temps, qtype, k) ==
  LET b == temp_bucket(qtype, k)
  IN IF b \in DOMAIN temps.by_options THEN temps.by_options[b] ELSE temps.triple[qtype]

\* Mutant of unpermute: the permutation is applied a second time.
unpermute_twice(p, q) ==
  IF q.option_order = {} THEN p
  ELSE LET order == CHOOSE o \in q.option_order : TRUE IN [s \in DOMAIN p |-> p[order[s] + 1]]

\* From slots back to the caller's order: option order[s] was scored in slot s.
unpermute(p, q) ==
  IF q.option_order = {} THEN p
  ELSE LET order == CHOOSE o \in q.option_order : TRUE
       IN [o \in DOMAIN p |-> p[CHOOSE s \in DOMAIN p : order[s] = o - 1]]

\* A temperature never changes which option is the most likely; among equals the
\* last one is, and true wins over false.
Winner(p) ==
  CHOOSE o \in DOMAIN p : \A i \in DOMAIN p :
    p[i].weight < p[o].weight \/ (p[i].weight = p[o].weight /\ i <= o)

answer_confidence(p) ==
  (100 * p[Winner(p)].weight) \div Total([o \in DOMAIN p |-> p[o].weight])

\* A fitted map remaps the confidence of the buckets it knows.
apply_binning_map(confidence, bucket, map) ==
  IF bucket \notin DOMAIN map THEN confidence
  ELSE LET e == map[bucket] IN e.values[Least((confidence * e.bins) \div 100, e.bins - 1) + 1]

Answer(p, temperature, confidence) ==
  [probabilities |-> p, label |-> Winner(p), temperature |-> temperature,
   answer_confidence |-> confidence]

decode_laya_row(p, q, temps, binning) ==
  LET canon == unpermute(p, q)
      k == Len(p)
  IN Answer(canon, scale(temps, qtype_of(q), k),
            apply_binning_map(answer_confidence(canon), temp_bucket(qtype_of(q), k), binning))

decode_decider2b_row(p, q, temps) ==
  Answer(p, temps.triple[qtype_of(q)], answer_confidence(p))

\* A score of GLiClass is of several labels: each stands for itself.
decode_gliclass_row(p) == Answer(p, 100, p[Winner(p)].weight)
=============================================================================
