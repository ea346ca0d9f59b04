------------------------------ MODULE MCInputs ------------------------------
(***************************************************************************)
(* Images for TLC: sides about the roundings (halves of 32), about the two *)
(* pixel limits, roots that are whole numbers, and aspects up to 200 to 1. *)
(* Deciders for TLC: checkpoints good and bad, windows that the question   *)
(* leaves plenty, little or no room in, and calls of one or two questions. *)
(***************************************************************************)
EXTENDS Inputs

Sides ==
  {0, 1, 15, 16, 47, 48, 64, 100, 239, 240, 351, 480, 496, 512, 624, 702, 1000, 1136,
   1152, 1600, 4000, 9400, 12800, 20000}
MCImages == Sides \X Sides

Words(n) == [j \in 1..n |-> "word"]
With(t, n) == <<t>> \o Words(n)

Opt(l, text) == [label |-> l, text |-> text, description |-> << >>]
Opts(n, text) == [o \in 1..n |-> Opt(ToString(o), text)]

Tuple(kind, instructions, options) ==
  [kind |-> kind, instructions |-> instructions, options |-> options, order |-> {},
   true_criterion |-> << >>, false_criterion |-> {}]
Ordered(t, order) == [t EXCEPT !.order = {order}]
Item(state, question) == [state |-> state, question |-> question]

three == <<Opt("a", Words(2)), [Opt("b", Words(1)) EXCEPT !.description = With("mask", 4)],
           Opt("c", Words(60))>>
choice == Tuple("choice", With("mask", 9), three)
solo == Tuple("choice", Words(1), Opts(1, Words(2)))
levels == Tuple("score", Words(2), Opts(3, With("num", 1)))
noul == [Tuple("noul", Words(3), << >>) EXCEPT !.true_criterion = Words(2),
                                               !.false_criterion = {Words(1)}]
many == Tuple("score", Words(3), Opts(12, Words(7)))
short == <<Item(Words(2), levels), Item(Words(1), noul)>>

LayaCalls ==
  {<< >>, short, <<Item(With("mask", 2), Ordered(choice, <<2, 0, 1>>)), Item(Words(90), noul)>>,
   <<Item(Words(90), choice)>>, <<Item(Words(3), solo)>>, <<Item(Words(40), many)>>,
   <<Item(Words(2), solo), Item(Words(2), Ordered(choice, <<1, 2, 0>>))>>,
   <<Item(Words(2), Ordered(choice, <<0, -1, 2>>))>>,
   <<Item(Words(2), Ordered(choice, <<0, 0, 2>>))>>,
   <<Item(Words(2), noul), Item(Words(2), Tuple("choice", Words(1), << >>))>>,
   <<Item(Words(2), Tuple("choice", << >>, three))>>,
   <<Item(Words(2), Tuple("rank", Words(1), three))>>,
   <<Item(Words(2), Tuple("choice", Words(1), <<Opt("a", Words(1)), Opt("a", Words(1))>>))>>}

GliclassCalls ==
  {short, << >>, <<Item(Words(30), levels), Item(With("label", 3), Tuple("choice", << >>, Opts(2, Words(1))))>>,
   <<Item(Words(1), solo), Item(Words(9), Tuple("choice", Words(3), Opts(3, With("label", 1))))>>,
   <<Item(Words(3), Tuple("choice", Words(5), Opts(3, Words(5))))>>,
   <<Item(Words(3), Tuple("score", Words(5), Opts(2, << >>)))>>,
   <<Item(Words(2), Tuple("choice", Words(1), << >>))>>}

SlotsCalls ==
  {short, << >>, <<Item(Words(12), many), Item(Words(3), levels)>>, <<Item(Words(5), levels)>>,
   <<Item(Words(2), Ordered(choice, <<2, 0, 1>>)), Item(Words(30), [noul EXCEPT !.false_criterion = {}])>>,
   <<Item(Words(2), Tuple("choice", Words(2), Opts(12, Words(1))))>>,
   <<Item(Words(2), Tuple("choice", Words(2), Opts(13, Words(1))))>>,
   <<Item(Words(2), solo)>>, <<Item(Words(2), Tuple("score", Words(1), Opts(13, Words(1))))>>,
   <<Item(Words(2), Tuple("score", Words(1), Opts(14, Words(1))))>>,
   <<Item(Words(2), Tuple("noul", << >>, << >>))>>}

MCCalls == [gliclass |-> GliclassCalls, laya |-> LayaCalls, slots |-> SlotsCalls]

Gliclass(limit, first) ==
  [family |-> "gliclass", max_length |-> limit, prompt_first |-> first]
Laya(limit, max_len, head_max_len) ==
  [family |-> "laya", max_length |-> limit, max_len |-> max_len, head_max_len |-> head_max_len,
   option_layout |-> {"sequential"}, temperature |-> <<{120}, {}, {20}>>,
   by_options |-> (<<1, "2">> :> {10}) @@ (<<1, "3-5">> :> {150})]
Slots(limit, options, labels, isolated) ==
  [family |-> "slots", max_length |-> limit, layout |-> "decider-slots-v1", max_ctx |-> 20,
   max_options |-> options, max_levels |-> 13, isolated_levels |-> isolated,
   label_ids |-> labels, row_temp |-> {90000}, temperature |-> <<{247}, {100}, {5}>>]

MCCheckpoints ==
  {Gliclass({16}, FALSE), Gliclass({24}, TRUE), Gliclass({}, FALSE), Gliclass({5000}, TRUE),
   Laya({}, 100, 60), Laya({}, 64, 20), Laya({24}, 64, 20), Laya({0}, 64, 32),
   [Laya({}, 1200, 256) EXCEPT !.option_layout = {}],
   [Laya({}, 64, 20) EXCEPT !.temperature = <<{100}>>], Laya({}, 64, 0),
   [Laya({}, 64, 20) EXCEPT !.option_layout = {"tree"}],
   [Slots({}, 12, 12, TRUE) EXCEPT !.row_temp = {}],
   [Slots({}, 12, 12, TRUE) EXCEPT !.row_temp = {0}],
   Slots({}, 12, 12, TRUE), Slots({8}, 12, 12, FALSE), Slots({}, 13, 12, TRUE), Slots({21}, 12, 12, TRUE)}

Entry(bins, values) == [bins |-> bins, values |-> values]
MCMaps ==
  {<<1, "3-5">> :> Entry({3}, <<{10}, {55}, {100}>>),
   <<3, "2">> :> Entry({2}, <<{0}, {90}>>),
   <<3, "2">> :> Entry({1}, <<{150}>>),
   (<<3, "2">> :> Entry({2}, <<{5}>>)) @@ (<<1, "3-5">> :> Entry({1}, <<{7}>>)),
   << >>}

MCHeadTokens == [choice |-> 3, score |-> 3, noul |-> 4]

MCPeaks == {{}, {1}, {2}, {3}, {1, 3}, {12}}
=============================================================================
