----------------------------- MODULE MCWindows ------------------------------
(***************************************************************************)
(* Long texts for TLC: every small combination of length, cap, window and  *)
(* stride, two questions on short texts, and some calls of the size the    *)
(* shipped checkpoints see.                                                *)
(***************************************************************************)
EXTENDS Windows

Some(numbers) == {{}} \cup {{n} : n \in numbers}

Rerank(n, max_len, window, stride, used) ==
  [kind |-> "rerank", n |-> n, max_len |-> max_len, head_max_len |-> 0,
   window |-> window, stride |-> stride, used |-> <<used>>]
Laya(n, max_len, head, window, stride, used) ==
  [kind |-> "laya", n |-> n, max_len |-> max_len, head_max_len |-> head,
   window |-> window, stride |-> stride, used |-> used]

SmallReranks ==
  {Rerank(n, 4, w, s, u) : n \in 0..6, w \in Some(0..5), s \in Some(0..3), u \in 1..3}
SmallLayas ==
  {Laya(n, 5, 2, w, s, <<u>>) : n \in 0..6, w \in Some(0..5), s \in Some(0..4), u \in 2..5}
TwoQuestions ==
  {Laya(n, 5, 2, w, s, u) : n \in 1..4, w \in Some({2, 4}), s \in Some({2, 3}),
                            u \in {<< >>, <<2, 3>>, <<3, 2>>, <<2, 6>>}}

\* A 512-token reranker; the typed-decision and the base checkpoint of Laya.
Shipped ==
  {Rerank(1000, 512, {}, {}, 15), Rerank(513, 512, {}, {497}, 15),
   Laya(900, 512, 192, {}, {}, <<120>>), Laya(1500, 1024, 256, {760}, {700}, <<300>>),
   Laya(70, 512, 508, {}, {}, <<100>>)}

MCJobs == SmallReranks \cup SmallLayas \cup TwoQuestions \cup Shipped
MCScores == {0, 1}
=============================================================================
