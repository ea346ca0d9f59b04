---------------------------- MODULE InputsProofs ----------------------------
(***************************************************************************)
(* What holds of every image and every question the process takes, for all *)
(* checkpoints, calls, texts, windows and scores: theorems of InputsSpec.  *)
(*                                                                         *)
(* A decider's part rests on DecidersInv: the rows of the call are the     *)
(* rows its questions are built into, each named by the plan of its        *)
(* question, the scores are the graph's over those rows, and the answers   *)
(* what is decoded of the scores.  What a row holds is RowsProofs'.  An    *)
(* image's part rests on VisionInv: what was told is a size the model      *)
(* takes, and what was embedded is its own target.                         *)
(***************************************************************************)
EXTENDS Inputs, RowsProofs

-----------------------------------------------------------------------------
(* Opening                                                                 *)

Opens(c) ==
  CASE c.family = "gliclass" -> OpenGliclass(c)
    [] c.family = "laya"     -> OpenLaya(c)
    [] c.family = "slots"    -> OpenSlots(c)

Low(family) == IF family = "laya" THEN 50 ELSE 5
Buckets(c) == IF c.family = "laya" THEN c.by_options ELSE NoMap

\* What every decider that opens is.
Ready(d) ==
  /\ d.family \in Families /\ d.max_len \in Nat /\ d.max_len >= 1
  /\ d.family = "gliclass" => d.prompt_first \in BOOLEAN
  /\ d.family = "laya" => d.head_max_len \in Nat
  /\ d.family = "slots" =>
       d.max_options \in Nat /\ d.label_ids \in Nat /\ d.max_options <= d.label_ids

\* Its temperatures are the checkpoint's, clamped, but for that of isolated rows.
Tempered(d, c) ==
  /\ d.temps \in Temperatures(c.temperature, Buckets(c), Low(c.family))
  /\ d.family = "slots" =>
       /\ d.isolated_levels = c.isolated_levels
       /\ c.row_temp = {d.row_temp} /\ d.row_temp > 0

\* At most one limit comes of the limit that was asked for.
LEMMA LimitIs ==
  ASSUME NEW limit, limit \subseteq Nat, \A a, b \in limit : a = b,
         NEW default \in Nat, default >= 1, NEW ceiling \in Nat
  PROVE  /\ \A n \in Limit(limit, default, ceiling) : n \in Nat /\ n >= 1
         /\ \A m, n \in Limit(limit, default, ceiling) : m = n
BY DEF Limit

\* There is one list of temperatures of a checkpoint, if any.
LEMMA TemperaturesOne ==
  ASSUME NEW triple, NEW by_options, NEW low
  PROVE  \A s, t \in Temperatures(triple, by_options, low) : s = t
BY DEF Temperatures

\* A decider of GLiClass is one, and ready.
LEMMA OpenGliclassIs ==
  ASSUME NEW c \in Checkpoints, c.family = "gliclass"
  PROVE  /\ \A d \in OpenGliclass(c) : Ready(d) /\ d.family = c.family
         /\ \A d, e \in OpenGliclass(c) : d = e
PROOF
  <1>1. c.max_length \subseteq Nat /\ (\A a, b \in c.max_length : a = b)
    BY ShapesAssumption
  <1>2. c.prompt_first \in BOOLEAN
    BY ShapesAssumption
  <1>3. /\ \A n \in Limit(c.max_length, 512, 4096) : n \in Nat /\ n >= 1
        /\ \A m, n \in Limit(c.max_length, 512, 4096) : m = n
    <2>1. PICK x : x = c.max_length
      OBVIOUS
    <2>. QED
      BY <1>1, <2>1, LimitIs
  <1>. QED
    BY <1>2, <1>3 DEF OpenGliclass, Ready, Families, DECIDE_DEFAULT_MAX, DECIDE_ABSOLUTE_MAX

\* A decider of Laya is one, ready, and its temperatures are clamped.
LEMMA OpenLayaIs ==
  ASSUME NEW c \in Checkpoints, c.family = "laya"
  PROVE  /\ \A d \in OpenLaya(c) : Ready(d) /\ d.family = c.family /\ Tempered(d, c)
         /\ \A d, e \in OpenLaya(c) : d = e
PROOF
  <1>1. c.max_length \subseteq Nat /\ (\A a, b \in c.max_length : a = b)
    BY ShapesAssumption
  <1>2. c.max_len \in Nat /\ c.head_max_len \in Nat
    BY ShapesAssumption
  <1>3. PICK top \in Nat : top = Least(c.max_len, LAYA_ABSOLUTE_MAX)
    BY <1>2 DEF Least, LAYA_ABSOLUTE_MAX
  <1>4. c.max_len # 0 => top >= 1
    BY <1>2, <1>3 DEF Least, LAYA_ABSOLUTE_MAX
  <1>5. c.max_len # 0 =>
        /\ \A n \in Limit(c.max_length, top, top) : n \in Nat /\ n >= 1
        /\ \A m, n \in Limit(c.max_length, top, top) : m = n
    <2>1. PICK x : x = c.max_length
      OBVIOUS
    <2>. QED
      BY <1>1, <1>4, <2>1, LimitIs
  <1>6. PICK temps : temps = Temperatures(c.temperature, c.by_options, 50)
    OBVIOUS
  <1>7. \A s, t \in temps : s = t
    BY <1>6, TemperaturesOne
  <1>8. temps = Temperatures(c.temperature, Buckets(c), Low(c.family))
    BY <1>6 DEF Buckets, Low
  <1>9. ASSUME NEW d \in OpenLaya(c), NEW e \in OpenLaya(c)
        PROVE  Ready(d) /\ d.family = c.family /\ Tempered(d, c) /\ d = e
    <2>1. /\ c.max_len # 0
          /\ OpenLaya(c) =
               {[family |-> "laya", max_len |-> n, head_max_len |-> c.head_max_len, temps |-> t] :
                  n \in Limit(c.max_length, top, top), t \in temps}
      <3>1. ~ (c.max_len = 0 \/ c.head_max_len = 0 \/ ~ (c.option_layout \subseteq {"sequential"}))
        BY <1>9 DEF OpenLaya
      <3>. QED
        BY <1>3, <1>6, <3>1 DEF OpenLaya
    <2>2. PICK n \in Limit(c.max_length, top, top), t \in temps :
            d = [family |-> "laya", max_len |-> n, head_max_len |-> c.head_max_len, temps |-> t]
      BY <1>9, <2>1
    <2>3. PICK m \in Limit(c.max_length, top, top), u \in temps :
            e = [family |-> "laya", max_len |-> m, head_max_len |-> c.head_max_len, temps |-> u]
      BY <1>9, <2>1
    <2>4. m = n /\ n \in Nat /\ n >= 1 /\ t = u
      BY <1>5, <1>7, <2>1, <2>2, <2>3
    <2>5. d = e
      BY <2>2, <2>3, <2>4, Zenon
    <2>. QED
      BY <1>2, <1>8, <2>2, <2>4, <2>5 DEF Ready, Families, Tempered
  <1>. QED
    BY <1>9

\* A decider of slots is one, ready, and its temperatures are clamped.
LEMMA OpenSlotsIs ==
  ASSUME NEW c \in Checkpoints, c.family = "slots"
  PROVE  /\ \A d \in OpenSlots(c) : Ready(d) /\ d.family = c.family /\ Tempered(d, c)
         /\ \A d, e \in OpenSlots(c) : d = e
PROOF
  <1>1. c.max_length \subseteq Nat /\ (\A a, b \in c.max_length : a = b)
    BY ShapesAssumption
  <1>2. c.max_ctx \in Nat /\ c.max_options \in Nat /\ c.max_levels \in Nat /\ c.label_ids \in Nat
    BY ShapesAssumption
  <1>3. c.max_ctx # 0 =>
        /\ \A n \in Limit(c.max_length, c.max_ctx, c.max_ctx) : n \in Nat /\ n >= 1
        /\ \A m, n \in Limit(c.max_length, c.max_ctx, c.max_ctx) : m = n
    <2>1. PICK x : x = c.max_length
      OBVIOUS
    <2>2. PICK k \in Nat : k = c.max_ctx
      BY <1>2
    <2>. QED
      BY <1>1, <2>1, <2>2, LimitIs
  <1>4. PICK temps : temps = Temperatures(c.temperature, NoMap, 5)
    OBVIOUS
  <1>5. \A s, t \in temps : s = t
    BY <1>4, TemperaturesOne
  <1>6. temps = Temperatures(c.temperature, Buckets(c), Low(c.family))
    BY <1>4 DEF Buckets, Low
  <1>7. c.row_temp \subseteq Int /\ \A a, b \in c.row_temp : a = b
    BY ShapesAssumption
  <1>8. ASSUME NEW d \in OpenSlots(c), NEW e \in OpenSlots(c)
        PROVE  Ready(d) /\ d.family = c.family /\ Tempered(d, c) /\ d = e
    <2>1. PICK n \in Limit(c.max_length, c.max_ctx, c.max_ctx), t \in Decider2BConfig(c) :
            d = [family |-> "slots", max_len |-> n, max_options |-> c.max_options,
                 max_levels |-> c.max_levels, isolated_levels |-> c.isolated_levels,
                 label_ids |-> c.label_ids, row_temp |-> t.row_temp, temps |-> t.temps]
      BY <1>8 DEF OpenSlots
    <2>2. PICK m \in Limit(c.max_length, c.max_ctx, c.max_ctx), u \in Decider2BConfig(c) :
            e = [family |-> "slots", max_len |-> m, max_options |-> c.max_options,
                 max_levels |-> c.max_levels, isolated_levels |-> c.isolated_levels,
                 label_ids |-> c.label_ids, row_temp |-> u.row_temp, temps |-> u.temps]
      BY <1>8 DEF OpenSlots
    <2>3. c.max_ctx # 0 /\ c.max_options <= c.label_ids
      BY <1>2, <2>1 DEF Decider2BConfig
    <2>4. PICK r \in c.row_temp, v \in temps : t = [row_temp |-> r, temps |-> v] /\ r > 0
      BY <1>4, <2>1 DEF Decider2BConfig
    <2>5. PICK x \in c.row_temp, w \in temps : u = [row_temp |-> x, temps |-> w] /\ x > 0
      BY <1>4, <2>2 DEF Decider2BConfig
    <2>6. r \in Int /\ c.row_temp = {r} /\ x = r /\ w = v
      BY <1>5, <1>7, <2>4, <2>5
    <2>7. m = n /\ n \in Nat /\ n >= 1
      BY <1>3, <2>1, <2>2, <2>3
    <2>8. t = u
      BY <2>4, <2>5, <2>6, Zenon
    <2>9. d = e
      BY <2>1, <2>2, <2>7, <2>8, Zenon
    <2>10. d.temps = v /\ d.row_temp = r /\ d.isolated_levels = c.isolated_levels
      BY <2>1, <2>4
    <2>11. Tempered(d, c)
      BY <1>6, <2>4, <2>6, <2>10 DEF Tempered
    <2>. QED
      BY <1>2, <2>1, <2>3, <2>7, <2>9, <2>11 DEF Ready, Families
  <1>. QED
    BY <1>8

\* What opens is one decider of its checkpoint's family.
LEMMA OpensIs ==
  ASSUME NEW c \in Checkpoints
  PROVE  /\ c.family \in Families
         /\ \A d \in Opens(c) : /\ Ready(d) /\ d.family = c.family
                                /\ c.family # "gliclass" => Tempered(d, c)
         /\ \A d, e \in Opens(c) : d = e
PROOF
  <1>1. c.family \in Families
    BY CallsAssumption
  <1>2. CASE c.family = "gliclass"
    <2>1. Opens(c) = OpenGliclass(c)
      BY <1>2 DEF Opens
    <2>. QED
      BY <1>1, <1>2, <2>1, OpenGliclassIs, Zenon
  <1>3. CASE c.family = "laya"
    <2>1. Opens(c) = OpenLaya(c)
      BY <1>3 DEF Opens
    <2>. QED
      BY <1>1, <1>3, <2>1, OpenLayaIs, Zenon
  <1>4. CASE c.family = "slots"
    <2>1. Opens(c) = OpenSlots(c)
      BY <1>4 DEF Opens
    <2>. QED
      BY <1>1, <1>4, <2>1, OpenSlotsIs, Zenon
  <1>. QED
    BY <1>1, <1>2, <1>3, <1>4 DEF Families

-----------------------------------------------------------------------------
(* Temperatures and binning maps                                           *)

\* A clamped number is within the range.
LEMMA ClampIs ==
  ASSUME NEW raw, raw \subseteq Int, NEW low \in Nat, low <= 100
  PROVE  clamp(raw, low) \in low..500
PROOF
  <1>1. CASE raw = {}
    BY <1>1 DEF clamp
  <1>2. CASE raw # {}
    <2>1. PICK t \in Int : t = CHOOSE x \in raw : TRUE
      BY <1>2
    <2>. QED
      BY <1>2, <2>1 DEF clamp, Most, Least
  <1>. QED
    BY <1>1, <1>2

Triple(t, triple, i, low) ==
  /\ t.triple[i] \in low..500
  /\ triple[i] = {t.triple[i]} \/ <<i, "temperature">> \in t.rejections

\* The temperature of a kind of question is in range, and noted when it was clamped.
LEMMA TripleIs ==
  ASSUME NEW triple \in Seq(SUBSET Int), NEW by_options, NEW low \in Nat, low <= 100,
         NEW t \in Temperatures(triple, by_options, low)
  PROVE  \A i \in 1..3 : Triple(t, triple, i, low)
PROOF
  <1>. SUFFICES ASSUME NEW i \in 1..3 PROVE Triple(t, triple, i, low)
    OBVIOUS
  <1>1. Len(triple) = 3
    BY DEF Temperatures
  <1>2. PICK raw : raw = triple[i]
    OBVIOUS
  <1>3. raw \subseteq Int
    BY <1>1, <1>2
  <1>4. t.triple[i] = clamp(raw, low)
    BY <1>1, <1>2 DEF Temperatures
  <1>5. raw # {clamp(raw, low)} => <<i, "temperature">> \in t.rejections
    BY <1>1, <1>2 DEF Temperatures
  <1>. QED
    BY <1>2, <1>3, <1>4, <1>5, ClampIs DEF Triple

Bucketed(t, by_options, low) ==
  /\ DOMAIN t.by_options = DOMAIN by_options
  /\ \A b \in DOMAIN by_options : by_options[b] \subseteq Int =>
       /\ t.by_options[b] \in low..500
       /\ by_options[b] = {t.by_options[b]} \/ b \in t.rejections

\* So is the temperature of a bucket.
LEMMA BucketIs ==
  ASSUME NEW triple, NEW by_options, NEW low \in Nat, low <= 100,
         NEW t \in Temperatures(triple, by_options, low)
  PROVE  Bucketed(t, by_options, low)
PROOF
  <1>1. Len(triple) = 3
    BY DEF Temperatures
  <1>2. t.by_options = [b \in DOMAIN by_options |-> clamp(by_options[b], low)]
    BY <1>1 DEF Temperatures
  <1>3. ASSUME NEW b \in DOMAIN by_options, by_options[b] \subseteq Int
        PROVE  /\ t.by_options[b] \in low..500
               /\ by_options[b] = {t.by_options[b]} \/ b \in t.rejections
    <2>1. PICK raw : raw = by_options[b]
      OBVIOUS
    <2>2. t.by_options[b] = clamp(raw, low)
      BY <1>2, <2>1
    <2>3. raw # {clamp(raw, low)} => b \in t.rejections
      BY <1>1, <2>1 DEF Temperatures
    <2>. QED
      BY <1>3, <2>1, <2>2, <2>3, ClampIs
  <1>. QED
    BY <1>2, <1>3 DEF Bucketed

\* The temperature of an answer of decider d, opened from c.
Accounted(t, d, c, qtype, b) ==
  LET fitted == d.family = "laya" /\ b \in DOMAIN c.by_options
  IN /\ t \in Low(d.family)..500
     /\ \/ (IF fitted THEN c.by_options[b] ELSE c.temperature[qtype]) = {t}
        \/ (IF fitted THEN b ELSE <<qtype, "temperature">>) \in d.temps.rejections

\* The temperature of Laya is that of the bucket, or of the kind of question.
LEMMA ScaleIs ==
  ASSUME NEW c \in Checkpoints, NEW d, d.family = "laya", d.family = c.family, Tempered(d, c),
         NEW qtype \in 1..3, NEW k
  PROVE  Accounted(scale(d.temps, qtype, k), d, c, qtype, temp_bucket(qtype, k))
PROOF
  <1>1. PICK b : b = temp_bucket(qtype, k)
    OBVIOUS
  <1>2. PICK triple : triple = c.temperature
    OBVIOUS
  <1>3. PICK fits : fits = c.by_options
    OBVIOUS
  <1>4. triple \in Seq(SUBSET Int) /\ \A x \in DOMAIN fits : fits[x] \subseteq Int
    BY <1>2, <1>3, ShapesAssumption
  <1>5. PICK t : t = d.temps
    OBVIOUS
  <1>6. t \in Temperatures(triple, fits, 50)
    BY <1>2, <1>3, <1>5 DEF Tempered, Buckets, Low
  <1>7. Triple(t, triple, qtype, 50)
    BY <1>4, <1>6, TripleIs
  <1>8. /\ DOMAIN t.by_options = DOMAIN fits
        /\ \A x \in DOMAIN fits : fits[x] \subseteq Int =>
              /\ t.by_options[x] \in 50..500
              /\ fits[x] = {t.by_options[x]} \/ x \in t.rejections
    <2>1. 50 \in Nat /\ 50 <= 100
      OBVIOUS
    <2>2. Bucketed(t, fits, 50)
      BY <1>6, <2>1, BucketIs, Zenon
    <2>. QED
      BY <2>2 DEF Bucketed
  <1>9. scale(d.temps, qtype, k) = IF b \in DOMAIN t.by_options THEN t.by_options[b] ELSE t.triple[qtype]
    BY <1>1, <1>5 DEF scale
  <1>10. CASE b \in DOMAIN fits
    <2>1. PICK s : s = scale(d.temps, qtype, k)
      OBVIOUS
    <2>2. s = t.by_options[b]
      BY <1>8, <1>9, <1>10, <2>1
    <2>3. s \in 50..500 /\ (fits[b] = {s} \/ b \in t.rejections)
      BY <1>4, <1>8, <1>10, <2>2
    <2>4. Low(d.family) = 50
      BY DEF Low
    <2>5. Accounted(s, d, c, qtype, b)
      BY <1>3, <1>5, <1>10, <2>3, <2>4 DEF Accounted
    <2>. QED
      BY <1>1, <2>1, <2>5
  <1>11. CASE b \notin DOMAIN fits
    <2>1. PICK s : s = scale(d.temps, qtype, k)
      OBVIOUS
    <2>2. s = t.triple[qtype]
      BY <1>8, <1>9, <1>11, <2>1
    <2>3. s \in 50..500 /\ (triple[qtype] = {s} \/ <<qtype, "temperature">> \in t.rejections)
      BY <1>7, <2>2 DEF Triple
    <2>4. Low(d.family) = 50
      BY DEF Low
    <2>5. Accounted(s, d, c, qtype, b)
      BY <1>2, <1>3, <1>5, <1>11, <2>3, <2>4 DEF Accounted
    <2>. QED
      BY <1>1, <2>1, <2>5
  <1>. QED
    BY <1>10, <1>11

\* The temperature of the slots is that of the kind of question.
LEMMA TripleScaleIs ==
  ASSUME NEW c \in Checkpoints, NEW d, d.family = "slots", d.family = c.family, Tempered(d, c),
         NEW qtype \in 1..3, NEW b
  PROVE  Accounted(d.temps.triple[qtype], d, c, qtype, b)
PROOF
  <1>1. PICK triple : triple = c.temperature
    OBVIOUS
  <1>2. triple \in Seq(SUBSET Int)
    BY <1>1, ShapesAssumption
  <1>3. PICK t : t = d.temps
    OBVIOUS
  <1>4. t \in Temperatures(triple, NoMap, 5)
    BY <1>1, <1>3 DEF Tempered, Buckets, Low
  <1>5. Triple(t, triple, qtype, 5)
    BY <1>2, <1>4, TripleIs
  <1>. QED
    BY <1>1, <1>3, <1>5 DEF Accounted, Low, Triple

\* Every entry of a binning map has as many confidences as bins.
Bins(map) ==
  \A b \in DOMAIN map : /\ map[b].bins \in Nat /\ map[b].bins >= 1
                        /\ map[b].values \in Seq(0..100) /\ Len(map[b].values) = map[b].bins

\* What the parser takes is such a map, and it takes one map at most.
LEMMA ParsedBins ==
  ASSUME NEW raw \in Maps
  PROVE  \A map \in BinningMap(raw) : Bins(map)
PROOF
  <1>1. SUFFICES ASSUME NEW map \in BinningMap(raw), NEW b \in DOMAIN map
                 PROVE  /\ map[b].bins \in Nat /\ map[b].bins >= 1
                        /\ map[b].values \in Seq(0..100) /\ Len(map[b].values) = map[b].bins
    BY DEF Bins
  <1>2. /\ \A x \in DOMAIN raw :
             /\ \A n \in raw[x].bins : n >= 1 /\ Len(raw[x].values) = n
             /\ raw[x].bins # {}
             /\ \A v \in ToSet(raw[x].values) : v # {} /\ v \subseteq 0..100
        /\ map = [x \in DOMAIN raw |->
             [bins |-> CHOOSE n \in raw[x].bins : TRUE,
              values |-> [i \in DOMAIN raw[x].values |-> CHOOSE v \in raw[x].values[i] : TRUE]]]
    BY <1>1 DEF BinningMap
  <1>3. b \in DOMAIN raw
    BY <1>1, <1>2
  <1>4. PICK bins : bins = raw[b].bins
    OBVIOUS
  <1>5. PICK values : values = raw[b].values
    OBVIOUS
  <1>6. bins \subseteq Int /\ values \in Seq(SUBSET Int)
    BY <1>3, <1>4, <1>5, ShapesAssumption
  <1>7. PICK n \in Int : n = (CHOOSE m \in bins : TRUE) /\ n \in bins
    BY <1>2, <1>3, <1>4, <1>6
  <1>8. n >= 1 /\ Len(values) = n /\ n \in Nat
    BY <1>2, <1>3, <1>4, <1>5, <1>7
  <1>9. \A i \in 1..n : values[i] # {} /\ values[i] \subseteq 0..100
    <2>1. SUFFICES ASSUME NEW i \in 1..n PROVE values[i] # {} /\ values[i] \subseteq 0..100
      OBVIOUS
    <2>2. values[i] \in ToSet(values)
      BY <1>6, <1>8 DEF ToSet
    <2>. QED
      BY <1>2, <1>3, <1>5, <2>2, Zenon
  <1>10. PICK vs : vs = [i \in 1..n |-> CHOOSE v \in values[i] : TRUE]
    OBVIOUS
  <1>11. vs \in [1..n -> 0..100]
    <2>1. \A i \in 1..n : (CHOOSE v \in values[i] : TRUE) \in 0..100
      BY <1>9
    <2>. QED
      BY <1>10, <2>1
  <1>12. vs \in Seq(0..100) /\ Len(vs) = n
    BY <1>8, <1>11, FunctionIsSeq
  <1>13. map[b].bins = n /\ map[b].values = vs
    <2>1. map[b] = [bins |-> CHOOSE m \in bins : TRUE,
                    values |-> [i \in DOMAIN values |-> CHOOSE v \in values[i] : TRUE]]
      BY <1>2, <1>3, <1>4, <1>5
    <2>2. DOMAIN values = 1..n
      BY <1>6, <1>8
    <2>3. map[b].bins = n
      BY <1>7, <2>1
    <2>. QED
      BY <1>10, <2>1, <2>2, <2>3
  <1>. QED
    BY <1>8, <1>12, <1>13

-----------------------------------------------------------------------------
(* The rows of a question                                                  *)

\* A question that was taken.
Taken(d, q) == validate(d, q) /\ (q.kind # "choice" => q.option_order = {})

FindsItsOptionsIn(d, q, state) ==
  d.family = "gliclass" =>
    /\ \A o \in DOMAIN q.options : "label" \notin ToSet(q.options[o].text)
    /\ d.prompt_first \/ "label" \notin ToSet(state)

\* The tokens of a row that are scored.
Seen(d, row) ==
  IF d.family # "laya" THEN Scored(d, row.ids)
  ELSE [m \in DOMAIN row.markers |-> row.ids[row.markers[m]]]

\* The option that is scored o-th.
OptionAt(d, q, o) == IF d.family = "laya" THEN ShownOrder(q, OptionCount(q))[o] + 1 ELSE o

\* The levels of the question have a row each, and their scores are divided.
Isolated(d, q) == d.family = "slots" /\ q.kind = "score" /\ d.isolated_levels
Over(d, q) == IF Isolated(d, q) THEN {d.row_temp} ELSE {}

\* The options of a question are scored in one row, or in a row each.
Scores(d, q, state, built) ==
  /\ built \in Seq(Row) /\ built # << >>
  /\ OptionCount(q) \in Nat /\ OptionCount(q) >= 1
  /\ Len(built) = 1 =>
       /\ ~ Isolated(d, q)
       /\ Len(Seen(d, built[1])) \in Nat /\ Len(Seen(d, built[1])) >= OptionCount(q)
       /\ DOMAIN Seen(d, built[1]) = 1..Len(Seen(d, built[1]))
       /\ FindsItsOptionsIn(d, q, state) =>
            \A o \in 1..OptionCount(q) : Seen(d, built[1])[o].of = <<"marker", OptionAt(d, q, o)>>
  /\ Len(built) # 1 =>
       /\ Isolated(d, q) /\ d.family = "slots" /\ Len(built) = OptionCount(q)
       /\ \A o \in 1..Len(built) :
            /\ Len(Seen(d, built[o])) = 2 /\ DOMAIN Seen(d, built[o]) = 1..2
            /\ Seen(d, built[o])[2].of = <<"marker", o>>

Windowed(d, state, row) ==
  LET kept == N(row.ids, <<"state", 0>>)
      filled == IF d.family = "slots" THEN kept + 1 ELSE Len(row.ids)
  IN /\ filled <= d.max_len
     /\ kept < Len(IF d.family = "laya" THEN scrub(state) ELSE state) => filled = d.max_len
     /\ d.family # "slots" /\ kept > 0 => row.ids[Len(row.ids)] = SEP[1]

Keeps(row, o, text) == N(row.ids, <<"option", o>>) >= Len(text)
Whole(d, q, row) ==
  LET shown == N(row.ids, <<"question", 0>>)
      n == OptionCount(q)
  IN CASE d.family = "gliclass" ->
            /\ shown = Len(q.instructions)
            /\ \A o \in 1..n : Keeps(row, o, q.options[o].text)
       [] d.family = "slots" ->
            /\ shown = Len(q.instructions)
            /\ \/ \A o \in 1..n : Keeps(row, o, render_decider_options(q)[o])
               \/ /\ q.kind = "score" /\ d.isolated_levels
                  /\ \E o \in 1..n :
                       /\ N(row.ids, <<"marker", o>>) = 1
                       /\ Keeps(row, o, strip_level_number(q.options[o].text))
       [] d.family = "laya" ->
            /\ shown >= Least(Less(8, HeadTokens[q.kind]), Len(scrub(q.instructions)))
            /\ \A o \in 1..n :
                 \/ o = ShownOrder(q, n)[n] + 1
                 \/ Keeps(row, o, Take(scrub(render_laya_options(q)[o]), 3))

Masked(d, q, row) ==
  d.family = "laya" =>
    /\ {p \in DOMAIN row.ids : row.ids[p].id = "mask"} = ToSet(row.markers)
    /\ Len(row.markers) = OptionCount(q)
    /\ \A s \in DOMAIN row.markers :
         row.ids[row.markers[s]].of = <<"marker", ShownOrder(q, OptionCount(q))[s] + 1>>

\* All that is to be said of a row.
Right(d, q, state, row) ==
  row \in Row /\ Windowed(d, state, row) /\ Whole(d, q, row) /\ Masked(d, q, row)

\* The tokens scored are those of the label, or of the letters.
LEMMA ScoredIs ==
  ASSUME NEW d, NEW ids \in Seq(Token)
  PROVE  Scored(d, ids) = Only(ids, Id(IF d.family = "gliclass" THEN "label" ELSE "letter"))
PROOF
  <1>1. PICK x : x = IF d.family = "gliclass" THEN "label" ELSE "letter"
    OBVIOUS
  <1>2. PICK K : K = {t \in ToSet(ids) : t.id = x}
    OBVIOUS
  <1>3. \A i \in 1..Len(ids) : ids[i] \in K <=> ids[i] \in Id(x)
    BY <1>2 DEF ToSet, Id
  <1>4. Only(ids, K) = Only(ids, Id(x))
    BY <1>3, OnlySame
  <1>. QED
    BY <1>1, <1>2, <1>4 DEF Scored

\* The row of GLiClass.
LEMMA GliclassBuilt ==
  ASSUME NEW d, Ready(d), d.family = "gliclass", NEW q \in Question, Taken(d, q),
         NEW state \in Text, RowsOf(d, q, state) # << >>
  PROVE  /\ Scores(d, q, state, RowsOf(d, q, state))
         /\ \A k \in 1..Len(RowsOf(d, q, state)) : Right(d, q, state, RowsOf(d, q, state)[k])
PROOF
  <1>1. PICK max_len \in Nat : max_len = d.max_len
    BY DEF Ready
  <1>2. PICK first \in BOOLEAN : first = d.prompt_first
    BY DEF Ready
  <1>3. RowsOf(d, q, state) = GliclassRow(q, state, max_len, first)
    BY <1>1, <1>2 DEF RowsOf
  <1>4. PICK row \in Row :
           /\ GliclassRow(q, state, max_len, first) = <<row>>
           /\ Len(row.ids) <= max_len
           /\ N(row.ids, <<"state", 0>>) < Len(state) => Len(row.ids) = max_len
           /\ row.ids[Len(row.ids)] = SEP[1]
           /\ N(row.ids, <<"question", 0>>) = Len(q.instructions)
           /\ \A o \in 1..Len(q.options) :
                N(row.ids, <<"option", o>>) >= Len(q.options[o].text)
           /\ Only(row.ids, Id("label")) \in Seq(Token)
           /\ Len(Only(row.ids, Id("label"))) >= Len(q.options)
           /\ /\ \A o \in 1..Len(q.options) : "label" \notin ToSet(q.options[o].text)
              /\ first \/ "label" \notin ToSet(state)
              => \A o \in 1..Len(q.options) :
                   Only(row.ids, Id("label"))[o].of = <<"marker", o>>
    BY <1>3, GliclassRows
  <1>5. q.kind # "noul" /\ q.options \in Seq(Option) /\ q.options # << >>
    BY DEF Taken, validate, validate_question, Question
  <1>6. /\ OptionCount(q) = Len(q.options) /\ OptionCount(q) \in Nat /\ OptionCount(q) >= 1
        /\ DOMAIN q.options = 1..OptionCount(q)
    BY <1>5 DEF OptionCount
  <1>7. PICK seen \in Seq(Token) : seen = Only(row.ids, Id("label"))
    BY <1>4
  <1>8. Seen(d, row) = seen
    BY <1>7, ScoredIs DEF Seen, Row
  <1>9. Len(seen) \in Nat /\ DOMAIN seen = 1..Len(seen)
    OBVIOUS
  <1>10. FindsItsOptionsIn(d, q, state) =>
           \A o \in 1..OptionCount(q) : seen[o].of = <<"marker", o>>
    BY <1>2, <1>4, <1>6, <1>7 DEF FindsItsOptionsIn
  <1>11. <<row>> \in Seq(Row) /\ Len(<<row>>) = 1 /\ <<row>> # << >> /\ <<row>>[1] = row
    OBVIOUS
  <1>12. \A o : OptionAt(d, q, o) = o
    BY DEF OptionAt
  <1>13. Scores(d, q, state, <<row>>)
    BY <1>4, <1>6, <1>7, <1>8, <1>9, <1>10, <1>11, <1>12 DEF Scores, Isolated
  <1>14. Windowed(d, state, row)
    BY <1>1, <1>4 DEF Windowed
  <1>15. Whole(d, q, row)
    BY <1>4, <1>6 DEF Whole, Keeps
  <1>16. Masked(d, q, row)
    BY DEF Masked
  <1>. QED
    BY <1>3, <1>4, <1>11, <1>13, <1>14, <1>15, <1>16 DEF Right

\* There is one text to every option.
LEMMA CountIs ==
  ASSUME NEW q \in Question
  PROVE  /\ OptionCount(q) \in Nat
         /\ Len(render_laya_options(q)) = OptionCount(q)
         /\ Len(render_decider_options(q)) = OptionCount(q)
PROOF
  <1>1. Len(q.options) \in Nat
    BY DEF Question
  <1>2. Len(render_laya_options(q)) = IF q.kind = "noul" THEN 2 ELSE Len(q.options)
    BY RenderedLaya
  <1>3. Len(render_decider_options(q)) = IF q.kind = "noul" THEN 2 ELSE Len(q.options)
    BY RenderedType
  <1>. QED
    BY <1>1, <1>2, <1>3 DEF OptionCount

\* The markers of a row of Laya are its masks.
LEMMA LayaMasked ==
  ASSUME NEW d, NEW q \in Question, NEW n \in Nat, n = OptionCount(q), NEW r, NEW text,
         NEW max_len \in Nat, LayaRow(r, q, text, max_len, n, ShownOrder(q, n))
  PROVE  Masked(d, q, r)
PROOF
  <1>1. PICK order : order = ShownOrder(q, n)
    OBVIOUS
  <1>2. r \in Row /\ Len(r.markers) = n
    BY DEF LayaRow
  <1>3. PICK ids \in Seq(Token) : ids = r.ids
    BY <1>2 DEF Row
  <1>4. PICK markers \in Seq(Nat) : markers = r.markers
    BY <1>2 DEF Row
  <1>5. /\ \A s \in 1..n : /\ markers[s] \in 1..Len(ids)
                           /\ ids[markers[s]] = [id |-> "mask", of |-> <<"marker", order[s] + 1>>]
        /\ \A p \in 1..Len(ids) : ids[p].id = "mask" <=> \E s \in 1..n : p = markers[s]
    BY <1>1, <1>3, <1>4 DEF LayaRow
  <1>6. DOMAIN ids = 1..Len(ids) /\ DOMAIN markers = 1..n /\ Len(markers) = n
    BY <1>2, <1>4
  <1>7. {p \in DOMAIN ids : ids[p].id = "mask"} = ToSet(markers)
    <2>1. ToSet(markers) = {markers[s] : s \in 1..n}
      BY <1>6 DEF ToSet
    <2>2. ASSUME NEW p \in DOMAIN ids, ids[p].id = "mask" PROVE p \in ToSet(markers)
      BY <1>5, <1>6, <2>1, <2>2
    <2>3. ASSUME NEW s \in 1..n PROVE markers[s] \in DOMAIN ids /\ ids[markers[s]].id = "mask"
      BY <1>5, <1>6, <2>3
    <2>. QED
      BY <2>1, <2>2, <2>3
  <1>8. \A s \in 1..n : ids[markers[s]].of = <<"marker", order[s] + 1>>
    <2>1. SUFFICES ASSUME NEW s \in 1..n PROVE ids[markers[s]].of = <<"marker", order[s] + 1>>
      OBVIOUS
    <2>2. ids[markers[s]] = [id |-> "mask", of |-> <<"marker", order[s] + 1>>]
      BY <1>5
    <2>. QED
      BY <2>2
  <1>. QED
    BY <1>1, <1>3, <1>4, <1>6, <1>7, <1>8 DEF Masked

\* What a row of Laya keeps of its question.
LEMMA LayaWhole ==
  ASSUME NEW d, d.family = "laya", NEW q \in Question, NEW n \in Nat, n = OptionCount(q), n >= 1,
         ShownOrder(q, n) \in Seq(0..(n - 1)), Len(ShownOrder(q, n)) = n,
         \A o \in 0..(n - 1) : \E s \in 1..n : ShownOrder(q, n)[s] = o,
         NEW r, NEW text, NEW max_len, LayaRow(r, q, text, max_len, n, ShownOrder(q, n))
  PROVE  Whole(d, q, r)
PROOF
  <1>1. PICK order \in Seq(0..(n - 1)) : order = ShownOrder(q, n)
    OBVIOUS
  <1>2. N(r.ids, <<"question", 0>>) >= Least(Less(8, HeadTokens[q.kind]), Len(scrub(q.instructions)))
    BY DEF LayaRow
  <1>3. \A s \in 1..(n - 1) : N(r.ids, <<"option", order[s] + 1>>)
                             >= Least(3, Len(scrub(render_laya_options(q)[order[s] + 1])))
    BY <1>1 DEF LayaRow
  <1>4. ASSUME NEW o \in 1..n, o # order[n] + 1
        PROVE  Keeps(r, o, Take(scrub(render_laya_options(q)[o]), 3))
    <2>1. PICK k \in 0..(n - 1) : o = k + 1
      <3>1. o - 1 \in 0..(n - 1) /\ o = (o - 1) + 1
        OBVIOUS
      <3>. QED
        BY <3>1
    <2>2. PICK s \in 1..n : order[s] = k
      BY <1>1
    <2>3. s \in 1..(n - 1)
      BY <1>4, <2>1, <2>2
    <2>4. PICK piece : piece = render_laya_options(q)[o]
      OBVIOUS
    <2>5. N(r.ids, <<"option", o>>) >= Least(3, Len(scrub(piece)))
      BY <1>3, <2>1, <2>2, <2>3, <2>4
    <2>6. piece \in Seq(Kinds)
      <3>1. PICK rendered \in Seq(Seq(Kinds)) : rendered = render_laya_options(q)
        BY RenderedLaya
      <3>2. Len(rendered) = n
        BY <3>1, CountIs
      <3>. QED
        BY <2>4, <3>1, <3>2
    <2>7. PICK scrubbed \in Seq(Kinds) : scrubbed = scrub(piece)
      BY <2>6, ScrubType
    <2>8. Len(Take(scrubbed, 3)) = Least(3, Len(scrubbed))
      BY TakeType
    <2>. QED
      BY <2>4, <2>5, <2>7, <2>8 DEF Keeps
  <1>5. \A o \in 1..n : \/ o = ShownOrder(q, n)[n] + 1
                        \/ Keeps(r, o, Take(scrub(render_laya_options(q)[o]), 3))
    BY <1>1, <1>4
  <1>. QED
    BY <1>2, <1>5 DEF Whole

\* The row of Laya.
LEMMA LayaBuilt ==
  ASSUME NEW d, Ready(d), d.family = "laya", NEW q \in Question, Taken(d, q),
         NEW state \in Text, RowsOf(d, q, state) # << >>
  PROVE  /\ Scores(d, q, state, RowsOf(d, q, state))
         /\ \A k \in 1..Len(RowsOf(d, q, state)) : Right(d, q, state, RowsOf(d, q, state)[k])
PROOF
  <1>1. PICK max_len \in Nat : max_len = d.max_len /\ max_len >= 1
    BY DEF Ready
  <1>2. PICK h \in Nat : h = d.head_max_len
    BY DEF Ready
  <1>3. RowsOf(d, q, state) = encode_row(q, state, max_len, h)
    BY <1>1, <1>2 DEF RowsOf
  <1>4. PICK n \in Nat : n = OptionCount(q) /\ n = Len(render_laya_options(q))
    BY CountIs
  <1>5. (q.kind # "choice" => q.option_order = {}) /\ validate_laya_question(q)
    BY DEF Taken, validate
  <1>6. state \in Seq(Kinds)
    BY DEF Text
  <1>7. PICK r : /\ encode_row(q, state, max_len, h) = <<r>>
                 /\ LayaRow(r, q, scrub(state), max_len, n, ShownOrder(q, n))
    BY <1>1, <1>3, <1>4, <1>5, <1>6, LayaRows
  <1>8. /\ n >= 1
        /\ ShownOrder(q, n) \in Seq(0..(n - 1)) /\ Len(ShownOrder(q, n)) = n
        /\ \A o \in 0..(n - 1) : \E s \in 1..n : ShownOrder(q, n)[s] = o
    BY <1>4, <1>5, ShownOrderIs
  <1>9. Masked(d, q, r)
    BY <1>4, <1>7, LayaMasked
  <1>10. Whole(d, q, r)
    BY <1>4, <1>7, <1>8, LayaWhole
  <1>11. Windowed(d, state, r)
    BY <1>1, <1>7 DEF Windowed, LayaRow
  <1>12. r \in Row
    BY <1>7 DEF LayaRow
  <1>13. PICK seen : seen = [m \in DOMAIN r.markers |-> r.ids[r.markers[m]]]
    OBVIOUS
  <1>14. Seen(d, r) = seen /\ DOMAIN seen = 1..n /\ Len(seen) = n
    <2>1. r.markers \in Seq(Nat) /\ Len(r.markers) = n
      BY <1>7 DEF LayaRow, Row
    <2>2. DOMAIN r.markers = 1..n
      BY <2>1
    <2>. QED
      BY <1>13, <2>2 DEF Seen
  <1>15. \A o \in 1..n : seen[o].of = <<"marker", OptionAt(d, q, o)>>
    <2>1. SUFFICES ASSUME NEW o \in 1..n PROVE seen[o].of = <<"marker", OptionAt(d, q, o)>>
      OBVIOUS
    <2>2. r.ids[r.markers[o]] = [id |-> "mask", of |-> <<"marker", ShownOrder(q, n)[o] + 1>>]
      BY <1>7 DEF LayaRow
    <2>3. seen[o] = r.ids[r.markers[o]]
      BY <1>13, <1>14
    <2>4. OptionAt(d, q, o) = ShownOrder(q, n)[o] + 1
      BY <1>4 DEF OptionAt
    <2>. QED
      BY <2>2, <2>3, <2>4
  <1>16. <<r>> \in Seq(Row) /\ Len(<<r>>) = 1 /\ <<r>> # << >> /\ <<r>>[1] = r
    BY <1>12
  <1>17. Scores(d, q, state, <<r>>)
    <2>1. PICK built \in Seq(Row) : built = <<r>> /\ Len(built) = 1 /\ built # << >> /\ built[1] = r
      BY <1>16
    <2>2. /\ Len(Seen(d, built[1])) = n /\ DOMAIN Seen(d, built[1]) = 1..n
          /\ \A o \in 1..n : Seen(d, built[1])[o].of = <<"marker", OptionAt(d, q, o)>>
      BY <1>14, <1>15, <2>1
    <2>3. OptionCount(q) = n
      BY <1>4
    <2>4. Scores(d, q, state, built)
      BY <1>8, <2>1, <2>2, <2>3 DEF Scores, Isolated
    <2>. QED
      BY <2>1, <2>4
  <1>. QED
    BY <1>3, <1>7, <1>9, <1>10, <1>11, <1>12, <1>16, <1>17 DEF Right

\* A decider of slots takes no question without options.
LEMMA SlotsCount ==
  ASSUME NEW d, d.family = "slots", NEW q \in Question, Taken(d, q)
  PROVE  /\ OptionCount(q) \in Nat /\ OptionCount(q) >= 2
         /\ q.kind = "score" => OptionCount(q) = Len(q.options)
PROOF
  <1>1. Len(q.options) \in Nat /\ q.kind \in {"choice", "score", "noul"}
    BY DEF Question
  <1>2. validate_decider2b_question(q, d.max_options, d.max_levels)
    BY DEF Taken, validate
  <1>3. q.kind # "noul" => Len(q.options) >= 2
    BY <1>1, <1>2 DEF validate_decider2b_question
  <1>. QED
    BY <1>1, <1>3 DEF OptionCount

\* The row of the slots that lists the options.
LEMMA ListedBuilt ==
  ASSUME NEW d, Ready(d), d.family = "slots", NEW q \in Question, Taken(d, q),
         NEW state \in Text, RowsOf(d, q, state) # << >>, ~ (q.kind = "score" /\ d.isolated_levels)
  PROVE  /\ Scores(d, q, state, RowsOf(d, q, state))
         /\ \A k \in 1..Len(RowsOf(d, q, state)) : Right(d, q, state, RowsOf(d, q, state)[k])
PROOF
  <1>1. PICK max_len \in Nat : max_len = d.max_len /\ max_len >= 1
    BY DEF Ready
  <1>2. RowsOf(d, q, state) = encode_pair(q, state, d)
    BY DEF RowsOf
  <1>3. PICK n \in Nat : n = OptionCount(q) /\ n = Len(render_decider_options(q)) /\ n >= 2
    BY CountIs, SlotsCount
  <1>4. d.max_len \in Nat /\ d.max_len >= 1
    BY <1>1
  <1>5. PICK row \in Row :
           /\ encode_pair(q, state, d) = <<row>>
           /\ N(row.ids, <<"state", 0>>) = Least(d.max_len - 1, Len(state))
           /\ N(row.ids, <<"question", 0>>) = Len(q.instructions)
           /\ \A o \in 1..Len(render_decider_options(q)) :
                N(row.ids, <<"option", o>>) >= Len(render_decider_options(q)[o])
           /\ Only(row.ids, Id("letter")) =
                [o \in 1..Len(render_decider_options(q)) |-> Letter(o)]
    BY <1>2, <1>4, LetteredRow
  <1>6. Masked(d, q, row)
    BY DEF Masked
  <1>7. Whole(d, q, row)
    <2>1. \A o \in 1..n : Keeps(row, o, render_decider_options(q)[o])
      BY <1>3, <1>5 DEF Keeps
    <2>. QED
      BY <1>3, <1>5, <2>1 DEF Whole
  <1>8. Windowed(d, state, row)
    <2>1. Len(state) \in Nat
      BY DEF Text
    <2>2. PICK kept \in Nat : kept = N(row.ids, <<"state", 0>>)
      BY <1>1, <1>5, <2>1 DEF Least
    <2>3. kept + 1 <= max_len /\ (kept < Len(state) => kept + 1 = max_len)
      BY <1>1, <1>5, <2>1, <2>2 DEF Least
    <2>. QED
      BY <1>1, <2>2, <2>3 DEF Windowed
  <1>9. PICK seen : seen = [o \in 1..n |-> Letter(o)]
    OBVIOUS
  <1>10. Seen(d, row) = seen
    <2>1. Scored(d, row.ids) = Only(row.ids, Id("letter"))
      BY ScoredIs DEF Row
    <2>. QED
      BY <1>3, <1>5, <1>9, <2>1 DEF Seen
  <1>11. DOMAIN seen = 1..n /\ Len(seen) = n
    BY <1>9
  <1>12. \A o \in 1..n : seen[o].of = <<"marker", OptionAt(d, q, o)>>
    BY <1>9 DEF OptionAt, Letter
  <1>13. <<row>> \in Seq(Row) /\ Len(<<row>>) = 1 /\ <<row>> # << >> /\ <<row>>[1] = row
    OBVIOUS
  <1>14. Scores(d, q, state, <<row>>)
    <2>1. PICK built \in Seq(Row) :
            built = <<row>> /\ Len(built) = 1 /\ built # << >> /\ built[1] = row
      BY <1>13
    <2>2. /\ Len(Seen(d, built[1])) = n /\ DOMAIN Seen(d, built[1]) = 1..n
          /\ \A o \in 1..n : Seen(d, built[1])[o].of = <<"marker", OptionAt(d, q, o)>>
      BY <1>10, <1>11, <1>12, <2>1
    <2>3. OptionCount(q) = n
      BY <1>3
    <2>4. ~ Isolated(d, q)
      BY Zenon DEF Isolated
    <2>5. Scores(d, q, state, built)
      BY <1>3, <2>1, <2>2, <2>3, <2>4 DEF Scores
    <2>. QED
      BY <2>1, <2>5
  <1>. QED
    BY <1>2, <1>5, <1>6, <1>7, <1>8, <1>13, <1>14 DEF Right

\* The rows of the slots, one per level.
LEMMA IsolatedBuilt ==
  ASSUME NEW d, Ready(d), d.family = "slots", NEW q \in Question, Taken(d, q),
         NEW state \in Text, RowsOf(d, q, state) # << >>, q.kind = "score", d.isolated_levels
  PROVE  /\ Scores(d, q, state, RowsOf(d, q, state))
         /\ \A k \in 1..Len(RowsOf(d, q, state)) : Right(d, q, state, RowsOf(d, q, state)[k])
PROOF
  <1>1. PICK max_len \in Nat : max_len = d.max_len /\ max_len >= 1
    BY DEF Ready
  <1>2. RowsOf(d, q, state) = encode_pair(q, state, d)
    BY DEF RowsOf
  <1>3. PICK n \in Nat : n = OptionCount(q) /\ n = Len(q.options) /\ n >= 2
    BY SlotsCount
  <1>4. d.max_len \in Nat /\ d.max_len >= 1
    BY <1>1
  <1>5. PICK built : built = encode_pair(q, state, d)
    OBVIOUS
  <1>6. /\ built \in Seq(Row)
        /\ Len(built) = Len(q.options)
        /\ \A o \in 1..Len(q.options) : \E row \in Row :
              /\ built[o] = row
              /\ N(row.ids, <<"state", 0>>) = Least(d.max_len - 1, Len(state))
              /\ N(row.ids, <<"question", 0>>) = Len(q.instructions)
              /\ N(row.ids, <<"marker", o>>) = 1
              /\ N(row.ids, <<"option", o>>) >= Len(strip_level_number(q.options[o].text))
              /\ Only(row.ids, Id("letter")) = <<No(o), Letter(o)>>
    BY <1>4, <1>5, IsolatedRows
  <1>7. ASSUME NEW k \in 1..n
        PROVE  /\ Right(d, q, state, built[k])
               /\ Len(Seen(d, built[k])) = 2 /\ DOMAIN Seen(d, built[k]) = 1..2
               /\ Seen(d, built[k])[2].of = <<"marker", k>>
    <2>1. PICK row \in Row :
              /\ built[k] = row
              /\ N(row.ids, <<"state", 0>>) = Least(d.max_len - 1, Len(state))
              /\ N(row.ids, <<"question", 0>>) = Len(q.instructions)
              /\ N(row.ids, <<"marker", k>>) = 1
              /\ N(row.ids, <<"option", k>>) >= Len(strip_level_number(q.options[k].text))
              /\ Only(row.ids, Id("letter")) = <<No(k), Letter(k)>>
      BY <1>3, <1>6
    <2>2. Masked(d, q, row)
      BY DEF Masked
    <2>3. Whole(d, q, row)
      <3>1. \E o \in 1..n : /\ N(row.ids, <<"marker", o>>) = 1
                            /\ Keeps(row, o, strip_level_number(q.options[o].text))
        BY <2>1 DEF Keeps
      <3>. QED
        BY <1>3, <2>1, <3>1 DEF Whole
    <2>4. Windowed(d, state, row)
      <3>1. Len(state) \in Nat
        BY DEF Text
      <3>2. PICK kept \in Nat : kept = N(row.ids, <<"state", 0>>)
        BY <1>1, <2>1, <3>1 DEF Least
      <3>3. kept + 1 <= max_len /\ (kept < Len(state) => kept + 1 = max_len)
        BY <1>1, <2>1, <3>1, <3>2 DEF Least
      <3>. QED
        BY <1>1, <3>2, <3>3 DEF Windowed
    <2>5. Seen(d, row) = <<No(k), Letter(k)>>
      <3>1. Scored(d, row.ids) = Only(row.ids, Id("letter"))
        BY ScoredIs DEF Row
      <3>. QED
        BY <2>1, <3>1 DEF Seen
    <2>6. PICK seen : seen = <<No(k), Letter(k)>>
      OBVIOUS
    <2>7. Len(seen) = 2 /\ DOMAIN seen = 1..2 /\ seen[2] = Letter(k)
      BY <2>6
    <2>8. seen[2].of = <<"marker", k>>
      BY <2>7 DEF Letter
    <2>. QED
      BY <2>1, <2>2, <2>3, <2>4, <2>5, <2>6, <2>7, <2>8 DEF Right
  <1>8. Scores(d, q, state, built)
    <2>1. Len(built) = n
      BY <1>3, <1>6
    <2>2. built # << >> /\ Len(built) # 1
      BY <1>3, <1>6, <2>1
    <2>3. \A k \in 1..Len(built) :
            /\ Len(Seen(d, built[k])) = 2 /\ DOMAIN Seen(d, built[k]) = 1..2
            /\ Seen(d, built[k])[2].of = <<"marker", k>>
      BY <1>7, <2>1
    <2>4. OptionCount(q) \in Nat /\ OptionCount(q) >= 1 /\ Len(built) = OptionCount(q)
      BY <1>3, <2>1
    <2>5. Isolated(d, q)
      BY Zenon DEF Isolated
    <2>. QED
      BY <1>6, <2>2, <2>3, <2>4, <2>5 DEF Scores
  <1>. QED
    BY <1>2, <1>3, <1>5, <1>6, <1>7, <1>8

\* Whatever rows are built of a question, they are right, and its options are scored
\* in them.
LEMMA Built ==
  ASSUME NEW d, Ready(d), NEW q \in Question, Taken(d, q),
         NEW state \in Text, RowsOf(d, q, state) # << >>
  PROVE  /\ Scores(d, q, state, RowsOf(d, q, state))
         /\ \A k \in 1..Len(RowsOf(d, q, state)) : Right(d, q, state, RowsOf(d, q, state)[k])
PROOF
  <1>1. d.family \in {"gliclass", "laya", "slots"}
    BY DEF Ready, Families
  <1>2. CASE d.family = "gliclass"
    BY <1>2, GliclassBuilt
  <1>3. CASE d.family = "laya"
    BY <1>3, LayaBuilt
  <1>4. CASE d.family = "slots" /\ ~ (q.kind = "score" /\ d.isolated_levels)
    BY <1>4, ListedBuilt
  <1>5. CASE d.family = "slots" /\ q.kind = "score" /\ d.isolated_levels
    BY <1>5, IsolatedBuilt
  <1>. QED
    BY <1>1, <1>2, <1>3, <1>4, <1>5

\* Why a question has no rows.
TooLarge(d, q) ==
  CASE d.family = "gliclass" -> Len(label_text(q)) + 2 >= d.max_len
    [] d.family = "laya" -> Most(d.head_max_len, 4 * OptionCount(q) + 8) + 3 > d.max_len
    [] d.family = "slots" ->
         q.kind = "score" /\ ~d.isolated_levels /\ Len(q.options) > d.label_ids

\* A question has no rows only where it is too large by itself.
LEMMA NotBuilt ==
  ASSUME NEW d, Ready(d), NEW q \in Question, Taken(d, q),
         NEW state \in Text, RowsOf(d, q, state) = << >>
  PROVE  TooLarge(d, q)
PROOF
  <1>1. d.family \in {"gliclass", "laya", "slots"}
    BY DEF Ready, Families
  <1>2. PICK max_len \in Nat : max_len = d.max_len /\ max_len >= 1
    BY DEF Ready
  <1>3. CASE d.family = "gliclass"
    <2>1. PICK first \in BOOLEAN : first = d.prompt_first
      BY <1>3 DEF Ready
    <2>2. GliclassRow(q, state, max_len, first) = << >>
      BY <1>2, <1>3, <2>1 DEF RowsOf
    <2>. QED
      BY <1>2, <1>3, <2>2, GliclassFails DEF TooLarge
  <1>4. CASE d.family = "laya"
    <2>1. PICK h \in Nat : h = d.head_max_len
      BY <1>4 DEF Ready
    <2>2. encode_row(q, state, max_len, h) = << >>
      BY <1>2, <1>4, <2>1 DEF RowsOf
    <2>3. PICK n \in Nat : n = OptionCount(q) /\ n = Len(render_laya_options(q))
      BY CountIs
    <2>4. (q.kind # "choice" => q.option_order = {}) /\ validate_laya_question(q)
      BY <1>4 DEF Taken, validate
    <2>5. state \in Seq(Kinds)
      BY DEF Text
    <2>6. Most(h, 4 * n + 8) + 3 > max_len
      <3>1. \/ /\ encode_row(q, state, max_len, h) = << >>
               /\ Most(h, 4 * n + 8) + 3 > max_len
            \/ \E r : /\ encode_row(q, state, max_len, h) = <<r>>
                      /\ LayaRow(r, q, scrub(state), max_len, n, ShownOrder(q, n))
        BY <1>2, <2>3, <2>4, <2>5, LayaRows
      <3>2. \A r : << >> # <<r>>
        OBVIOUS
      <3>. QED
        BY <2>2, <3>1, <3>2
    <2>. QED
      BY <1>2, <1>4, <2>1, <2>3, <2>6 DEF TooLarge
  <1>5. CASE d.family = "slots"
    <2>1. encode_pair(q, state, d) = << >>
      BY <1>5 DEF RowsOf
    <2>2. /\ d.max_len \in Nat /\ d.max_len >= 1
          /\ d.max_options \in Nat /\ d.label_ids \in Nat /\ d.max_options <= d.label_ids
      BY <1>5 DEF Ready
    <2>3. validate_decider2b_question(q, d.max_options, d.max_levels)
      BY <1>5 DEF Taken, validate
    <2>. QED
      BY <1>5, <2>1, <2>2, <2>3, SlotsFails DEF TooLarge
  <1>. QED
    BY <1>1, <1>3, <1>4, <1>5

-----------------------------------------------------------------------------
(* The graph                                                               *)

Width(d, row) == IF d.family = "laya" THEN Len(row.markers) ELSE Len(Scored(d, row.ids))
Held == [item: Nat, row: Row]

\* What the graph says of a question whose rows are built.
Said(d, i, built, k, peaks) ==
  IF Len(built) = 1 THEN [c \in 1..k |-> Cell(d, [item |-> i, row |-> built[1]], c, peaks)]
  ELSE [o \in 1..k |->
          [Cell(d, [item |-> i, row |-> built[o]], 2, peaks) EXCEPT !.over = {d.row_temp}]]

\* Widest is a bound of all lengths.
LEMMA WidestIs ==
  ASSUME NEW lens \in Seq(Nat)
  PROVE  Widest(lens) \in Nat /\ \A r \in 1..Len(lens) : lens[r] <= Widest(lens)
PROOF
  <1>1. PICK S : S = {0} \cup ToSet(lens)
    OBVIOUS
  <1>2. S \subseteq Nat /\ 0 \in S /\ \A r \in 1..Len(lens) : lens[r] \in S
    BY <1>1 DEF ToSet
  <1>3. \E x \in S : \A y \in S : x >= y
    <2>1. CASE lens = << >>
      <3>1. S = {0}
        BY <1>1, <2>1 DEF ToSet
      <3>. QED
        BY <3>1
    <2>2. CASE lens # << >>
      <3>1. PICK o \in 1..Len(lens) :
              \A i \in 1..Len(lens) : lens[i] < lens[o] \/ (lens[i] = lens[o] /\ i <= o)
        BY <2>2, LastGreatest
      <3>2. lens[o] \in S /\ lens[o] \in Nat
        BY <1>2
      <3>3. \A i \in 1..Len(lens) : lens[i] <= lens[o]
        BY <3>1
      <3>4. \A y \in S : lens[o] >= y
        BY <1>1, <3>2, <3>3 DEF ToSet
      <3>. QED
        BY <3>2, <3>4
    <2>. QED
      BY <2>1, <2>2
  <1>4. PICK m : m = CHOOSE x \in S : \A y \in S : x >= y
    OBVIOUS
  <1>5. m \in S /\ \A y \in S : m >= y
    BY <1>3, <1>4
  <1>6. Widest(lens) = m
    BY <1>1, <1>4 DEF Widest, Max
  <1>. QED
    BY <1>2, <1>5, <1>6

\* As many tokens of a row are scored as it is wide.
LEMMA WidthIs ==
  ASSUME NEW d, NEW row \in Row
  PROVE  Width(d, row) \in Nat /\ DOMAIN Seen(d, row) = 1..Width(d, row)
PROOF
  <1>1. CASE d.family = "laya"
    <2>1. PICK markers \in Seq(Nat) : markers = row.markers
      BY DEF Row
    <2>2. Width(d, row) = Len(markers) /\ DOMAIN Seen(d, row) = DOMAIN markers
      BY <1>1, <2>1 DEF Width, Seen
    <2>. QED
      BY <2>2
  <1>2. CASE d.family # "laya"
    <2>1. PICK ids \in Seq(Token) : ids = row.ids
      BY DEF Row
    <2>2. PICK x : x = IF d.family = "gliclass" THEN "label" ELSE "letter"
      OBVIOUS
    <2>3. Scored(d, ids) = Only(ids, Id(x))
      BY <2>2, ScoredIs
    <2>4. PICK K : K = Id(x)
      OBVIOUS
    <2>5. PICK seen \in Seq(Token) : seen = Only(ids, K)
      BY OnlyType
    <2>6. Width(d, row) = Len(seen) /\ Seen(d, row) = seen
      BY <1>2, <2>1, <2>3, <2>4, <2>5 DEF Width, Seen
    <2>. QED
      BY <2>6
  <1>. QED
    BY <1>1, <1>2

\* There are columns for every row.
LEMMA ColumnsAre ==
  ASSUME NEW d, NEW rs \in Seq(Held)
  PROVE  /\ Columns(d, rs) \in Nat
         /\ \A r \in 1..Len(rs) : Width(d, rs[r].row) <= Columns(d, rs)
         /\ d.family = "laya" => Columns(d, rs) >= 2
PROOF
  <1>1. PICK n \in Nat : n = Len(rs) /\ DOMAIN rs = 1..n
    OBVIOUS
  <1>2. PICK lens : lens = [r \in 1..n |-> Width(d, rs[r].row)]
    OBVIOUS
  <1>3. \A r \in 1..n : rs[r].row \in Row
    <2>1. SUFFICES ASSUME NEW r \in 1..n PROVE rs[r].row \in Row
      OBVIOUS
    <2>2. rs[r] \in Held
      BY <1>1
    <2>. QED
      BY <2>2 DEF Held
  <1>4. lens \in [1..n -> Nat]
    BY <1>2, <1>3, WidthIs
  <1>5. lens \in Seq(Nat) /\ Len(lens) = n
    BY <1>4, FunctionIsSeq
  <1>6. PICK w \in Nat : w = Widest(lens) /\ \A r \in 1..n : lens[r] <= w
    BY <1>5, WidestIs
  <1>7. lens = [r \in DOMAIN rs |->
         IF d.family = "laya" THEN Len(rs[r].row.markers) ELSE Len(Scored(d, rs[r].row.ids))]
    BY <1>1, <1>2 DEF Width
  <1>8. Columns(d, rs) = Most(IF d.family = "laya" THEN 2 ELSE 0, w)
    BY <1>6, <1>7 DEF Columns
  <1>9. Columns(d, rs) \in Nat /\ Columns(d, rs) >= w /\ (d.family = "laya" => Columns(d, rs) >= 2)
    <2>1. CASE d.family = "laya"
      BY <1>8, <2>1 DEF Most
    <2>2. CASE d.family # "laya"
      BY <1>8, <2>2 DEF Most
    <2>. QED
      BY <2>1, <2>2
  <1>10. ASSUME NEW r \in 1..n PROVE Width(d, rs[r].row) <= Columns(d, rs)
    <2>1. lens[r] = Width(d, rs[r].row) /\ lens[r] \in Nat /\ lens[r] <= w
      BY <1>2, <1>4, <1>6
    <2>. QED
      BY <1>9, <2>1
  <1>. QED
    BY <1>1, <1>9, <1>10

\* A cell says whose it is, and of what token.
LEMMA CellIs ==
  ASSUME NEW d, NEW i, NEW row, NEW c, NEW peaks
  PROVE  /\ Cell(d, [item |-> i, row |-> row], c, peaks).item = i
         /\ Cell(d, [item |-> i, row |-> row], c, peaks).weight \in {1, 3}
         /\ Cell(d, [item |-> i, row |-> row], c, peaks).over = {}
         /\ c \in DOMAIN Seen(d, row) =>
              Cell(d, [item |-> i, row |-> row], c, peaks).of = Seen(d, row)[c].of
PROOF
  <1>1. PICK seen : seen = Seen(d, row)
    OBVIOUS
  <1>2. PICK of : of = IF c \in DOMAIN seen THEN seen[c].of ELSE <<"padding", 0>>
    OBVIOUS
  <1>3. Cell(d, [item |-> i, row |-> row], c, peaks) =
          [item |-> i, of |-> of, over |-> {},
           weight |-> IF of[1] = "marker" /\ of[2] \in peaks THEN 3 ELSE 1]
    BY <1>1, <1>2 DEF Cell, Seen
  <1>. QED
    BY <1>1, <1>2, <1>3

\* A cell is a record.
LEMMA CellRecord ==
  ASSUME NEW d, NEW r, NEW c, NEW peaks
  PROVE  Cell(d, r, c, peaks) \in [item: {r.item}, of: {Cell(d, r, c, peaks).of}, over: {{}},
                                   weight: {Cell(d, r, c, peaks).weight}]
BY DEF Cell

\* What is read of a question depends on its own rows, and on nothing else of the call.
LEMMA SaidIs ==
  ASSUME NEW d, NEW rs \in Seq(Held), NEW i \in Nat, NEW q, NEW state, NEW built,
         Scores(d, q, state, built), NEW plan \in Seq(Nat), Len(plan) = Len(built),
         \A k \in 1..Len(built) :
           plan[k] \in 1..Len(rs) /\ rs[plan[k]] = [item |-> i, row |-> built[k]],
         NEW peaks
  PROVE  Logits(d, Graph(d, rs, peaks), plan, OptionCount(q))
           = Said(d, i, built, OptionCount(q), peaks)
PROOF
  <1>1. PICK k \in Nat : k = OptionCount(q) /\ k >= 1
    BY DEF Scores
  <1>2. built \in Seq(Row) /\ built # << >>
    BY DEF Scores
  <1>3. PICK columns \in Nat : /\ columns = Columns(d, rs)
                               /\ \A r \in 1..Len(rs) : Width(d, rs[r].row) <= columns
    BY ColumnsAre
  <1>4. PICK outs : outs = Graph(d, rs, peaks)
    OBVIOUS
  <1>5. DOMAIN rs = 1..Len(rs) /\ Len(rs) \in Nat
    OBVIOUS
  <1>6. outs = [r \in 1..Len(rs) |-> [c \in 1..columns |-> Cell(d, rs[r], c, peaks)]]
    BY <1>3, <1>4, <1>5 DEF Graph
  <1>7. CASE Len(built) = 1
    <2>1. PICK row \in Row : row = built[1]
      BY <1>2, <1>7
    <2>2. PICK r \in 1..Len(rs) : r = plan[1] /\ rs[r] = [item |-> i, row |-> row]
      BY <1>7, <2>1
    <2>3. PICK cells : cells = [c \in 1..columns |-> Cell(d, rs[r], c, peaks)]
      OBVIOUS
    <2>4. PICK S : S = {cells[c] : c \in 1..columns}
      OBVIOUS
    <2>5. cells \in [1..columns -> S]
      BY <2>3, <2>4
    <2>6. cells \in Seq(S) /\ Len(cells) = columns
      BY <2>5, FunctionIsSeq
    <2>7. k <= columns
      <3>1. Len(Seen(d, row)) \in Nat /\ Len(Seen(d, row)) >= k /\ DOMAIN Seen(d, row) = 1..Len(Seen(d, row))
        BY <1>1, <1>7, <2>1 DEF Scores
      <3>2. Width(d, row) \in Nat /\ DOMAIN Seen(d, row) = 1..Width(d, row)
        BY WidthIs
      <3>3. Width(d, row) <= columns
        BY <1>3, <2>2
      <3>4. k \in 1..Len(Seen(d, row))
        BY <1>1, <3>1
      <3>5. k \in 1..Width(d, row)
        BY <3>1, <3>2, <3>4
      <3>. QED
        BY <3>2, <3>3, <3>5
    <2>8. Least(k, columns) = k
      BY <2>7 DEF Least
    <2>9. Take(cells, k) = SubSeq(cells, 1, k)
      BY <2>6, <2>8 DEF Take
    <2>10. PICK said : said = [c \in 1..k |-> Cell(d, [item |-> i, row |-> row], c, peaks)]
      OBVIOUS
    <2>11. SubSeq(cells, 1, k) = [c \in 1..k |-> cells[c]]
      <3>1. SubSeq(cells, 1, k) \in Seq(S) /\ Len(SubSeq(cells, 1, k)) = k
            /\ \A c \in 1..k : SubSeq(cells, 1, k)[c] = cells[c]
        BY <1>1, <2>6, <2>7
      <3>2. DOMAIN SubSeq(cells, 1, k) = 1..k
        BY <1>1, <3>1
      <3>3. SubSeq(cells, 1, k) = [c \in DOMAIN SubSeq(cells, 1, k) |-> SubSeq(cells, 1, k)[c]]
        BY <3>1
      <3>. QED
        BY <3>1, <3>2, <3>3
    <2>12. [c \in 1..k |-> cells[c]] = said
      BY <2>2, <2>3, <2>7, <2>10
    <2>13. outs[plan[1]] = cells
      BY <1>6, <2>2, <2>3
    <2>14. Logits(d, outs, plan, k) = Take(cells, k)
      BY <1>7, <2>13 DEF Logits, option_logits
    <2>15. Said(d, i, built, k, peaks) = said
      BY <1>7, <2>1, <2>10 DEF Said
    <2>. QED
      BY <1>1, <1>4, <2>9, <2>11, <2>12, <2>14, <2>15
  <1>8. CASE Len(built) # 1
    <2>1. Len(built) = k /\ \A o \in 1..k : DOMAIN Seen(d, built[o]) = 1..2
      BY <1>1, <1>8 DEF Scores
    <2>2. ASSUME NEW o \in 1..k
          PROVE  outs[plan[o]][2] = Cell(d, [item |-> i, row |-> built[o]], 2, peaks)
      <3>1. PICK row \in Row : row = built[o]
        BY <1>2, <2>1
      <3>2. PICK r \in 1..Len(rs) : r = plan[o] /\ rs[r] = [item |-> i, row |-> row]
        BY <2>1, <3>1
      <3>3. Width(d, row) \in Nat /\ DOMAIN Seen(d, row) = 1..Width(d, row)
        BY WidthIs
      <3>4. Width(d, row) <= columns
        BY <1>3, <3>2
      <3>5. 2 \in 1..Width(d, row)
        <4>1. DOMAIN Seen(d, row) = 1..2
          BY <2>1, <3>1
        <4>2. 2 \in 1..2
          OBVIOUS
        <4>. QED
          BY <3>3, <4>1, <4>2
      <3>6. 2 \in 1..columns
        BY <3>3, <3>4, <3>5
      <3>. QED
        BY <1>6, <3>1, <3>2, <3>6
    <2>3. Logits(d, outs, plan, k) =
            [o \in 1..k |-> [outs[plan[o]][2] EXCEPT !.over = {d.row_temp}]]
      <3>1. d.family = "slots"
        BY <1>8 DEF Scores
      <3>. QED
        BY <1>8, <3>1 DEF Logits, option_logits
    <2>4. Said(d, i, built, k, peaks) =
            [o \in 1..k |->
               [Cell(d, [item |-> i, row |-> built[o]], 2, peaks) EXCEPT !.over = {d.row_temp}]]
      BY <1>8 DEF Said
    <2>. QED
      BY <1>1, <1>4, <2>2, <2>3, <2>4
  <1>. QED
    BY <1>7, <1>8

-----------------------------------------------------------------------------
(* The answer                                                              *)

\* Scores of k options.
Opinion(p, k) ==
  /\ k \in Nat /\ k >= 1 /\ DOMAIN p = 1..k /\ Len(p) = k /\ p = [o \in 1..k |-> p[o]]
  /\ \A o \in 1..k : p[o].weight \in {1, 3}

\* What is read of a question is an opinion on its options, in the order shown.
LEMMA SaidOf ==
  ASSUME NEW d, NEW q, NEW state, NEW built, Scores(d, q, state, built), NEW i, NEW peaks
  PROVE  /\ Opinion(Said(d, i, built, OptionCount(q), peaks), OptionCount(q))
         /\ \A o \in 1..OptionCount(q) :
              /\ Said(d, i, built, OptionCount(q), peaks)[o].item = i
              /\ Said(d, i, built, OptionCount(q), peaks)[o].over = Over(d, q)
              /\ FindsItsOptionsIn(d, q, state) =>
                   Said(d, i, built, OptionCount(q), peaks)[o].of = <<"marker", OptionAt(d, q, o)>>
PROOF
  <1>1. PICK k \in Nat : k = OptionCount(q) /\ k >= 1
    BY DEF Scores
  <1>2. PICK p : p = Said(d, i, built, k, peaks)
    OBVIOUS
  <1>3. DOMAIN p = 1..k
    BY <1>2 DEF Said
  <1>4. Len(p) = k
    <2>1. PICK S : S = {p[o] : o \in 1..k}
      OBVIOUS
    <2>2. p = [o \in 1..k |-> p[o]]
      BY <1>2 DEF Said
    <2>3. p \in [1..k -> S]
      BY <2>1, <2>2
    <2>. QED
      BY <2>3, FunctionIsSeq
  <1>5. ASSUME NEW o \in 1..k
        PROVE  /\ p[o].item = i /\ p[o].weight \in {1, 3} /\ p[o].over = Over(d, q)
               /\ FindsItsOptionsIn(d, q, state) => p[o].of = <<"marker", OptionAt(d, q, o)>>
    <2>1. CASE Len(built) = 1
      <3>1. PICK row : row = built[1]
        OBVIOUS
      <3>2. p[o] = Cell(d, [item |-> i, row |-> row], o, peaks)
        BY <1>2, <2>1, <3>1 DEF Said
      <3>3. /\ p[o].item = i /\ p[o].weight \in {1, 3} /\ p[o].over = {}
            /\ o \in DOMAIN Seen(d, row) => p[o].of = Seen(d, row)[o].of
        <4>1. PICK cell : cell = Cell(d, [item |-> i, row |-> row], o, peaks)
          OBVIOUS
        <4>2. /\ cell.item = i /\ cell.weight \in {1, 3} /\ cell.over = {}
              /\ o \in DOMAIN Seen(d, row) => cell.of = Seen(d, row)[o].of
          BY <4>1, CellIs
        <4>. QED
          BY <3>2, <4>1, <4>2
      <3>4. o \in DOMAIN Seen(d, row)
        BY <1>1, <2>1, <3>1 DEF Scores
      <3>5. FindsItsOptionsIn(d, q, state) => Seen(d, row)[o].of = <<"marker", OptionAt(d, q, o)>>
        BY <1>1, <2>1, <3>1 DEF Scores
      <3>6. Over(d, q) = {}
        BY <2>1 DEF Scores, Over
      <3>. QED
        BY <3>3, <3>4, <3>5, <3>6
    <2>2. CASE Len(built) # 1
      <3>1. PICK row : row = built[o]
        OBVIOUS
      <3>2. PICK cell : cell = Cell(d, [item |-> i, row |-> row], 2, peaks)
        OBVIOUS
      <3>3. /\ cell.item = i /\ cell.weight \in {1, 3}
            /\ 2 \in DOMAIN Seen(d, row) => cell.of = Seen(d, row)[2].of
        BY <3>2, CellIs
      <3>4. p[o] = [cell EXCEPT !.over = {d.row_temp}]
        BY <1>2, <2>2, <3>1, <3>2 DEF Said
      <3>5. p[o].item = i /\ p[o].of = cell.of /\ p[o].over = {d.row_temp} /\ p[o].weight = cell.weight
        <4>1. cell \in [item: {[item |-> i, row |-> row].item}, of: {cell.of}, over: {{}},
                        weight: {cell.weight}]
          BY <3>2, CellRecord
        <4>. QED
          BY <3>3, <3>4, <4>1
      <3>6. Over(d, q) = {d.row_temp}
        BY <2>2 DEF Scores, Over
      <3>7. /\ d.family = "slots" /\ Len(built) = k
            /\ DOMAIN Seen(d, row) = 1..2 /\ Seen(d, row)[2].of = <<"marker", o>>
        BY <1>1, <2>2, <3>1 DEF Scores
      <3>8. 2 \in DOMAIN Seen(d, row)
        BY <3>7
      <3>9. OptionAt(d, q, o) = o
        BY <3>7 DEF OptionAt
      <3>. QED
        BY <3>7, <3>8, <3>9, <3>3, <3>5, <3>6
    <2>. QED
      BY <2>1, <2>2
  <1>6. Opinion(p, k)
    <2>1. p = [o \in 1..k |-> p[o]]
      BY <1>2 DEF Said
    <2>. QED
      BY <1>1, <1>3, <1>4, <1>5, <2>1 DEF Opinion
  <1>. QED
    BY <1>1, <1>2, <1>5, <1>6

\* There is a winner, and its share is one.
LEMMA ConfidenceIs ==
  ASSUME NEW p, NEW k, Opinion(p, k)
  PROVE  /\ Winner(p) \in 1..k
         /\ answer_confidence(p) \in 0..100
PROOF
  <1>1. k \in Nat /\ k >= 1 /\ DOMAIN p = 1..k
    BY DEF Opinion
  <1>2. PICK w : w = [o \in 1..k |-> p[o].weight]
    OBVIOUS
  <1>3. w \in [1..k -> Nat] /\ \A o \in 1..k : w[o] \in {1, 3} /\ w[o] = p[o].weight
    BY <1>2 DEF Opinion
  <1>4. w \in Seq(Nat) /\ Len(w) = k
    BY <1>1, <1>3, FunctionIsSeq
  <1>5. w # << >>
    BY <1>1, <1>4
  <1>6. PICK o \in 1..k : \A i \in 1..k : w[i] < w[o] \/ (w[i] = w[o] /\ i <= o)
    BY <1>4, <1>5, LastGreatest
  <1>7. \A i \in DOMAIN p : p[i].weight < p[o].weight \/ (p[i].weight = p[o].weight /\ i <= o)
    BY <1>1, <1>3, <1>6
  <1>8. Winner(p) \in 1..k
    <2>1. \E x \in DOMAIN p : \A i \in DOMAIN p :
             p[i].weight < p[x].weight \/ (p[i].weight = p[x].weight /\ i <= x)
      BY <1>1, <1>7
    <2>. QED
      BY <1>1, <2>1, Zenon DEF Winner
  <1>9. PICK x \in 1..k : x = Winner(p)
    BY <1>8
  <1>10. PICK t \in Nat : t = Total(w) /\ w[x] <= t
    BY <1>4, TotalCovers
  <1>11. answer_confidence(p) = (100 * w[x]) \div t
    BY <1>1, <1>2, <1>3, <1>9, <1>10 DEF answer_confidence
  <1>12. w[x] \in Nat /\ w[x] >= 1
    BY <1>3
  <1>13. PICK v \in Nat : v = w[x] /\ v >= 1 /\ v <= t
    BY <1>10, <1>12
  <1>14. t \in Nat /\ t >= 1
    BY <1>13
  <1>15. (100 * v) \div t \in 0..100
    <2>1. PICK a \in Nat : a = 100 * v /\ a <= 100 * t
      BY <1>13
    <2>2. a \div t \in 0..100
      BY <1>14, <2>1
    <2>. QED
      BY <2>1, <2>2
  <1>. QED
    BY <1>8, <1>11, <1>13, <1>15

\* A map keeps a confidence in range.
LEMMA MappedIs ==
  ASSUME NEW confidence \in 0..100, NEW bucket, NEW map, Bins(map)
  PROVE  apply_binning_map(confidence, bucket, map) \in 0..100
PROOF
  <1>1. CASE bucket \notin DOMAIN map
    BY <1>1 DEF apply_binning_map
  <1>2. CASE bucket \in DOMAIN map
    <2>1. PICK n \in Nat : n = map[bucket].bins /\ n >= 1
      BY <1>2 DEF Bins
    <2>2. PICK values \in Seq(0..100) : values = map[bucket].values /\ Len(values) = n
      BY <1>2, <2>1 DEF Bins
    <2>3. PICK a \in Nat : a = confidence * n
      BY <2>1
    <2>4. PICK b \in Nat : b = a \div 100
      BY <2>3
    <2>5. Least(b, n - 1) + 1 \in 1..n
      BY <2>1, <2>4 DEF Least
    <2>6. PICK x \in 1..n : x = Least(b, n - 1) + 1
      BY <2>5
    <2>7. apply_binning_map(confidence, bucket, map) = values[x]
      BY <1>2, <2>1, <2>2, <2>3, <2>4, <2>6 DEF apply_binning_map
    <2>8. values[x] \in 0..100
      <3>1. PICK S : S = 0..100
        OBVIOUS
      <3>2. values \in Seq(S) /\ x \in 1..Len(values)
        BY <2>2, <2>6, <3>1
      <3>3. values[x] \in S
        BY <3>2
      <3>. QED
        BY <3>1, <3>3
    <2>. QED
      BY <2>7, <2>8
  <1>. QED
    BY <1>1, <1>2

\* In the caller's order, an option has the score of the slot it was shown in.
LEMMA UnpermuteIs ==
  ASSUME NEW q \in Question, NEW n \in Nat, NEW p, Opinion(p, n),
         \A o \in 0..(n - 1) : \E s \in 1..n : ShownOrder(q, n)[s] = o
  PROVE  /\ DOMAIN unpermute(p, q) = 1..n
         /\ unpermute(p, q) = [o \in 1..n |-> unpermute(p, q)[o]]
         /\ \A o \in 1..n : \E s \in 1..n :
              unpermute(p, q)[o] = p[s] /\ ShownOrder(q, n)[s] = o - 1
PROOF
  <1>1. DOMAIN p = 1..n
    BY DEF Opinion
  <1>2. CASE q.option_order = {}
    <2>1. unpermute(p, q) = p
      BY <1>2 DEF unpermute
    <2>2. \A o \in 1..n : ShownOrder(q, n)[o] = o - 1
      BY <1>2 DEF ShownOrder
    <2>3. p = [o \in 1..n |-> p[o]]
      BY DEF Opinion
    <2>. QED
      BY <1>1, <2>1, <2>2, <2>3
  <1>3. CASE q.option_order # {}
    <2>1. PICK order : order = CHOOSE x \in q.option_order : TRUE
      OBVIOUS
    <2>2. ShownOrder(q, n) = order
      BY <1>3, <2>1 DEF ShownOrder
    <2>3. unpermute(p, q) = [o \in 1..n |-> p[CHOOSE s \in 1..n : order[s] = o - 1]]
      BY <1>1, <1>3, <2>1 DEF unpermute
    <2>4. ASSUME NEW o \in 1..n
          PROVE  \E s \in 1..n : unpermute(p, q)[o] = p[s] /\ order[s] = o - 1
      <3>1. PICK b \in 0..(n - 1) : b = o - 1
        OBVIOUS
      <3>2. \E s \in 1..n : order[s] = b
        BY <2>2
      <3>3. PICK t : t = CHOOSE s \in 1..n : order[s] = b
        OBVIOUS
      <3>4. t \in 1..n /\ order[t] = b
        BY <3>2, <3>3
      <3>5. unpermute(p, q)[o] = p[t]
        BY <2>3, <3>1, <3>3
      <3>. QED
        BY <3>1, <3>4, <3>5
    <2>5. unpermute(p, q) = [o \in 1..n |-> unpermute(p, q)[o]]
      BY <2>3
    <2>. QED
      BY <2>2, <2>3, <2>4, <2>5
  <1>. QED
    BY <1>2, <1>3

\* What is to be said of the answer to question i.
Verdict(a, d, q, state, i) ==
  /\ a.answer_confidence \in 0..100
  /\ Len(a.probabilities) = OptionCount(q) /\ DOMAIN a.probabilities = 1..OptionCount(q)
  /\ \A o \in 1..OptionCount(q) : a.probabilities[o].over = Over(d, q)
  /\ FindsItsOptionsIn(d, q, state) =>
       \A o \in 1..OptionCount(q) :
         a.probabilities[o].item = i /\ a.probabilities[o].of = <<"marker", o>>

\* The temperature of an answer is accounted for.
Warm(a, d, c, q) ==
  d.family # "gliclass" =>
    Accounted(a.temperature, d, c, qtype_of(q), temp_bucket(qtype_of(q), OptionCount(q)))

\* There are three kinds of questions.
LEMMA QtypeIs ==
  ASSUME NEW q \in Question
  PROVE  qtype_of(q) \in 1..3
BY DEF qtype_of, Question

\* GLiClass's answer.
LEMMA GliclassVerdict ==
  ASSUME NEW d, d.family = "gliclass", NEW c, NEW q, NEW state, NEW i, NEW p, NEW k, k = OptionCount(q),
         Opinion(p, k),
         \A o \in 1..k : p[o].over = Over(d, q),
         \A o \in 1..k : p[o].item = i /\ (FindsItsOptionsIn(d, q, state) =>
                                             p[o].of = <<"marker", OptionAt(d, q, o)>>)
  PROVE  Verdict(decode_gliclass_row(p), d, q, state, i) /\ Warm(decode_gliclass_row(p), d, c, q)
PROOF
  <1>1. PICK x \in 1..k : x = Winner(p)
    BY ConfidenceIs
  <1>2. p[x].weight \in 0..100
    BY DEF Opinion
  <1>3. PICK a : a = decode_gliclass_row(p)
    OBVIOUS
  <1>4. a.probabilities = p /\ a.answer_confidence = p[x].weight
    BY <1>1, <1>3 DEF decode_gliclass_row, Answer
  <1>5. \A o : OptionAt(d, q, o) = o
    BY DEF OptionAt
  <1>6. Len(p) = k /\ DOMAIN p = 1..k
    BY DEF Opinion
  <1>. QED
    BY <1>2, <1>3, <1>4, <1>5, <1>6 DEF Verdict, Warm

\* The answer of the slots.
LEMMA SlotsVerdict ==
  ASSUME NEW d, d.family = "slots", NEW c \in Checkpoints, d.family = c.family, Tempered(d, c),
         NEW q \in Question, NEW state, NEW i, NEW p, NEW k, k = OptionCount(q), Opinion(p, k),
         \A o \in 1..k : p[o].over = Over(d, q),
         \A o \in 1..k : p[o].item = i /\ (FindsItsOptionsIn(d, q, state) =>
                                             p[o].of = <<"marker", OptionAt(d, q, o)>>)
  PROVE  /\ Verdict(decode_decider2b_row(p, q, d.temps), d, q, state, i)
         /\ Warm(decode_decider2b_row(p, q, d.temps), d, c, q)
PROOF
  <1>1. PICK a : a = decode_decider2b_row(p, q, d.temps)
    OBVIOUS
  <1>2. /\ a.probabilities = p /\ a.answer_confidence = answer_confidence(p)
        /\ a.temperature = d.temps.triple[qtype_of(q)]
    BY <1>1 DEF decode_decider2b_row, Answer
  <1>3. a.answer_confidence \in 0..100
    BY <1>2, ConfidenceIs
  <1>4. \A o : OptionAt(d, q, o) = o
    BY DEF OptionAt
  <1>5. Len(p) = k /\ DOMAIN p = 1..k
    BY DEF Opinion
  <1>6. Verdict(a, d, q, state, i)
    BY <1>2, <1>3, <1>4, <1>5 DEF Verdict
  <1>7. Accounted(a.temperature, d, c, qtype_of(q), temp_bucket(qtype_of(q), OptionCount(q)))
    <2>1. PICK qtype \in 1..3 : qtype = qtype_of(q)
      BY QtypeIs
    <2>. QED
      BY <1>2, <2>1, TripleScaleIs
  <1>. QED
    BY <1>1, <1>6, <1>7 DEF Warm

\* Laya's answer.
LEMMA LayaVerdict ==
  ASSUME NEW d, d.family = "laya", NEW c \in Checkpoints, d.family = c.family, Tempered(d, c),
         NEW q \in Question, NEW state, NEW i, NEW p, NEW k \in Nat, k = OptionCount(q), Opinion(p, k),
         \A o \in 0..(k - 1) : \E s \in 1..k : ShownOrder(q, k)[s] = o,
         ShownOrder(q, k) \in Seq(0..(k - 1)), Len(ShownOrder(q, k)) = k,
         \A o \in 1..k : p[o].over = Over(d, q),
         \A o \in 1..k : p[o].item = i /\ p[o].of = <<"marker", OptionAt(d, q, o)>>,
         NEW map, Bins(map)
  PROVE  /\ Verdict(decode_laya_row(p, q, d.temps, map), d, q, state, i)
         /\ Warm(decode_laya_row(p, q, d.temps, map), d, c, q)
PROOF
  <1>1. PICK a : a = decode_laya_row(p, q, d.temps, map)
    OBVIOUS
  <1>2. PICK canon : canon = unpermute(p, q)
    OBVIOUS
  <1>3. Len(p) = k
    BY DEF Opinion
  <1>4. PICK qtype \in 1..3 : qtype = qtype_of(q)
    BY QtypeIs
  <1>5. /\ a.probabilities = canon
        /\ a.answer_confidence =
             apply_binning_map(answer_confidence(canon), temp_bucket(qtype, k), map)
        /\ a.temperature = scale(d.temps, qtype, k)
    BY <1>1, <1>2, <1>3, <1>4 DEF decode_laya_row, Answer
  <1>6. /\ DOMAIN canon = 1..k
        /\ canon = [o \in 1..k |-> canon[o]]
        /\ \A o \in 1..k : \E s \in 1..k : canon[o] = p[s] /\ ShownOrder(q, k)[s] = o - 1
    <2>1. \A o \in 0..(k - 1) : \E s \in 1..k : ShownOrder(q, k)[s] = o
      OBVIOUS
    <2>2. /\ DOMAIN unpermute(p, q) = 1..k
          /\ unpermute(p, q) = [o \in 1..k |-> unpermute(p, q)[o]]
          /\ \A o \in 1..k : \E s \in 1..k :
               unpermute(p, q)[o] = p[s] /\ ShownOrder(q, k)[s] = o - 1
      BY <2>1, UnpermuteIs
    <2>. QED
      BY <1>2, <2>2
  <1>7. Len(canon) = k
    <2>1. PICK S : S = {canon[o] : o \in 1..k}
      OBVIOUS
    <2>2. canon \in [1..k -> S]
      BY <1>6, <2>1
    <2>. QED
      BY <2>2, FunctionIsSeq
  <1>8. ASSUME NEW o \in 1..k
        PROVE  /\ canon[o].weight \in {1, 3} /\ canon[o].item = i
               /\ canon[o].over = Over(d, q)
               /\ canon[o].of = <<"marker", o>>
    <2>1. PICK s \in 1..k : canon[o] = p[s] /\ ShownOrder(q, k)[s] = o - 1
      BY <1>6
    <2>2. OptionAt(d, q, s) = o
      BY <2>1 DEF OptionAt
    <2>3. /\ p[s].weight \in {1, 3} /\ p[s].item = i /\ p[s].of = <<"marker", OptionAt(d, q, s)>>
          /\ p[s].over = Over(d, q)
      BY DEF Opinion
    <2>. QED
      BY <2>1, <2>2, <2>3
  <1>9. Opinion(canon, k)
    <2>1. k \in Nat /\ k >= 1
      BY DEF Opinion
    <2>. QED
      BY <1>6, <1>7, <1>8, <2>1 DEF Opinion
  <1>10. a.answer_confidence \in 0..100
    <2>1. PICK confidence \in 0..100 : confidence = answer_confidence(canon)
      BY <1>9, ConfidenceIs
    <2>2. PICK bucket : bucket = temp_bucket(qtype, k)
      OBVIOUS
    <2>3. apply_binning_map(confidence, bucket, map) \in 0..100
      BY MappedIs
    <2>. QED
      BY <1>5, <2>1, <2>2, <2>3
  <1>11. Verdict(a, d, q, state, i)
    BY <1>5, <1>6, <1>7, <1>8, <1>10 DEF Verdict
  <1>12. Accounted(a.temperature, d, c, qtype, temp_bucket(qtype, k))
    BY <1>5, ScaleIs
  <1>. QED
    BY <1>1, <1>4, <1>11, <1>12 DEF Warm

\* Whatever is read of its rows, the answer to a question is about its options, its
\* confidence is one, and its temperature is accounted for.
LEMMA DecodedIs ==
  ASSUME NEW d, Ready(d), NEW c \in Checkpoints, d.family = c.family,
         d.family # "gliclass" => Tempered(d, c), NEW q \in Question, Taken(d, q), NEW state,
         NEW built, Scores(d, q, state, built), NEW i, NEW peaks, NEW outs, NEW plan,
         Logits(d, outs, plan, OptionCount(q)) = Said(d, i, built, OptionCount(q), peaks),
         Bins(binning)
  PROVE  Verdict(Decoded(d, outs, plan, q), d, q, state, i) /\ Warm(Decoded(d, outs, plan, q), d, c, q)
PROOF
  <1>1. PICK k \in Nat : k = OptionCount(q)
    BY CountIs
  <1>2. PICK p : p = Said(d, i, built, k, peaks)
    OBVIOUS
  <1>3. /\ Opinion(p, k)
        /\ \A o \in 1..k : p[o].over = Over(d, q)
        /\ \A o \in 1..k : p[o].item = i /\ (FindsItsOptionsIn(d, q, state) =>
                                               p[o].of = <<"marker", OptionAt(d, q, o)>>)
    <2>1. /\ Opinion(Said(d, i, built, OptionCount(q), peaks), OptionCount(q))
          /\ \A o \in 1..OptionCount(q) :
               /\ Said(d, i, built, OptionCount(q), peaks)[o].item = i
               /\ Said(d, i, built, OptionCount(q), peaks)[o].over = Over(d, q)
               /\ FindsItsOptionsIn(d, q, state) =>
                    Said(d, i, built, OptionCount(q), peaks)[o].of = <<"marker", OptionAt(d, q, o)>>
      BY SaidOf
    <2>. QED
      BY <1>1, <1>2, <2>1
  <1>4. PICK map : map = binning
    OBVIOUS
  <1>5. d.family \in {"gliclass", "laya", "slots"}
    BY DEF Ready, Families
  <1>6. CASE d.family = "gliclass"
    <2>1. Decoded(d, outs, plan, q) = decode_gliclass_row(p)
      BY <1>1, <1>2, <1>6 DEF Decoded
    <2>. QED
      BY <1>1, <1>3, <1>6, <2>1, GliclassVerdict
  <1>7. CASE d.family = "slots"
    <2>1. Decoded(d, outs, plan, q) = decode_decider2b_row(p, q, d.temps)
      BY <1>1, <1>2, <1>7 DEF Decoded
    <2>2. Tempered(d, c)
      BY <1>7
    <2>. QED
      BY <1>1, <1>3, <1>7, <2>1, <2>2, SlotsVerdict
  <1>8. CASE d.family = "laya"
    <2>1. Decoded(d, outs, plan, q) = decode_laya_row(p, q, d.temps, map)
      BY <1>1, <1>2, <1>4, <1>8 DEF Decoded
    <2>2. Tempered(d, c)
      BY <1>8
    <2>3. FindsItsOptionsIn(d, q, state)
      BY <1>8 DEF FindsItsOptionsIn
    <2>4. (q.kind # "choice" => q.option_order = {}) /\ validate_laya_question(q)
      BY <1>8 DEF Taken, validate
    <2>5. k = Len(render_laya_options(q))
      BY <1>1, CountIs
    <2>6. /\ k >= 1
          /\ ShownOrder(q, k) \in Seq(0..(k - 1)) /\ Len(ShownOrder(q, k)) = k
          /\ \A o \in 0..(k - 1) : \E s \in 1..k : ShownOrder(q, k)[s] = o
      BY <2>4, <2>5, ShownOrderIs
    <2>7. \A o \in 1..k : p[o].item = i /\ p[o].of = <<"marker", OptionAt(d, q, o)>>
      BY <1>3, <2>3
    <2>8. Bins(map)
      BY <1>4
    <2>9. /\ Verdict(decode_laya_row(p, q, d.temps, map), d, q, state, i)
          /\ Warm(decode_laya_row(p, q, d.temps, map), d, c, q)
      <3>1. d.family = c.family /\ k = OptionCount(q) /\ Opinion(p, k)
        BY <1>1, <1>3
      <3>2. ShownOrder(q, k) \in Seq(0..(k - 1)) /\ Len(ShownOrder(q, k)) = k
        BY <2>6
      <3>3. \A o \in 0..(k - 1) : \E s \in 1..k : ShownOrder(q, k)[s] = o
        BY <2>6
      <3>4. \A o \in 1..k : p[o].over = Over(d, q)
        BY <1>3
      <3>. QED
        BY <1>8, <2>2, <2>7, <2>8, <3>1, <3>2, <3>3, <3>4, LayaVerdict, ZenonT(60)
    <2>. QED
      BY <2>1, <2>9
  <1>. QED
    BY <1>5, <1>6, <1>7, <1>8

-----------------------------------------------------------------------------
(* A call                                                                  *)

Called(d, cs) ==
  /\ cs \in Seq([state: Text, q: Question])
  /\ \A i \in 1..Len(cs) : Taken(d, cs[i].q)

BuiltOf(d, cs, i) == RowsOf(d, cs[i].q, cs[i].state)

\* The rows of the questions that have a plan are there, and no others.
Planned(d, cs, ps, rs) ==
  /\ ps \in Seq(Seq(Nat)) /\ rs \in Seq(Held) /\ Len(ps) <= Len(cs)
  /\ \A i \in 1..Len(ps) :
       /\ BuiltOf(d, cs, i) # << >> /\ Len(ps[i]) = Len(BuiltOf(d, cs, i))
       /\ \A k \in 1..Len(ps[i]) :
            /\ ps[i][k] \in 1..Len(rs)
            /\ rs[ps[i][k]] = [item |-> i, row |-> BuiltOf(d, cs, i)[k]]
  /\ \A r \in 1..Len(rs) : \E i \in 1..Len(ps) : \E k \in 1..Len(ps[i]) :
       rs[r] = [item |-> i, row |-> BuiltOf(d, cs, i)[k]]

\* A call begins with no rows.
LEMMA PlannedNone ==
  ASSUME NEW d, NEW cs, Len(cs) \in Nat
  PROVE  Planned(d, cs, << >>, << >>)
BY DEF Planned

\* The rows of the next question go behind those of the questions before it.
LEMMA PlannedMore ==
  ASSUME NEW d, NEW cs, Len(cs) \in Nat, NEW ps, NEW rs, Planned(d, cs, ps, rs), Len(ps) < Len(cs),
         NEW i \in Nat, i = Len(ps) + 1, NEW built \in Seq(Row), built # << >>, built = BuiltOf(d, cs, i)
  PROVE  Planned(d, cs, Append(ps, Rebased(Len(rs), Len(built))),
                 rs \o [r \in DOMAIN built |-> [item |-> i, row |-> built[r]]])
PROOF
  <1>1. PICK p \in Seq(Seq(Nat)) : p = ps
    BY DEF Planned
  <1>2. PICK s \in Seq(Held) : s = rs
    BY DEF Planned
  <1>3. PICK n \in Nat : n = Len(built) /\ DOMAIN built = 1..n
    OBVIOUS
  <1>4. PICK b \in Nat : b = Len(s)
    OBVIOUS
  <1>5. PICK m \in Nat : m = Len(p) /\ i = m + 1
    BY <1>1
  <1>6. PICK new : new = [r \in 1..n |-> [item |-> i, row |-> built[r]]]
    OBVIOUS
  <1>7. new \in [1..n -> Held]
    BY <1>3, <1>6 DEF Held
  <1>8. new \in Seq(Held) /\ Len(new) = n
    BY <1>7, FunctionIsSeq
  <1>9. PICK plan : plan = [r \in 1..n |-> b + r]
    OBVIOUS
  <1>10. plan \in [1..n -> Nat]
    BY <1>9
  <1>11. plan \in Seq(Nat) /\ Len(plan) = n
    BY <1>10, FunctionIsSeq
  <1>12. PICK ps2 \in Seq(Seq(Nat)) : ps2 = Append(p, plan)
    <2>1. PICK S : S = Seq(Nat)
      OBVIOUS
    <2>2. p \in Seq(S) /\ plan \in S
      BY <1>11, <2>1
    <2>3. Append(p, plan) \in Seq(S)
      BY <2>2
    <2>. QED
      BY <2>1, <2>3
  <1>13. PICK rs2 \in Seq(Held) : rs2 = s \o new
    <2>1. PICK S : S = Held
      OBVIOUS
    <2>2. s \in Seq(S) /\ new \in Seq(S)
      BY <1>8, <2>1
    <2>3. s \o new \in Seq(S)
      BY <2>2
    <2>. QED
      BY <2>1, <2>3
  <1>14. Len(ps2) = m + 1 /\ ps2[m + 1] = plan /\ \A j \in 1..m : ps2[j] = p[j]
    BY <1>5, <1>11, <1>12
  <1>15. /\ Len(rs2) = b + n
         /\ \A r \in 1..b : rs2[r] = s[r]
         /\ \A r \in 1..n : rs2[b + r] = new[r]
    BY <1>4, <1>8, <1>13
  <1>16. PICK l \in Nat, x \in Nat : l = m + 1 /\ x = b + n
    OBVIOUS
  <1>17. ASSUME NEW j \in 1..m
         PROVE  /\ BuiltOf(d, cs, j) # << >> /\ Len(p[j]) = Len(BuiltOf(d, cs, j))
                /\ \A k \in 1..Len(p[j]) :
                     /\ p[j][k] \in 1..b
                     /\ s[p[j][k]] = [item |-> j, row |-> BuiltOf(d, cs, j)[k]]
    BY <1>1, <1>2, <1>4, <1>5 DEF Planned
  <1>18. ASSUME NEW j \in 1..l
         PROVE  /\ BuiltOf(d, cs, j) # << >> /\ Len(ps2[j]) = Len(BuiltOf(d, cs, j))
                /\ \A k \in 1..Len(ps2[j]) :
                     /\ ps2[j][k] \in 1..x
                     /\ rs2[ps2[j][k]] = [item |-> j, row |-> BuiltOf(d, cs, j)[k]]
    <2>1. CASE j \in 1..m
      <3>1. ps2[j] = p[j]
        BY <1>14, <2>1
      <3>2. \A k \in 1..Len(p[j]) : p[j][k] \in 1..x /\ rs2[p[j][k]] = s[p[j][k]]
        <4>1. SUFFICES ASSUME NEW k \in 1..Len(p[j])
                       PROVE  p[j][k] \in 1..x /\ rs2[p[j][k]] = s[p[j][k]]
          OBVIOUS
        <4>2. PICK y \in 1..b : y = p[j][k]
          BY <1>17, <2>1
        <4>3. y \in 1..x
          BY <1>16
        <4>4. rs2[y] = s[y]
          BY <1>15
        <4>. QED
          BY <4>2, <4>3, <4>4
      <3>. QED
        BY <1>17, <2>1, <3>1, <3>2
    <2>2. CASE j = m + 1
      <3>1. ps2[j] = plan /\ BuiltOf(d, cs, j) = built
        BY <1>5, <1>14, <2>2
      <3>2. ASSUME NEW k \in 1..n
            PROVE  plan[k] \in 1..x /\ rs2[plan[k]] = [item |-> j, row |-> built[k]]
        <4>1. plan[k] = b + k /\ b + k \in 1..x
          BY <1>9, <1>16
        <4>2. rs2[b + k] = new[k]
          BY <1>15
        <4>3. new[k] = [item |-> i, row |-> built[k]]
          BY <1>6
        <4>. QED
          BY <1>5, <1>15, <2>2, <4>1, <4>2, <4>3
      <3>. QED
        BY <1>3, <1>11, <3>1, <3>2
    <2>3. j \in 1..m \/ j = m + 1
      BY <1>16
    <2>. QED
      BY <2>1, <2>2, <2>3
  <1>19. ASSUME NEW r \in 1..x
         PROVE  \E j \in 1..l : \E k \in 1..Len(ps2[j]) :
                  rs2[r] = [item |-> j, row |-> BuiltOf(d, cs, j)[k]]
    <2>1. CASE r \in 1..b
      <3>1. PICK j \in 1..m : \E k \in 1..Len(p[j]) :
              s[r] = [item |-> j, row |-> BuiltOf(d, cs, j)[k]]
        BY <1>1, <1>2, <1>4, <1>5, <2>1 DEF Planned
      <3>2. j \in 1..l /\ ps2[j] = p[j] /\ rs2[r] = s[r]
        <4>1. j \in 1..l
          BY <1>16
        <4>2. ps2[j] = p[j]
          BY <1>14
        <4>3. rs2[r] = s[r]
          BY <1>15, <2>1
        <4>. QED
          BY <4>1, <4>2, <4>3
      <3>. QED
        BY <3>1, <3>2
    <2>2. CASE r \notin 1..b
      <3>1. PICK k \in 1..n : r = b + k
        <4>1. r - b \in 1..n /\ r = b + (r - b)
          BY <1>16, <2>2
        <4>. QED
          BY <4>1
      <3>2. rs2[r] = [item |-> i, row |-> built[k]]
        BY <1>6, <1>15, <3>1
      <3>3. i \in 1..l /\ ps2[i] = plan /\ BuiltOf(d, cs, i) = built
        BY <1>5, <1>14, <1>16
      <3>. QED
        BY <1>11, <3>2, <3>3
    <2>. QED
      BY <2>1, <2>2
  <1>20. Len(ps2) <= Len(cs)
    BY <1>1, <1>5, <1>14
  <1>21. Planned(d, cs, ps2, rs2)
    <2>1. Len(ps2) = l /\ Len(rs2) = x
      BY <1>14, <1>15, <1>16
    <2>2. \A j \in 1..Len(ps2) :
            /\ BuiltOf(d, cs, j) # << >> /\ Len(ps2[j]) = Len(BuiltOf(d, cs, j))
            /\ \A k \in 1..Len(ps2[j]) :
                 /\ ps2[j][k] \in 1..Len(rs2)
                 /\ rs2[ps2[j][k]] = [item |-> j, row |-> BuiltOf(d, cs, j)[k]]
      BY <1>18, <2>1
    <2>3. \A r \in 1..Len(rs2) : \E j \in 1..Len(ps2) : \E k \in 1..Len(ps2[j]) :
            rs2[r] = [item |-> j, row |-> BuiltOf(d, cs, j)[k]]
      BY <1>19, <2>1
    <2>4. ps2 \in Seq(Seq(Nat)) /\ rs2 \in Seq(Held)
      OBVIOUS
    <2>. QED
      BY <1>20, <2>2, <2>3, <2>4, Zenon DEF Planned
  <1>22. ps2 = Append(ps, Rebased(Len(rs), Len(built)))
    BY <1>1, <1>2, <1>3, <1>4, <1>9, <1>12 DEF Rebased
  <1>23. rs2 = rs \o [r \in DOMAIN built |-> [item |-> i, row |-> built[r]]]
    BY <1>2, <1>3, <1>6, <1>13
  <1>. QED
    BY <1>21, <1>22, <1>23

-----------------------------------------------------------------------------
(* The inductive invariant                                                 *)

Shut ==
  /\ decider = {} /\ checkpoint = {} /\ pc = "closed"
  /\ call = << >> /\ rows = << >> /\ plans = << >> /\ logits = << >> /\ answers = << >>

\* What holds of the call of decider d.
Doing(d) ==
  /\ pc \in {"open", "refused", "build", "failed", "decode", "answered"}
  /\ Called(d, call) /\ Planned(d, call, plans, rows)
  /\ pc = "failed" =>
       call = << >> \/ (Len(plans) < Len(call) /\ BuiltOf(d, call, Len(plans) + 1) = << >>)
  /\ pc \in {"decode", "answered"} =>
       Len(plans) = Len(call) /\ \E peaks \in Peaks : logits = Graph(d, rows, peaks)
  /\ pc = "answered" =>
       answers = [i \in DOMAIN call |-> Decoded(d, logits, plans[i], call[i].q)]
  /\ pc # "answered" => answers = << >>

Standing(c, d) ==
  /\ c \in Checkpoints /\ d \in Opens(c)
  /\ decider = {d} /\ checkpoint = {c} /\ Doing(d)

DecidersInv == Bins(binning) /\ (Shut \/ \E c \in checkpoint, d \in decider : Standing(c, d))

\* The decider that stands is the one.
LEMMA TheIs ==
  ASSUME NEW d, decider = {d}
  PROVE  The = d
BY DEF The

\* A decider that stands is ready.
LEMMA StandingIs ==
  ASSUME NEW c \in Checkpoints, NEW d, d \in Opens(c)
  PROVE  /\ Ready(d) /\ d.family = c.family
         /\ d.family # "gliclass" => Tempered(d, c)
BY OpensIs

\* Where no call is under way, nothing is planned.
LEMMA NoCall ==
  ASSUME NEW d
  PROVE  Called(d, << >>) /\ Planned(d, << >>, << >>, << >>)
PROOF
  <1>1. Called(d, << >>)
    BY DEF Called
  <1>2. Len(<< >>) \in Nat
    OBVIOUS
  <1>. QED
    BY <1>1, <1>2, PlannedNone

\* A question is parsed in one way.
LEMMA ParseOne ==
  ASSUME NEW t
  PROVE  \A a, b \in parse(t) : a = b
BY DEF parse

\* Opening keeps the invariant.
LEMMA OpenFilesKeeps ==
  ASSUME DecidersInv, OpenFiles
  PROVE  DecidersInv'
PROOF
  <1>1. Shut /\ Bins(binning)
    BY DEF DecidersInv, Standing, OpenFiles
  <1>2. PICK c \in Checkpoints :
          /\ decider' = Opens(c)
          /\ checkpoint' = IF decider' = {} THEN {} ELSE {c}
          /\ pc' = IF decider' = {} THEN "closed" ELSE "open"
    BY DEF OpenFiles, Opens
  <1>3. UNCHANGED <<binning, call, rows, plans, logits, answers>>
    BY DEF OpenFiles, callVars
  <1>4. Bins(binning)'
    BY <1>1, <1>3 DEF Bins
  <1>5. CASE Opens(c) = {}
    <2>1. Shut'
      BY <1>1, <1>2, <1>3, <1>5 DEF Shut
    <2>. QED
      BY <1>4, <2>1 DEF DecidersInv
  <1>6. CASE Opens(c) # {}
    <2>1. PICK d : d \in Opens(c)
      BY <1>6
    <2>2. Opens(c) = {d}
      BY <2>1, OpensIs
    <2>3. decider' = {d} /\ checkpoint' = {c} /\ pc' = "open"
      BY <1>2, <2>2
    <2>4. Doing(d)'
      <3>1. call' = << >> /\ rows' = << >> /\ plans' = << >> /\ answers' = << >>
        BY <1>1, <1>3 DEF Shut
      <3>. QED
        BY <2>3, <3>1, NoCall DEF Doing
    <2>5. Standing(c, d)'
      BY <2>1, <2>3, <2>4 DEF Standing
    <2>. QED
      BY <1>4, <2>3, <2>5 DEF DecidersInv
  <1>. QED
    BY <1>5, <1>6

\* Loading a map keeps the invariant: one that is refused leaves the old one.
LEMMA LoadBinningMapKeeps ==
  ASSUME DecidersInv, LoadBinningMap
  PROVE  DecidersInv'
PROOF
  <1>1. PICK raw \in Maps :
          binning' = IF BinningMap(raw) \subseteq {NoMap} THEN binning
                     ELSE CHOOSE m \in BinningMap(raw) : TRUE
    BY DEF LoadBinningMap
  <1>2. /\ decider # {} /\ pc' = "open" /\ decider' = decider /\ checkpoint' = checkpoint
        /\ call' = << >> /\ rows' = << >> /\ plans' = << >> /\ logits' = << >> /\ answers' = << >>
    BY DEF LoadBinningMap, Forgotten
  <1>3. Bins(binning)'
    <2>1. PICK maps : maps = BinningMap(raw)
      OBVIOUS
    <2>2. \A map \in maps : Bins(map)
      BY <2>1, ParsedBins
    <2>3. CASE maps \subseteq {NoMap}
      <3>1. binning' = binning
        BY <1>1, <2>1, <2>3
      <3>. QED
        BY <3>1 DEF DecidersInv, Bins
    <2>4. CASE ~ (maps \subseteq {NoMap})
      <3>1. binning' = CHOOSE m \in maps : TRUE
        BY <1>1, <2>1, <2>4
      <3>2. maps # {}
        BY <2>4
      <3>3. binning' \in maps
        BY <3>1, <3>2
      <3>. QED
        BY <2>2, <3>3 DEF Bins
    <2>. QED
      BY <2>3, <2>4
  <1>4. PICK c \in checkpoint, d \in decider : Standing(c, d)
    BY <1>2 DEF DecidersInv, Shut
  <1>5. Standing(c, d)'
    BY <1>2, <1>4, NoCall DEF Standing, Doing
  <1>. QED
    BY <1>2, <1>3, <1>4, <1>5 DEF DecidersInv, Standing

\* The questions of a call that is taken.
LEMMA CalledIs ==
  ASSUME NEW d, NEW c, c \in Seq([state: Text, question: Tuples]), NEW cs,
         cs = [i \in DOMAIN c |->
                 [state |-> c[i].state, q |-> CHOOSE q \in parse(c[i].question) : TRUE]],
         \A i \in DOMAIN c : \E q \in parse(c[i].question) : validate(d, q)
  PROVE  Called(d, cs)
PROOF
  <1>1. PICK n \in Nat : n = Len(c) /\ DOMAIN c = 1..n
    OBVIOUS
  <1>2. ASSUME NEW i \in 1..n
        PROVE  cs[i] \in [state: Text, q: Question] /\ Taken(d, cs[i].q)
    <2>1. PICK t \in Tuples, state \in Text : t = c[i].question /\ state = c[i].state
      <3>1. c[i] \in [state: Text, question: Tuples]
        <4>1. PICK S : S = [state: Text, question: Tuples]
          OBVIOUS
        <4>2. c[i] \in S
          <5>1. c \in Seq(S)
            BY <4>1
          <5>. QED
            BY <1>1, <5>1
        <4>. QED
          BY <4>1, <4>2
      <3>. QED
        BY <3>1
    <2>2. PICK q : q \in parse(t) /\ validate(d, q)
      BY <1>1, <2>1
    <2>3. (CHOOSE x \in parse(t) : TRUE) = q
      BY <2>2, ParseOne
    <2>4. cs[i] = [state |-> state, q |-> q]
      BY <1>1, <2>1, <2>3
    <2>5. q \in Question /\ (q.kind # "choice" => q.option_order = {})
      BY <2>2, ParseType
    <2>6. cs[i].q = q /\ cs[i] \in [state: Text, q: Question]
      <3>1. PICK Q : Q = Question
        OBVIOUS
      <3>2. PICK T : T = Text
        OBVIOUS
      <3>3. [state |-> state, q |-> q] \in [state: T, q: Q]
        BY <2>5, <3>1, <3>2
      <3>4. [state |-> state, q |-> q].q = q
        OBVIOUS
      <3>. QED
        BY <2>4, <3>1, <3>2, <3>3, <3>4
    <2>. QED
      BY <2>2, <2>5, <2>6 DEF Taken
  <1>3. cs \in [1..n -> [state: Text, q: Question]]
    <2>1. cs = [i \in 1..n |-> cs[i]]
      BY <1>1
    <2>. QED
      BY <1>2, <2>1
  <1>4. cs \in Seq([state: Text, q: Question]) /\ Len(cs) = n
    BY <1>3, FunctionIsSeq
  <1>. QED
    BY <1>2, <1>4 DEF Called

\* A call, taken or refused, keeps the invariant.
LEMMA DecideKeeps ==
  ASSUME DecidersInv, Decide
  PROVE  DecidersInv'
PROOF
  <1>1. /\ decider # {} /\ UNCHANGED <<decider, checkpoint, binning>>
        /\ rows' = << >> /\ plans' = << >> /\ logits' = << >> /\ answers' = << >>
    BY DEF Decide
  <1>2. PICK c \in checkpoint, d \in decider : Standing(c, d)
    BY <1>1 DEF DecidersInv, Shut
  <1>3. Ready(d)
    BY <1>2, StandingIs DEF Standing
  <1>4. The = d
    BY <1>2, TheIs DEF Standing
  <1>5. PICK list \in Calls[d.family] :
          LET parsed == [i \in DOMAIN list |-> parse(list[i].question)]
              good == \A i \in DOMAIN list : \E q \in parsed[i] : validate(d, q)
          IN /\ pc' = IF good THEN "build" ELSE "refused"
             /\ call' = IF good THEN [i \in DOMAIN list |->
                            [state |-> list[i].state, q |-> CHOOSE q \in parsed[i] : TRUE]]
                        ELSE << >>
    BY <1>4 DEF Decide
  <1>6. list \in Seq([state: Text, question: Tuples])
    BY <1>3, ShapesAssumption DEF Ready
  <1>7. PICK good \in BOOLEAN :
          good <=> \A i \in DOMAIN list : \E q \in parse(list[i].question) : validate(d, q)
    OBVIOUS
  <1>8. /\ pc' = IF good THEN "build" ELSE "refused"
        /\ call' = IF good THEN [i \in DOMAIN list |->
                       [state |-> list[i].state, q |-> CHOOSE q \in parse(list[i].question) : TRUE]]
                   ELSE << >>
    BY <1>5, <1>7
  <1>9. Called(d, call)'
    <2>1. CASE good
      <3>1. call' = [i \in DOMAIN list |->
                       [state |-> list[i].state, q |-> CHOOSE q \in parse(list[i].question) : TRUE]]
        BY <1>8, <2>1
      <3>2. PICK cs : cs = call'
        OBVIOUS
      <3>3. Called(d, cs)
        BY <1>6, <1>7, <2>1, <3>1, <3>2, CalledIs
      <3>. QED
        BY <3>2, <3>3 DEF Called
    <2>2. CASE ~ good
      BY <1>8, <2>2, NoCall DEF Called
    <2>. QED
      BY <2>1, <2>2
  <1>10. Planned(d, call, plans, rows)'
    <2>1. PICK cs : cs = call'
      OBVIOUS
    <2>2. Len(cs) \in Nat
      BY <1>9, <2>1 DEF Called
    <2>3. Planned(d, cs, << >>, << >>)
      BY <2>2, PlannedNone
    <2>. QED
      BY <1>1, <2>1, <2>3
  <1>11. pc' \in {"build", "refused"}
    BY <1>8
  <1>12. Doing(d)'
    BY <1>1, <1>9, <1>10, <1>11 DEF Doing
  <1>13. Standing(c, d)'
    BY <1>1, <1>2, <1>12 DEF Standing
  <1>14. Bins(binning)'
    BY <1>1 DEF DecidersInv, Bins
  <1>. QED
    BY <1>13, <1>14 DEF DecidersInv, Standing

\* The rows of a question are rows.
LEMMA BuiltIs ==
  ASSUME NEW d, Ready(d), NEW cs, Called(d, cs), NEW i \in 1..Len(cs)
  PROVE  /\ cs[i].q \in Question /\ cs[i].state \in Text /\ Taken(d, cs[i].q)
         /\ BuiltOf(d, cs, i) # << >> =>
              /\ Scores(d, cs[i].q, cs[i].state, BuiltOf(d, cs, i))
              /\ BuiltOf(d, cs, i) \in Seq(Row)
              /\ \A k \in 1..Len(BuiltOf(d, cs, i)) :
                   Right(d, cs[i].q, cs[i].state, BuiltOf(d, cs, i)[k])
         /\ BuiltOf(d, cs, i) = << >> => TooLarge(d, cs[i].q)
PROOF
  <1>1. PICK q \in Question, state \in Text : q = cs[i].q /\ state = cs[i].state
    <2>1. PICK S : S = [state: Text, q: Question]
      OBVIOUS
    <2>2. cs \in Seq(S)
      BY <2>1 DEF Called
    <2>3. cs[i] \in S
      BY <2>2
    <2>. QED
      BY <2>1, <2>3
  <1>2. Taken(d, q)
    BY <1>1 DEF Called
  <1>3. PICK built : built = RowsOf(d, q, state)
    OBVIOUS
  <1>4. BuiltOf(d, cs, i) = built
    BY <1>1, <1>3 DEF BuiltOf
  <1>5. CASE built # << >>
    <2>1. /\ Scores(d, q, state, RowsOf(d, q, state))
          /\ \A k \in 1..Len(RowsOf(d, q, state)) : Right(d, q, state, RowsOf(d, q, state)[k])
      BY <1>2, <1>3, <1>5, Built
    <2>2. Scores(d, q, state, built) /\ \A k \in 1..Len(built) : Right(d, q, state, built[k])
      BY <1>3, <2>1
    <2>3. built \in Seq(Row)
      BY <2>2 DEF Scores
    <2>. QED
      BY <1>1, <1>2, <1>4, <1>5, <2>2, <2>3
  <1>6. CASE built = << >>
    <2>1. TooLarge(d, q)
      BY <1>2, <1>3, <1>6, NotBuilt
    <2>. QED
      BY <1>1, <1>2, <1>4, <1>6, <2>1
  <1>. QED
    BY <1>5, <1>6

\* Building the rows of a question keeps the invariant.
LEMMA BuildRowsKeeps ==
  ASSUME DecidersInv, BuildRows
  PROVE  DecidersInv'
PROOF
  <1>1. /\ pc = "build" /\ Len(plans) < Len(call)
        /\ UNCHANGED <<decider, checkpoint, binning, call, logits, answers>>
    BY DEF BuildRows
  <1>2. PICK c \in checkpoint, d \in decider : Standing(c, d)
    BY <1>1 DEF DecidersInv, Shut
  <1>3. Ready(d)
    BY <1>2, StandingIs DEF Standing
  <1>4. The = d
    BY <1>2, TheIs DEF Standing
  <1>5. Called(d, call) /\ Planned(d, call, plans, rows)
    BY <1>2 DEF Standing, Doing
  <1>6. Len(call) \in Nat /\ Len(plans) \in Nat
    BY <1>5 DEF Called, Planned
  <1>7. PICK i \in 1..Len(call) : i = Len(plans) + 1
    <2>1. Len(plans) + 1 \in 1..Len(call)
      BY <1>1, <1>6
    <2>. QED
      BY <2>1
  <1>8. PICK built : built = BuiltOf(d, call, i)
    OBVIOUS
  <1>9. IF built = << >> THEN pc' = "failed" /\ UNCHANGED <<rows, plans>>
        ELSE /\ rows' = rows \o [r \in DOMAIN built |-> [item |-> i, row |-> built[r]]]
             /\ plans' = Append(plans, Rebased(Len(rows), Len(built)))
             /\ UNCHANGED pc
    BY <1>4, <1>7, <1>8 DEF BuildRows, BuiltOf
  <1>10. answers = << >>
    BY <1>1, <1>2 DEF Standing, Doing
  <1>11. Called(d, call)'
    BY <1>1, <1>5 DEF Called
  <1>12. CASE built = << >>
    <2>1. pc' = "failed" /\ rows' = rows /\ plans' = plans
      BY <1>9, <1>12
    <2>2. Planned(d, call, plans, rows)'
      BY <1>1, <1>5, <2>1
    <2>3. Len(plans) < Len(call) /\ BuiltOf(d, call, Len(plans) + 1) = << >>
      BY <1>1, <1>7, <1>8, <1>12
    <2>4. (Len(plans) < Len(call) /\ BuiltOf(d, call, Len(plans) + 1) = << >>)'
      BY <1>1, <2>1, <2>3
    <2>. QED
      BY <1>1, <1>2, <1>10, <1>11, <2>1, <2>2, <2>4 DEF DecidersInv, Standing, Doing, Bins
  <1>13. CASE built # << >>
    <2>1. built \in Seq(Row)
      BY <1>3, <1>5, <1>8, <1>13, BuiltIs
    <2>2. /\ rows' = rows \o [r \in DOMAIN built |-> [item |-> i, row |-> built[r]]]
          /\ plans' = Append(plans, Rebased(Len(rows), Len(built)))
          /\ pc' = "build"
      BY <1>1, <1>9, <1>13
    <2>3. Planned(d, call, Append(plans, Rebased(Len(rows), Len(built))),
                  rows \o [r \in DOMAIN built |-> [item |-> i, row |-> built[r]]])
      <3>1. i \in Nat
        OBVIOUS
      <3>. QED
        BY <1>1, <1>5, <1>6, <1>7, <1>8, <1>13, <2>1, <3>1, PlannedMore
    <2>4. Planned(d, call, plans, rows)'
      BY <1>1, <2>2, <2>3
    <2>. QED
      BY <1>1, <1>2, <1>10, <1>11, <2>2, <2>4 DEF DecidersInv, Standing, Doing, Bins
  <1>. QED
    BY <1>12, <1>13

\* A run keeps the invariant: where it fails, there was no question.
LEMMA RunKeeps ==
  ASSUME DecidersInv, Run
  PROVE  DecidersInv'
PROOF
  <1>1. /\ pc = "build" /\ Len(plans) = Len(call)
        /\ UNCHANGED <<decider, checkpoint, binning, call, rows, plans, answers>>
    BY DEF Run
  <1>2. PICK c \in checkpoint, d \in decider : Standing(c, d)
    BY <1>1 DEF DecidersInv, Shut
  <1>3. The = d
    BY <1>2, TheIs DEF Standing
  <1>4. Called(d, call) /\ Planned(d, call, plans, rows) /\ answers = << >>
    BY <1>1, <1>2 DEF Standing, Doing
  <1>5. Called(d, call)' /\ Planned(d, call, plans, rows)'
    BY <1>1, <1>4
  <1>6. CASE pc' = "decode" /\ \E peaks \in Peaks : logits' = Graph(d, rows, peaks)
    <2>1. PICK peaks \in Peaks : logits' = Graph(d, rows, peaks)
      BY <1>6
    <2>2. Graph(d, rows, peaks)' = Graph(d, rows, peaks)
      BY <1>1
    <2>3. (\E ps \in Peaks : logits = Graph(d, rows, ps))'
      BY <2>1, <2>2
    <2>. QED
      BY <1>1, <1>2, <1>4, <1>5, <1>6, <2>3 DEF DecidersInv, Standing, Doing, Bins
  <1>7. CASE pc' = "failed" /\ d.family = "laya" /\ (rows = << >> \/ Columns(d, rows) < 2)
    <2>1. rows = << >>
      <3>1. PICK rs \in Seq(Held) : rs = rows
        BY <1>4 DEF Planned
      <3>2. Columns(d, rs) \in Nat /\ Columns(d, rs) >= 2
        BY <1>7, <3>1, ColumnsAre
      <3>. QED
        BY <1>7, <3>1, <3>2
    <2>2. call = << >>
      <3>1. SUFFICES ASSUME call # << >> PROVE FALSE
        OBVIOUS
      <3>2. 1 \in 1..Len(plans)
        <4>1. call \in Seq([state: Text, q: Question])
          BY <1>4 DEF Called
        <4>2. Len(call) \in Nat /\ Len(call) # 0
          BY <3>1, <4>1
        <4>. QED
          BY <1>1, <4>2
      <3>3. PICK built : built = BuiltOf(d, call, 1)
        OBVIOUS
      <3>4. /\ built # << >> /\ Len(plans[1]) = Len(built)
            /\ \A k \in 1..Len(plans[1]) : plans[1][k] \in 1..Len(rows)
        BY <1>4, <3>2, <3>3 DEF Planned
      <3>5. built \in Seq(Row)
        <4>1. Ready(d)
          BY <1>2, StandingIs DEF Standing
        <4>2. 1 \in 1..Len(call)
          BY <1>1, <3>2
        <4>. QED
          BY <1>4, <3>3, <3>4, <4>1, <4>2, BuiltIs
      <3>6. 1 \in 1..Len(plans[1])
        BY <3>4, <3>5
      <3>7. plans[1][1] \in 1..Len(rows)
        BY <3>4, <3>6
      <3>. QED
        BY <2>1, <3>7
    <2>. QED
      BY <1>1, <1>2, <1>4, <1>5, <1>7, <2>2 DEF DecidersInv, Standing, Doing, Bins
  <1>. QED
    BY <1>3, <1>6, <1>7 DEF Run

\* Decoding keeps the invariant.
LEMMA DecodeKeeps ==
  ASSUME DecidersInv, Decode
  PROVE  DecidersInv'
PROOF
  <1>1. /\ pc = "decode" /\ pc' = "answered"
        /\ UNCHANGED <<decider, checkpoint, binning, call, rows, plans, logits>>
    BY DEF Decode
  <1>2. PICK c \in checkpoint, d \in decider : Standing(c, d)
    BY <1>1 DEF DecidersInv, Shut
  <1>3. The = d
    BY <1>2, TheIs DEF Standing
  <1>4. answers' = [i \in DOMAIN call |-> Decoded(d, logits, plans[i], call[i].q)]
    BY <1>3 DEF Decode
  <1>5. answers' = [i \in DOMAIN call |-> Decoded(d, logits, plans[i], call[i].q)]'
    BY <1>1, <1>4 DEF Decoded
  <1>6. /\ Called(d, call) /\ Planned(d, call, plans, rows) /\ Len(plans) = Len(call)
        /\ \E peaks \in Peaks : logits = Graph(d, rows, peaks)
    BY <1>1, <1>2 DEF Standing, Doing
  <1>7. Called(d, call)' /\ Planned(d, call, plans, rows)'
    BY <1>1, <1>6
  <1>8. (\E peaks \in Peaks : logits = Graph(d, rows, peaks))'
    BY <1>1, <1>6
  <1>. QED
    BY <1>1, <1>2, <1>5, <1>6, <1>7, <1>8 DEF DecidersInv, Standing, Doing, Bins

\* Every step keeps the invariant.
LEMMA DecidersInvStep ==
  ASSUME DecidersInv, [DecidersNext]_decidersVars
  PROVE  DecidersInv'
PROOF
  <1>1. CASE OpenFiles
    BY <1>1, OpenFilesKeeps
  <1>2. CASE LoadBinningMap
    BY <1>2, LoadBinningMapKeeps
  <1>3. CASE Decide
    BY <1>3, DecideKeeps
  <1>4. CASE BuildRows
    BY <1>4, BuildRowsKeeps
  <1>5. CASE Run
    BY <1>5, RunKeeps
  <1>6. CASE Decode
    BY <1>6, DecodeKeeps
  <1>7. CASE UNCHANGED decidersVars
    <2>1. UNCHANGED <<decider, checkpoint, binning, pc, call, rows, plans, logits, answers>>
      BY <1>7 DEF decidersVars, callVars
    <2>2. Bins(binning)'
      BY <2>1 DEF DecidersInv, Bins
    <2>3. CASE Shut
      BY <2>1, <2>2, <2>3 DEF DecidersInv, Shut
    <2>4. CASE \E c \in checkpoint, d \in decider : Standing(c, d)
      <3>1. PICK c \in checkpoint, d \in decider : Standing(c, d)
        BY <2>4
      <3>2. Called(d, call)' /\ Planned(d, call, plans, rows)'
        BY <2>1, <3>1 DEF Standing, Doing
      <3>3. pc' = "failed" => call' = << >> \/
              (Len(plans) < Len(call) /\ BuiltOf(d, call, Len(plans) + 1) = << >>)'
        BY <2>1, <3>1 DEF Standing, Doing
      <3>4. pc' \in {"decode", "answered"} => 
              (Len(plans) = Len(call) /\ \E peaks \in Peaks : logits = Graph(d, rows, peaks))'
        BY <2>1, <3>1 DEF Standing, Doing
      <3>5. pc' = "answered" =>
              answers' = [i \in DOMAIN call |-> Decoded(d, logits, plans[i], call[i].q)]'
        BY <2>1, <3>1 DEF Standing, Doing, Decoded
      <3>6. Standing(c, d)'
        BY <2>1, <3>1, <3>2, <3>3, <3>4, <3>5 DEF Standing, Doing
      <3>. QED
        BY <2>2, <3>6 DEF DecidersInv, Standing
    <2>. QED
      BY <2>3, <2>4 DEF DecidersInv
  <1>. QED
    BY <1>1, <1>2, <1>3, <1>4, <1>5, <1>6, <1>7 DEF DecidersNext

\* A decider begins in the invariant.
LEMMA DecidersInvInit ==
  ASSUME DecidersInit
  PROVE  DecidersInv
BY DEF DecidersInit, DecidersInv, Shut, Bins, NoMap

\* The deciders of the process behave as deciders do, whatever the images do.
THEOREM InputsDecides == InputsSpec => DecidersSpec
PROOF
  <1>1. InputsInit => DecidersInit
    BY DEF InputsInit
  <1>2. [InputsNext]_<<visionVars, decidersVars>> => [DecidersNext]_decidersVars
    BY DEF InputsNext
  <1>. QED
    BY <1>1, <1>2, PTL DEF InputsSpec, DecidersSpec

\* The invariant of a decider's life.
THEOREM DecidersHold == InputsSpec => []DecidersInv
PROOF
  <1>1. DecidersInit => DecidersInv
    BY DecidersInvInit
  <1>2. DecidersInv /\ [DecidersNext]_decidersVars => DecidersInv'
    BY DecidersInvStep
  <1>3. DecidersSpec => []DecidersInv
    BY <1>1, <1>2, PTL DEF DecidersSpec
  <1>. QED
    BY <1>3, InputsDecides, PTL

-----------------------------------------------------------------------------
(* What follows of the rows                                                *)

Stems(r, d, i) ==
  /\ Ready(d) /\ The = d /\ i \in 1..Len(call) /\ r.item = i /\ r \in Held
  /\ Right(d, call[i].q, call[i].state, r.row)

\* Every row that is held is a right row of a question of the call.
LEMMA HeldAre ==
  ASSUME DecidersInv, NEW r \in RowsHeld
  PROVE  \E d, i : Stems(r, d, i)
PROOF
  <1>1. PICK x \in DOMAIN rows : r = rows[x]
    BY DEF RowsHeld
  <1>2. PICK c \in checkpoint, d \in decider : Standing(c, d)
    BY <1>1 DEF DecidersInv, Shut
  <1>3. Ready(d) /\ The = d
    BY <1>2, StandingIs, TheIs DEF Standing
  <1>4. Called(d, call) /\ Planned(d, call, plans, rows)
    BY <1>2 DEF Standing, Doing
  <1>5. rows \in Seq(Held)
    BY <1>4 DEF Planned
  <1>6. r \in Held /\ x \in 1..Len(rows)
    <2>1. PICK S : S = Held
      OBVIOUS
    <2>2. rows \in Seq(S)
      BY <1>5, <2>1
    <2>3. rows[x] \in S /\ x \in 1..Len(rows)
      BY <1>1, <2>2
    <2>. QED
      BY <1>1, <2>1, <2>3
  <1>7. PICK i \in 1..Len(plans) : \E k \in 1..Len(plans[i]) :
          r = [item |-> i, row |-> BuiltOf(d, call, i)[k]]
    BY <1>1, <1>4, <1>6 DEF Planned
  <1>8. PICK k \in 1..Len(plans[i]) : r = [item |-> i, row |-> BuiltOf(d, call, i)[k]]
    BY <1>7
  <1>9. BuiltOf(d, call, i) # << >> /\ k \in 1..Len(BuiltOf(d, call, i))
    BY <1>4, <1>8 DEF Planned
  <1>10. i \in 1..Len(call)
    <2>1. Len(plans) <= Len(call) /\ Len(plans) \in Nat /\ Len(call) \in Nat
      BY <1>4 DEF Planned, Called
    <2>. QED
      BY <2>1
  <1>11. /\ call[i].q \in Question
         /\ Right(d, call[i].q, call[i].state, BuiltOf(d, call, i)[k])
    BY <1>3, <1>4, <1>9, <1>10, BuiltIs
  <1>12. r.item = i /\ r.row = BuiltOf(d, call, i)[k]
    BY <1>8
  <1>. QED
    BY <1>3, <1>6, <1>10, <1>11, <1>12 DEF Stems

\* Tokens are counted by their origin.
LEMMA CountsAre ==
  ASSUME NEW r \in Held, NEW of
  PROVE  Count(r, of) = N(r.row.ids, of)
PROOF
  <1>1. PICK ids \in Seq(Token) : ids = r.row.ids
    BY DEF Held, Row
  <1>2. Cardinality({p \in DOMAIN ids : ids[p].of = of}) = N(ids, of)
    BY CountPlaces
  <1>. QED
    BY <1>1, <1>2 DEF Count

\* The mask tokens of a row of Laya are its markers and no others, whatever the
\* caller's texts hold.
THEOREM MasksAreMarkers == InputsSpec => []MarkersAreMasks
PROOF
  <1>1. ASSUME DecidersInv PROVE MarkersAreMasks
    <2>1. SUFFICES ASSUME The.family = "laya", NEW r \in RowsHeld
                   PROVE  /\ {p \in DOMAIN r.row.ids : r.row.ids[p].id = "mask"} = ToSet(r.row.markers)
                          /\ Len(r.row.markers) = OptionCount(QuestionOf(r))
                          /\ \A s \in DOMAIN r.row.markers :
                               r.row.ids[r.row.markers[s]].of =
                                 <<"marker", ShownOrder(QuestionOf(r), OptionCount(QuestionOf(r)))[s] + 1>>
      BY DEF MarkersAreMasks
    <2>2. PICK d, i : Stems(r, d, i)
      BY <1>1, HeldAre
    <2>3. Masked(d, QuestionOf(r), r.row)
      BY <2>2 DEF Right, QuestionOf, Stems
    <2>. QED
      BY <2>1, <2>2, <2>3 DEF Masked, Stems
  <1>. QED
    BY <1>1, DecidersHold, PTL

\* Only what does not fit is cut from a state.
THEOREM WindowIsUsed == InputsSpec => []WindowUsed
PROOF
  <1>1. ASSUME DecidersInv PROVE WindowUsed
    <2>1. SUFFICES ASSUME NEW r \in RowsHeld
                   PROVE  LET ids == r.row.ids
                              kept == Count(r, <<"state", 0>>)
                              filled == IF The.family = "slots" THEN kept + 1 ELSE Len(ids)
                          IN /\ filled <= The.max_len
                             /\ kept < StateLen(r) => filled = The.max_len
                             /\ The.family # "slots" /\ kept > 0 => ids[Len(ids)] = SEP[1]
      BY DEF WindowUsed
    <2>2. PICK d, i : Stems(r, d, i)
      BY <1>1, HeldAre
    <2>3. Windowed(d, call[i].state, r.row)
      BY <2>2 DEF Right, Stems
    <2>4. Count(r, <<"state", 0>>) = N(r.row.ids, <<"state", 0>>)
      BY <2>2, CountsAre DEF Stems
    <2>5. StateLen(r) = Len(IF d.family = "laya" THEN scrub(call[i].state) ELSE call[i].state)
      BY <2>2 DEF StateLen, Stems
    <2>. QED
      BY <2>2, <2>3, <2>4, <2>5 DEF Windowed, Stems
  <1>. QED
    BY <1>1, DecidersHold, PTL

\* What a row keeps of its question.
THEOREM QuestionIsWhole == InputsSpec => []QuestionWhole
PROOF
  <1>1. ASSUME DecidersInv PROVE QuestionWhole
    <2>1. ASSUME NEW r \in RowsHeld
          PROVE  LET q == QuestionOf(r)
                     shown == Count(r, <<"question", 0>>)
                     n == OptionCount(q)
                 IN CASE The.family = "gliclass" ->
                           /\ shown = Len(q.instructions)
                           /\ \A o \in 1..n : Kept(r, o, q.options[o].text)
                      [] The.family = "slots" ->
                           /\ shown = Len(q.instructions)
                           /\ \/ \A o \in 1..n : Kept(r, o, render_decider_options(q)[o])
                              \/ /\ q.kind = "score" /\ The.isolated_levels
                                 /\ \E o \in 1..n :
                                      /\ Count(r, <<"marker", o>>) = 1
                                      /\ Kept(r, o, strip_level_number(q.options[o].text))
                      [] The.family = "laya" ->
                           /\ shown >= Least(Less(8, HeadTokens[q.kind]), Len(scrub(q.instructions)))
                           /\ \A o \in 1..n :
                                \/ o = ShownOrder(q, n)[n] + 1
                                \/ Kept(r, o, Take(scrub(render_laya_options(q)[o]), 3))
      <3>1. PICK d, i : Stems(r, d, i)
        BY <1>1, HeldAre
      <3>2. PICK q : q = QuestionOf(r)
        OBVIOUS
      <3>3. Whole(d, q, r.row)
        BY <3>1, <3>2 DEF Right, QuestionOf, Stems
      <3>4. \A of : Count(r, of) = N(r.row.ids, of)
        BY <3>1, CountsAre DEF Stems
      <3>5. \A o, text : Kept(r, o, text) <=> Keeps(r.row, o, text)
        BY <3>4 DEF Kept, Keeps
      <3>6. d.family \in {"gliclass", "laya", "slots"}
        BY <3>1 DEF Ready, Families, Stems
      <3>7. CASE d.family = "gliclass"
        BY <3>1, <3>2, <3>3, <3>4, <3>5, <3>7 DEF Whole, Stems
      <3>8. CASE d.family = "slots"
        BY <3>1, <3>2, <3>3, <3>4, <3>5, <3>8 DEF Whole, Stems
      <3>9. CASE d.family = "laya"
        BY <3>1, <3>2, <3>3, <3>4, <3>5, <3>9 DEF Whole, Stems
      <3>. QED
        BY <3>6, <3>7, <3>8, <3>9
    <2>. QED
      BY <2>1 DEF QuestionWhole
  <1>. QED
    BY <1>1, DecidersHold, PTL

\* A call fails only where one of its questions is too large by itself.
THEOREM FailureIsForRoom == InputsSpec => []FailsForRoom
PROOF
  <1>1. ASSUME DecidersInv PROVE FailsForRoom
    <2>1. SUFFICES ASSUME pc = "failed", call # << >>
                   PROVE  Len(plans) < Len(call) /\ TooLarge(The, call[Len(plans) + 1].q)
      BY DEF FailsForRoom, TooLarge
    <2>2. PICK c \in checkpoint, d \in decider : Standing(c, d)
      BY <1>1, <2>1 DEF DecidersInv, Shut
    <2>3. Ready(d) /\ The = d
      BY <2>2, StandingIs, TheIs DEF Standing
    <2>4. /\ Called(d, call) /\ Len(plans) \in Nat /\ Len(call) \in Nat
          /\ Len(plans) < Len(call) /\ BuiltOf(d, call, Len(plans) + 1) = << >>
      BY <2>1, <2>2 DEF Standing, Doing, Called, Planned
    <2>5. PICK i \in 1..Len(call) : i = Len(plans) + 1
      <3>1. Len(plans) + 1 \in 1..Len(call)
        BY <2>4
      <3>. QED
        BY <3>1
    <2>6. TooLarge(d, call[i].q)
      BY <2>3, <2>4, <2>5, BuiltIs
    <2>. QED
      BY <2>3, <2>4, <2>5, <2>6
  <1>. QED
    BY <1>1, DecidersHold, PTL

-----------------------------------------------------------------------------
(* What follows of the answers                                             *)

\* What the graph says of question i is read of the rows built of it.
LEMMA ReadsOwn ==
  ASSUME NEW d, Ready(d), NEW cs, Called(d, cs), NEW ps, NEW rs, Planned(d, cs, ps, rs),
         Len(ps) = Len(cs), NEW i \in 1..Len(cs), NEW peaks
  PROVE  /\ cs[i].q \in Question /\ Taken(d, cs[i].q)
         /\ Scores(d, cs[i].q, cs[i].state, BuiltOf(d, cs, i))
         /\ Logits(d, Graph(d, rs, peaks), ps[i], OptionCount(cs[i].q))
              = Said(d, i, BuiltOf(d, cs, i), OptionCount(cs[i].q), peaks)
PROOF
  <1>1. PICK built : built = BuiltOf(d, cs, i)
    OBVIOUS
  <1>2. PICK q, state : q = cs[i].q /\ state = cs[i].state
    OBVIOUS
  <1>3. PICK held \in Seq(Held) : held = rs
    BY DEF Planned
  <1>4. ps \in Seq(Seq(Nat)) /\ i \in 1..Len(ps)
    BY DEF Planned
  <1>5. PICK plan \in Seq(Nat) : plan = ps[i]
    <2>1. PICK S : S = Seq(Nat)
      OBVIOUS
    <2>2. ps \in Seq(S)
      BY <1>4, <2>1
    <2>3. ps[i] \in S
      BY <1>4, <2>2
    <2>. QED
      BY <2>1, <2>3
  <1>6. /\ built # << >> /\ Len(plan) = Len(built)
        /\ \A k \in 1..Len(plan) :
             plan[k] \in 1..Len(held) /\ held[plan[k]] = [item |-> i, row |-> built[k]]
    BY <1>1, <1>3, <1>4, <1>5 DEF Planned
  <1>7. q \in Question /\ Taken(d, q) /\ Scores(d, q, state, built)
    BY <1>1, <1>2, <1>6, BuiltIs
  <1>8. \A k \in 1..Len(built) :
          plan[k] \in 1..Len(held) /\ held[plan[k]] = [item |-> i, row |-> built[k]]
    BY <1>6
  <1>9. i \in Nat
    OBVIOUS
  <1>10. Logits(d, Graph(d, held, peaks), plan, OptionCount(q))
           = Said(d, i, built, OptionCount(q), peaks)
    BY <1>6, <1>7, <1>8, <1>9, SaidIs
  <1>. QED
    BY <1>1, <1>2, <1>3, <1>5, <1>7, <1>10

\* It would be so in a call of its own.
LEMMA ReadsAlone ==
  ASSUME NEW d, NEW i \in Nat, NEW q, NEW state, NEW built, Scores(d, q, state, built), NEW peaks
  PROVE  Logits(d, Graph(d, [r \in DOMAIN built |-> [item |-> i, row |-> built[r]]], peaks),
                Rebased(0, Len(built)), OptionCount(q))
           = Said(d, i, built, OptionCount(q), peaks)
PROOF
  <1>1. PICK b \in Seq(Row) : b = built
    BY DEF Scores
  <1>2. PICK n \in Nat : n = Len(b) /\ DOMAIN b = 1..n
    OBVIOUS
  <1>3. PICK rs : rs = [r \in 1..n |-> [item |-> i, row |-> b[r]]]
    OBVIOUS
  <1>4. rs \in [1..n -> Held]
    BY <1>2, <1>3 DEF Held
  <1>5. rs \in Seq(Held) /\ Len(rs) = n
    BY <1>4, FunctionIsSeq
  <1>6. PICK plan : plan = [r \in 1..n |-> 0 + r]
    OBVIOUS
  <1>7. plan \in [1..n -> Nat]
    BY <1>6
  <1>8. plan \in Seq(Nat) /\ Len(plan) = n
    BY <1>7, FunctionIsSeq
  <1>9. \A k \in 1..Len(b) : plan[k] \in 1..Len(rs) /\ rs[plan[k]] = [item |-> i, row |-> b[k]]
    <2>1. SUFFICES ASSUME NEW k \in 1..n
                   PROVE  plan[k] \in 1..n /\ rs[plan[k]] = [item |-> i, row |-> b[k]]
      BY <1>2, <1>5
    <2>2. plan[k] = k
      BY <1>6
    <2>. QED
      BY <1>3, <2>2
  <1>10. Scores(d, q, state, b) /\ Len(plan) = Len(b)
    BY <1>1, <1>2, <1>8
  <1>11. Logits(d, Graph(d, rs, peaks), plan, OptionCount(q)) = Said(d, i, b, OptionCount(q), peaks)
    BY <1>5, <1>8, <1>9, <1>10, SaidIs
  <1>12. rs = [r \in DOMAIN built |-> [item |-> i, row |-> built[r]]]
    BY <1>1, <1>2, <1>3
  <1>13. plan = Rebased(0, Len(built))
    BY <1>1, <1>2, <1>6 DEF Rebased
  <1>. QED
    BY <1>1, <1>11, <1>12, <1>13

Answered(c, d, i) ==
  /\ Ready(d) /\ The = d /\ checkpoint = {c} /\ d.family = c.family
  /\ d.family # "gliclass" => Tempered(d, c)
  /\ Verdict(answers[i], d, call[i].q, call[i].state, i)
  /\ Warm(answers[i], d, c, call[i].q)

\* Every answer is about its question.
LEMMA AnswersAre ==
  ASSUME DecidersInv, NEW i \in DOMAIN answers
  PROVE  /\ pc = "answered" /\ i \in 1..Len(call)
         /\ \E c, d : Answered(c, d, i)
PROOF
  <1>1. answers # << >>
    OBVIOUS
  <1>2. PICK c \in checkpoint, d \in decider : Standing(c, d)
    BY <1>1 DEF DecidersInv, Shut
  <1>3. pc = "answered"
    BY <1>1, <1>2 DEF Standing, Doing
  <1>4. /\ Ready(d) /\ The = d /\ d.family = c.family /\ (d.family # "gliclass" => Tempered(d, c))
        /\ c \in Checkpoints /\ checkpoint = {c}
    BY <1>2, StandingIs, TheIs DEF Standing
  <1>5. /\ Called(d, call) /\ Planned(d, call, plans, rows) /\ Len(plans) = Len(call)
        /\ answers = [x \in DOMAIN call |-> Decoded(d, logits, plans[x], call[x].q)]
    BY <1>2, <1>3 DEF Standing, Doing
  <1>6. PICK peaks : logits = Graph(d, rows, peaks)
    BY <1>2, <1>3 DEF Standing, Doing
  <1>7. i \in 1..Len(call) /\ answers[i] = Decoded(d, logits, plans[i], call[i].q)
    <2>1. i \in DOMAIN call
      BY <1>5
    <2>2. DOMAIN call = 1..Len(call)
      BY <1>5 DEF Called
    <2>. QED
      BY <1>5, <2>1, <2>2
  <1>8. PICK q, state, built, plan, outs :
          /\ q = call[i].q /\ state = call[i].state /\ built = BuiltOf(d, call, i)
          /\ plan = plans[i] /\ outs = logits
    OBVIOUS
  <1>9. /\ q \in Question /\ Taken(d, q) /\ Scores(d, q, state, built)
        /\ Logits(d, outs, plan, OptionCount(q)) = Said(d, i, built, OptionCount(q), peaks)
    <2>1. /\ call[i].q \in Question /\ Taken(d, call[i].q)
          /\ Scores(d, call[i].q, call[i].state, BuiltOf(d, call, i))
          /\ Logits(d, Graph(d, rows, peaks), plans[i], OptionCount(call[i].q))
               = Said(d, i, BuiltOf(d, call, i), OptionCount(call[i].q), peaks)
      BY <1>4, <1>5, <1>7, ReadsOwn
    <2>. QED
      BY <1>6, <1>8, <2>1
  <1>10. Bins(binning)
    BY DEF DecidersInv
  <1>11. Verdict(Decoded(d, outs, plan, q), d, q, state, i) /\ Warm(Decoded(d, outs, plan, q), d, c, q)
    BY <1>4, <1>9, <1>10, DecodedIs
  <1>12. answers[i] = Decoded(d, outs, plan, q)
    BY <1>7, <1>8
  <1>. QED
    BY <1>3, <1>4, <1>7, <1>8, <1>11, <1>12 DEF Answered

\* Every probability was read at that option of that question.
THEOREM LogitsAreOwn == InputsSpec => []OwnLogit
PROOF
  <1>1. ASSUME DecidersInv PROVE OwnLogit
    <2>1. SUFFICES ASSUME pc = "answered", NEW i \in DOMAIN call, FindsItsOptions(i)
                   PROVE  LET p == answers[i].probabilities
                          IN /\ Len(p) = OptionCount(call[i].q)
                             /\ \A o \in DOMAIN p : p[o].item = i /\ p[o].of = <<"marker", o>>
      BY DEF OwnLogit
    <2>2. i \in DOMAIN answers
      <3>1. PICK c \in checkpoint, d \in decider : Standing(c, d)
        BY <1>1, <2>1 DEF DecidersInv, Shut
      <3>. QED
        BY <2>1, <3>1 DEF Standing, Doing
    <2>3. PICK c, d : Answered(c, d, i)
      BY <1>1, <2>2, AnswersAre
    <2>4. FindsItsOptionsIn(d, call[i].q, call[i].state)
      BY <2>1, <2>3 DEF FindsItsOptions, FindsItsOptionsIn, Answered
    <2>5. Verdict(answers[i], d, call[i].q, call[i].state, i)
      BY <2>3 DEF Answered
    <2>. QED
      BY <2>4, <2>5 DEF Verdict
  <1>. QED
    BY <1>1, DecidersHold, PTL

\* Whatever map was loaded, a confidence is one.
THEOREM ConfidencesAreInRange == InputsSpec => []ConfidenceInRange
PROOF
  <1>1. ASSUME DecidersInv PROVE ConfidenceInRange
    <2>1. ASSUME NEW i \in DOMAIN answers PROVE answers[i].answer_confidence \in 0..100
      <3>1. PICK c, d : Answered(c, d, i)
        BY <1>1, AnswersAre
      <3>. QED
        BY <3>1 DEF Answered, Verdict
    <2>. QED
      BY <2>1 DEF ConfidenceInRange
  <1>. QED
    BY <1>1, DecidersHold, PTL

\* A temperature is usable, and noted where it is not the checkpoint's own.
THEOREM TemperaturesAreAccounted == InputsSpec => []TemperatureAccounted
PROOF
  <1>1. ASSUME DecidersInv PROVE TemperatureAccounted
    <2>1. SUFFICES ASSUME The.family # "gliclass", NEW i \in DOMAIN answers, NEW c \in checkpoint
                   PROVE  LET t == answers[i].temperature
                              qtype == qtype_of(call[i].q)
                              b == temp_bucket(qtype, OptionCount(call[i].q))
                              fitted == The.family = "laya" /\ b \in DOMAIN c.by_options
                          IN /\ t \in (IF The.family = "laya" THEN 50 ELSE 5)..500
                             /\ \/ (IF fitted THEN c.by_options[b] ELSE c.temperature[qtype]) = {t}
                                \/ (IF fitted THEN b ELSE <<qtype, "temperature">>) \in The.temps.rejections
                             /\ \A o \in DOMAIN answers[i].probabilities :
                                  LET over == answers[i].probabilities[o].over
                                  IN IF /\ The.family = "slots" /\ call[i].q.kind = "score"
                                        /\ c.isolated_levels
                                       THEN over = c.row_temp /\ \E r \in over : r > 0
                                       ELSE over = {}
      BY DEF TemperatureAccounted
    <2>2. PICK x, d : Answered(x, d, i)
      BY <1>1, AnswersAre
    <2>3. /\ x = c /\ The = d
          /\ Accounted(answers[i].temperature, d, c, qtype_of(call[i].q),
                       temp_bucket(qtype_of(call[i].q), OptionCount(call[i].q)))
      BY <2>1, <2>2 DEF Answered, Warm
    <2>4. /\ \A o \in DOMAIN answers[i].probabilities :
               answers[i].probabilities[o].over = Over(d, call[i].q)
          /\ Tempered(d, c) /\ d.family # "gliclass"
      BY <2>1, <2>2, <2>3 DEF Answered, Verdict
    <2>5. /\ The.family = "slots" /\ call[i].q.kind = "score" /\ c.isolated_levels =>
               Over(d, call[i].q) = c.row_temp /\ \E r \in c.row_temp : r > 0
          /\ ~ (The.family = "slots" /\ call[i].q.kind = "score" /\ c.isolated_levels) =>
               Over(d, call[i].q) = {}
      BY <2>3, <2>4 DEF Tempered, Over, Isolated
    <2>. QED
      BY <2>3, <2>4, <2>5 DEF Accounted, Low
  <1>. QED
    BY <1>1, DecidersHold, PTL

\* A question is answered as it would be in a call of its own.
THEOREM AnswersAreAlone == InputsSpec => []AloneAsInBatch
PROOF
  <1>1. ASSUME DecidersInv PROVE AloneAsInBatch
    <2>1. SUFFICES ASSUME pc = "answered"
                   PROVE  \E peaks \in Peaks :
                            /\ logits = Graph(The, rows, peaks)
                            /\ \A i \in DOMAIN call : answers[i] = Alone(i, peaks)
      BY DEF AloneAsInBatch
    <2>2. PICK c \in checkpoint, d \in decider : Standing(c, d)
      BY <1>1, <2>1 DEF DecidersInv, Shut
    <2>3. Ready(d) /\ The = d
      BY <2>2, StandingIs, TheIs DEF Standing
    <2>4. /\ Called(d, call) /\ Planned(d, call, plans, rows) /\ Len(plans) = Len(call)
          /\ answers = [x \in DOMAIN call |-> Decoded(d, logits, plans[x], call[x].q)]
      BY <2>1, <2>2 DEF Standing, Doing
    <2>5. PICK peaks \in Peaks : logits = Graph(d, rows, peaks)
      BY <2>1, <2>2 DEF Standing, Doing
    <2>6. ASSUME NEW i \in DOMAIN call PROVE answers[i] = Alone(i, peaks)
      <3>1. i \in 1..Len(call) /\ i \in Nat
        BY <2>4 DEF Called
      <3>2. PICK q, built, plan :
              q = call[i].q /\ built = BuiltOf(d, call, i) /\ plan = plans[i]
        OBVIOUS
      <3>3. /\ Scores(d, q, call[i].state, built)
            /\ Logits(d, logits, plan, OptionCount(q)) = Said(d, i, built, OptionCount(q), peaks)
        <4>1. /\ call[i].q \in Question /\ Taken(d, call[i].q)
              /\ Scores(d, call[i].q, call[i].state, BuiltOf(d, call, i))
              /\ Logits(d, Graph(d, rows, peaks), plans[i], OptionCount(call[i].q))
                   = Said(d, i, BuiltOf(d, call, i), OptionCount(call[i].q), peaks)
          BY <2>3, <2>4, <3>1, ReadsOwn
        <4>. QED
          BY <2>5, <3>2, <4>1
      <3>4. PICK outs : outs =
              Graph(d, [r \in DOMAIN built |-> [item |-> i, row |-> built[r]]], peaks)
        OBVIOUS
      <3>5. PICK own : own = Rebased(0, Len(built))
        OBVIOUS
      <3>6. Logits(d, outs, own, OptionCount(q)) = Said(d, i, built, OptionCount(q), peaks)
        BY <3>1, <3>3, <3>4, <3>5, ReadsAlone
      <3>7. Decoded(d, logits, plan, q) = Decoded(d, outs, own, q)
        BY <3>3, <3>6 DEF Decoded
      <3>8. Alone(i, peaks) = Decoded(d, outs, own, q)
        BY <2>3, <3>2, <3>4, <3>5 DEF Alone, BuiltOf
      <3>. QED
        BY <2>4, <3>2, <3>7, <3>8
    <2>. QED
      BY <2>3, <2>5, <2>6
  <1>. QED
    BY <1>1, DecidersHold, PTL

-----------------------------------------------------------------------------
(* Division                                                                *)

\* A quotient and a remainder.
LEMMA DivIs ==
  ASSUME NEW a \in Nat, NEW b \in Nat, b >= 1
  PROVE  /\ a \div b \in Nat /\ a % b \in Nat
         /\ a = b * (a \div b) + (a % b) /\ a % b < b
PROOF
  <1>1. a \div b \in Int /\ a % b \in 0..(b - 1) /\ a = b * (a \div b) + (a % b)
    OBVIOUS
  <1>2. PICK d \in Int, r \in 0..(b - 1) : d = a \div b /\ r = a % b
    BY <1>1
  <1>3. a = b * d + r
    BY <1>1, <1>2
  <1>4. d >= 0
    <2>1. ASSUME d <= -1 PROVE FALSE
      <3>1. b * d <= b * (-1)
        BY <2>1
      <3>. QED
        BY <1>3, <3>1
    <2>. QED
      BY <2>1
  <1>. QED
    BY <1>1, <1>2, <1>4

\* There is one such.
LEMMA DivOne ==
  ASSUME NEW a \in Nat, NEW b \in Nat, b >= 1, NEW d \in Nat, NEW r \in Nat,
         a = b * d + r, r < b
  PROVE  a \div b = d /\ a % b = r
PROOF
  <1>1. PICK e \in Nat, s \in Nat : e = a \div b /\ s = a % b /\ a = b * e + s /\ s < b
    BY DivIs
  <1>2. b * (d - e) = s - r
    BY <1>1
  <1>3. d = e
    <2>1. ASSUME d >= e + 1 PROVE FALSE
      <3>1. b * (d - e) >= b * 1
        BY <2>1
      <3>. QED
        BY <1>1, <1>2, <3>1
    <2>2. ASSUME d <= e - 1 PROVE FALSE
      <3>1. b * (e - d) >= b * 1
        BY <2>2
      <3>2. b * (e - d) = r - s
        BY <1>1
      <3>. QED
        BY <1>1, <3>1, <3>2
    <2>. QED
      BY <2>1, <2>2
  <1>. QED
    BY <1>1, <1>3

\* Where one product is at most another, so are the factors.
LEMMA FactorLess ==
  ASSUME NEW a \in Nat, NEW b \in Nat, NEW c \in Nat, c >= 1, c * a <= c * b
  PROVE  a <= b
PROOF
  <1>1. ASSUME a >= b + 1 PROVE FALSE
    <2>1. c * a >= c * (b + 1)
      BY <1>1
    <2>2. c * (b + 1) = c * b + c
      OBVIOUS
    <2>. QED
      BY <2>1, <2>2
  <1>. QED
    BY <1>1

\* Larger factors make a larger product.
LEMMA ProductGrows ==
  ASSUME NEW a \in Nat, NEW b \in Nat, NEW c \in Nat, NEW d \in Nat, a <= c, b <= d
  PROVE  a * b <= c * d
PROOF
  <1>1. a * b <= c * b
    <2>1. PICK k \in Nat : c = a + k
      <3>1. c - a \in Nat /\ c = a + (c - a)
        OBVIOUS
      <3>. QED
        BY <3>1
    <2>2. c * b = a * b + k * b /\ k * b >= 0
      BY <2>1
    <2>. QED
      BY <2>2
  <1>2. c * b <= c * d
    <2>1. PICK k \in Nat : d = b + k
      <3>1. d - b \in Nat /\ d = b + (d - b)
        OBVIOUS
      <3>. QED
        BY <3>1
    <2>2. c * d = c * b + c * k /\ c * k >= 0
      BY <2>1
    <2>. QED
      BY <2>2
  <1>. QED
    BY <1>1, <1>2

\* A smaller square has a smaller root.
LEMMA RootLess ==
  ASSUME NEW a \in Nat, NEW b \in Nat, a * a <= b * b
  PROVE  a <= b
PROOF
  <1>1. ASSUME a >= b + 1 PROVE FALSE
    <2>1. (b + 1) * (b + 1) <= a * a
      BY <1>1, ProductGrows
    <2>2. (b + 1) * (b + 1) = b * b + 2 * b + 1
      OBVIOUS
    <2>. QED
      BY <2>1, <2>2
  <1>. QED
    BY <1>1

\* Every number is between two squares.
LEMMA RootExists ==
  ASSUME NEW q \in Nat
  PROVE  \E k \in Nat : k * k <= q /\ q < (k + 1) * (k + 1)
PROOF
  <1>. DEFINE T == {n \in Nat : \E k \in Nat : k * k <= n /\ n < (k + 1) * (k + 1)}
  <1>1. 0 \in T
    <2>1. 0 * 0 <= 0 /\ 0 < (0 + 1) * (0 + 1) /\ 0 \in Nat
      OBVIOUS
    <2>. QED
      BY <2>1
  <1>2. ASSUME NEW n \in Nat, n \in T PROVE n + 1 \in T
    <2>1. PICK k \in Nat : k * k <= n /\ n < (k + 1) * (k + 1)
      BY <1>2
    <2>2. CASE n + 1 < (k + 1) * (k + 1)
      BY <2>1, <2>2
    <2>3. CASE ~ (n + 1 < (k + 1) * (k + 1))
      <3>1. PICK l \in Nat : l = k + 1
        OBVIOUS
      <3>2. n + 1 = l * l
        BY <2>1, <2>3, <3>1
      <3>3. (l + 1) * (l + 1) = l * l + 2 * l + 1
        OBVIOUS
      <3>4. l * l <= n + 1 /\ n + 1 < (l + 1) * (l + 1)
        BY <3>2, <3>3
      <3>. QED
        BY <3>4
    <2>. QED
      BY <2>2, <2>3
  <1>. HIDE DEF T
  <1>3. q \in T
    BY <1>1, <1>2, SetInduction
  <1>. QED
    BY <1>3 DEF T

\* The sides a target is scaled to keep the image's shape: their product is near
\* the number of blocks it was scaled to.
LEMMA ProductAtMost ==
  ASSUME NEW a \in Nat, NEW b \in Nat, NEW c \in Nat, a >= 1, b >= 1,
         NEW x \in Nat, NEW y \in Nat, (x * x) * b <= c * a, (y * y) * a <= c * b
  PROVE  x * y <= c
PROOF
  <1>1. PICK p \in Nat, r \in Nat, d \in Nat : p = x * x /\ r = y * y /\ d = a * b
    OBVIOUS
  <1>2. (p * b) * (r * a) <= (c * a) * (c * b)
    <2>1. p * b \in Nat /\ r * a \in Nat /\ c * a \in Nat /\ c * b \in Nat
      OBVIOUS
    <2>2. p * b <= c * a /\ r * a <= c * b
      BY <1>1
    <2>. QED
      BY <2>1, <2>2, ProductGrows
  <1>3. d * (p * r) <= d * (c * c)
    <2>1. (p * b) * (r * a) = (a * b) * (p * r)
      OBVIOUS
    <2>2. (c * a) * (c * b) = (a * b) * (c * c)
      OBVIOUS
    <2>. QED
      BY <1>1, <1>2, <2>1, <2>2
  <1>4. d >= 1
    <2>1. 1 * 1 <= a * b
      BY ProductGrows
    <2>. QED
      BY <1>1, <2>1
  <1>5. p * r <= c * c
    <2>1. p * r \in Nat /\ c * c \in Nat
      OBVIOUS
    <2>. QED
      BY <1>3, <1>4, <2>1, FactorLess
  <1>6. (x * y) * (x * y) = p * r
    <2>1. (x * y) * (x * y) = (x * x) * (y * y)
      OBVIOUS
    <2>. QED
      BY <1>1, <2>1
  <1>7. PICK z \in Nat : z = x * y
    OBVIOUS
  <1>8. z * z <= c * c
    BY <1>5, <1>6, <1>7
  <1>. QED
    BY <1>7, <1>8, RootLess

\* The other way about.
LEMMA ProductAtLeast ==
  ASSUME NEW a \in Nat, NEW b \in Nat, NEW c \in Nat, a >= 1, b >= 1,
         NEW x \in Nat, NEW y \in Nat, c * a <= (x * x) * b, c * b <= (y * y) * a
  PROVE  c <= x * y
PROOF
  <1>1. PICK p \in Nat, r \in Nat, d \in Nat : p = x * x /\ r = y * y /\ d = a * b
    OBVIOUS
  <1>2. (c * a) * (c * b) <= (p * b) * (r * a)
    <2>1. p * b \in Nat /\ r * a \in Nat /\ c * a \in Nat /\ c * b \in Nat
      OBVIOUS
    <2>2. c * a <= p * b /\ c * b <= r * a
      BY <1>1
    <2>. QED
      BY <2>1, <2>2, ProductGrows
  <1>3. d * (c * c) <= d * (p * r)
    <2>1. (p * b) * (r * a) = (a * b) * (p * r)
      OBVIOUS
    <2>2. (c * a) * (c * b) = (a * b) * (c * c)
      OBVIOUS
    <2>. QED
      BY <1>1, <1>2, <2>1, <2>2
  <1>4. d >= 1
    <2>1. 1 * 1 <= a * b
      BY ProductGrows
    <2>. QED
      BY <1>1, <2>1
  <1>5. c * c <= p * r
    <2>1. p * r \in Nat /\ c * c \in Nat
      OBVIOUS
    <2>. QED
      BY <1>3, <1>4, <2>1, FactorLess
  <1>6. (x * y) * (x * y) = p * r
    <2>1. (x * y) * (x * y) = (x * x) * (y * y)
      OBVIOUS
    <2>. QED
      BY <1>1, <2>1
  <1>7. PICK z \in Nat : z = x * y
    OBVIOUS
  <1>8. c * c <= z * z
    BY <1>5, <1>6, <1>7
  <1>. QED
    BY <1>7, <1>8, RootLess

-----------------------------------------------------------------------------
(* The resize target                                                       *)

\* The greater and the lesser of two.
LEMMA OfTwo ==
  ASSUME NEW a \in Int, NEW b \in Int
  PROVE  /\ Max({a, b}) = IF a >= b THEN a ELSE b
         /\ Min({a, b}) = IF a <= b THEN a ELSE b
PROOF
  <1>1. PICK m : m = IF a >= b THEN a ELSE b
    OBVIOUS
  <1>2. m \in {a, b} /\ \A y \in {a, b} : m >= y
    BY <1>1
  <1>3. \A x \in {a, b} : (\A y \in {a, b} : x >= y) => x = m
    BY <1>1
  <1>4. PICK l : l = IF a <= b THEN a ELSE b
    OBVIOUS
  <1>5. l \in {a, b} /\ \A y \in {a, b} : l <= y
    BY <1>4
  <1>6. \A x \in {a, b} : (\A y \in {a, b} : x <= y) => x = l
    BY <1>4
  <1>7. Max({a, b}) = m
    BY <1>2, <1>3 DEF Max
  <1>8. Min({a, b}) = l
    BY <1>5, <1>6 DEF Min
  <1>. QED
    BY <1>1, <1>4, <1>7, <1>8

\* An aspect the processor takes: no side is 200 times the other.
LEMMA AspectIs ==
  ASSUME NEW h \in Nat, NEW w \in Nat
  PROVE  Aspect(h, w) <=> h <= 200 * w /\ w <= 200 * h
PROOF
  <1>1. PICK m : m = Max({h, w}) /\ m = IF h >= w THEN h ELSE w
    BY OfTwo
  <1>2. PICK l : l = Min({h, w}) /\ l = IF h <= w THEN h ELSE w
    BY OfTwo
  <1>3. Aspect(h, w) <=> m <= 200 * l
    BY <1>1, <1>2 DEF Aspect, VISION_MAX_ASPECT
  <1>. QED
    BY <1>1, <1>2, <1>3

\* A number with a square that is small enough is among the roots.
LEMMA RootSmall ==
  ASSUME NEW k \in Nat, NEW n \in Nat, NEW m \in Nat, k * k <= n, n < (m + 1) * (m + 1)
  PROVE  k <= m
PROOF
  <1>1. PICK l \in Nat : l = m + 1
    OBVIOUS
  <1>2. ASSUME l <= k PROVE FALSE
    <2>1. l * l <= k * k
      BY <1>2, ProductGrows
    <2>. QED
      BY <1>1, <2>1
  <1>. QED
    BY <1>1, <1>2

\* A side that shrinks: floored, it is the last of which the square is not too
\* large, or the one before that.
LEMMA ShrunkIs ==
  ASSUME NEW a \in Nat, NEW b \in Nat, a >= 1, b >= 1, a <= 200 * b, b <= 200 * a,
         NEW n \in shrunk(a, b)
  PROVE  /\ n \in 1..506
         /\ (n * n) * b <= 1280 * a /\ 1280 * a <= ((n + 1) * (n + 1)) * b
PROOF
  <1>1. PICK c \in Nat : c = 1280 * a
    OBVIOUS
  <1>2. PICK q \in Nat, r \in Nat : q = c \div b /\ r = c % b /\ c = b * q + r /\ r < b
    BY DivIs
  <1>3. q <= 256000
    <2>1. ASSUME q >= 256001 PROVE FALSE
      <3>1. b * q >= b * 256001
        BY <2>1, ProductGrows
      <3>. QED
        BY <1>1, <1>2, <3>1
    <2>. QED
      BY <2>1
  <1>4. \E k \in Roots : k * k <= q /\ q < (k + 1) * (k + 1)
    <2>1. PICK k \in Nat : k * k <= q /\ q < (k + 1) * (k + 1)
      BY RootExists
    <2>2. k <= 506
      <3>1. k * k <= 256000
        BY <1>3, <2>1
      <3>2. 256000 < (506 + 1) * (506 + 1)
        OBVIOUS
      <3>. QED
        BY <3>1, <3>2, RootSmall
    <2>. QED
      BY <2>1, <2>2 DEF Roots
  <1>5. PICK k : /\ k = CHOOSE k0 \in Roots : k0 * k0 <= q /\ q < (k0 + 1) * (k0 + 1)
                 /\ k = CHOOSE k0 \in Roots :
                          /\ k0 * k0 <= (MAX_BLOCKS * a) \div b
                          /\ (MAX_BLOCKS * a) \div b < (k0 + 1) * (k0 + 1)
    <2>1. q = (MAX_BLOCKS * a) \div b
      BY <1>1, <1>2 DEF MAX_BLOCKS
    <2>. QED
      BY <2>1, Zenon
  <1>6. k \in 0..506 /\ k * k <= q /\ q < (k + 1) * (k + 1)
    BY <1>4, <1>5 DEF Roots
  <1>7. PICK p \in Nat, s \in Nat : p = k * k /\ s = (k + 1) * (k + 1)
    BY <1>6
  <1>8. p * b <= c
    <2>1. b * p <= b * q
      BY <1>6, <1>7, ProductGrows
    <2>. QED
      BY <1>2, <2>1
  <1>9. c <= s * b
    <2>1. b * (q + 1) <= b * s
      <3>1. q + 1 <= s /\ q + 1 \in Nat
        BY <1>6, <1>7
      <3>. QED
        BY <3>1, ProductGrows
    <2>2. b * (q + 1) = b * q + b
      OBVIOUS
    <2>. QED
      BY <1>2, <2>1, <2>2
  <1>10. PICK exact \in BOOLEAN : exact = (r = 0 /\ p = q)
    OBVIOUS
  <1>11. shrunk(a, b) = {Max({1, x}) : x \in IF exact THEN {k - 1, k} ELSE {k}}
    <2>1. exact <=> ((MAX_BLOCKS * a) % b) = 0 /\ k * k = (MAX_BLOCKS * a) \div b
      <3>1. c = MAX_BLOCKS * a
        BY <1>1 DEF MAX_BLOCKS
      <3>2. exact <=> (c % b) = 0 /\ k * k = c \div b
        BY <1>2, <1>7, <1>10, Zenon
      <3>. QED
        BY <3>1, <3>2, Zenon
    <2>2. shrunk(a, b) =
            {Max({1, x}) : x \in IF ((MAX_BLOCKS * a) % b) = 0 /\ k * k = (MAX_BLOCKS * a) \div b
                                 THEN {k - 1, k} ELSE {k}}
      BY <1>5, Zenon DEF shrunk
    <2>. QED
      BY <2>1, <2>2, Zenon
  <1>12. PICK x \in IF exact THEN {k - 1, k} ELSE {k} : n = Max({1, x})
    BY <1>11
  <1>13. x = k \/ (x = k - 1 /\ p * b = c)
    <2>1. CASE exact
      <3>1. r = 0 /\ p = q
        BY <1>10, <2>1
      <3>2. c = b * p
        BY <1>2, <3>1
      <3>. QED
        BY <1>12, <2>1, <3>2
    <2>2. CASE ~ exact
      BY <1>12, <2>2
    <2>. QED
      BY <2>1, <2>2
  <1>14. x \in 0..506 /\ (x * x) * b <= c /\ c <= ((x + 1) * (x + 1)) * b
    <2>1. CASE x = k
      BY <1>6, <1>7, <1>8, <1>9, <2>1
    <2>2. CASE x = k - 1 /\ p * b = c
      <3>1. k # 0
        <4>1. ASSUME k = 0 PROVE FALSE
          <5>1. p = 0
            BY <1>7, <4>1
          <5>. QED
            BY <1>1, <2>2, <5>1
        <4>. QED
          BY <4>1
      <3>2. x \in Nat /\ x <= k /\ x + 1 = k /\ k \in Nat
        BY <1>6, <2>2, <3>1
      <3>3. x * x <= p /\ x * x \in Nat
        BY <1>7, <3>2, ProductGrows
      <3>4. (x * x) * b <= p * b
        BY <3>3, ProductGrows
      <3>5. (x + 1) * (x + 1) = p
        BY <1>7, <3>2
      <3>. QED
        BY <1>6, <2>2, <3>2, <3>4, <3>5
    <2>. QED
      BY <1>13, <2>1, <2>2
  <1>15. n = IF x >= 1 THEN x ELSE 1
    BY <1>12, <1>14, OfTwo
  <1>16. CASE x >= 1
    BY <1>1, <1>14, <1>15, <1>16
  <1>17. CASE x < 1
    <2>1. x = 0 /\ n = 1
      BY <1>14, <1>15, <1>17
    <2>2. c <= b
      BY <1>14, <2>1
    <2>. QED
      BY <1>1, <2>1, <2>2
  <1>. QED
    BY <1>14, <1>16, <1>17

\* A side that grows: ceiled, it is the first of which the square is large
\* enough, or the one after that.
LEMMA GrownIs ==
  ASSUME NEW a \in Nat, NEW b \in Nat, a >= 1, b >= 1, a <= 200 * b,
         NEW n \in grown(a, b)
  PROVE  /\ n \in 1..228
         /\ 256 * a <= (n * n) * b /\ ((n - 1) * (n - 1)) * b <= 256 * a
PROOF
  <1>1. PICK c \in Nat : c = 256 * a + b - 1 /\ c >= b
    <2>1. 256 * a + b - 1 \in Nat /\ 256 * a + b - 1 >= b
      OBVIOUS
    <2>. QED
      BY <2>1
  <1>2. PICK q \in Nat, r \in Nat : q = c \div b /\ c = b * q + r /\ r < b
    BY DivIs
  <1>3. q <= 51200 /\ q >= 1
    <2>1. ASSUME q >= 51201 PROVE FALSE
      <3>1. b * q >= b * 51201
        BY <2>1, ProductGrows
      <3>. QED
        BY <1>1, <1>2, <3>1
    <2>2. ASSUME q = 0 PROVE FALSE
      <3>1. b * q = 0
        BY <2>2
      <3>. QED
        BY <1>1, <1>2, <3>1
    <2>. QED
      BY <2>1, <2>2
  <1>4. \E k \in Roots \ {0} : (k - 1) * (k - 1) < q /\ q <= k * k
    <2>1. PICK u \in Nat : u = q - 1
      BY <1>3
    <2>2. PICK j \in Nat : j * j <= u /\ u < (j + 1) * (j + 1)
      BY RootExists
    <2>3. j <= 226
      <3>1. j * j <= 51199
        BY <1>3, <2>1, <2>2
      <3>2. 51199 < (226 + 1) * (226 + 1)
        OBVIOUS
      <3>. QED
        BY <3>1, <3>2, RootSmall
    <2>4. PICK k \in Nat : k = j + 1
      OBVIOUS
    <2>5. (k - 1) * (k - 1) = j * j /\ k * k = (j + 1) * (j + 1)
      BY <2>4
    <2>6. PICK m \in Nat : m = (j + 1) * (j + 1)
      OBVIOUS
    <2>7. (k - 1) * (k - 1) < q /\ q <= k * k
      BY <1>3, <2>1, <2>2, <2>5, <2>6
    <2>8. k \in Roots \ {0}
      BY <2>3, <2>4 DEF Roots
    <2>. QED
      BY <2>7, <2>8
  <1>5. PICK k : /\ k = CHOOSE k0 \in Roots \ {0} : (k0 - 1) * (k0 - 1) < q /\ q <= k0 * k0
                 /\ k = CHOOSE k0 \in Roots \ {0} :
                          /\ (k0 - 1) * (k0 - 1) < (MIN_BLOCKS * a + b - 1) \div b
                          /\ (MIN_BLOCKS * a + b - 1) \div b <= k0 * k0
    <2>1. q = (MIN_BLOCKS * a + b - 1) \div b
      BY <1>1, <1>2 DEF MIN_BLOCKS
    <2>. QED
      BY <2>1, Zenon
  <1>6. k \in 1..227 /\ (k - 1) * (k - 1) < q /\ q <= k * k
    <2>1. k \in Roots \ {0} /\ (k - 1) * (k - 1) < q /\ q <= k * k
      BY <1>4, <1>5
    <2>2. PICK j \in Nat : j = k - 1
      BY <2>1 DEF Roots
    <2>3. j <= 226
      <3>1. j * j <= 51199
        BY <1>3, <2>1, <2>2
      <3>2. 51199 < (226 + 1) * (226 + 1)
        OBVIOUS
      <3>. QED
        BY <3>1, <3>2, RootSmall
    <2>. QED
      BY <2>1, <2>2, <2>3 DEF Roots
  <1>7. PICK p \in Nat, s \in Nat : p = k * k /\ s = (k - 1) * (k - 1)
    <2>1. k * k \in Nat /\ (k - 1) * (k - 1) \in Nat
      <3>1. k \in Nat /\ k - 1 \in Nat
        BY <1>6
      <3>. QED
        BY <3>1
    <2>. QED
      BY <2>1
  <1>8. 256 * a <= p * b
    <2>1. b * q <= b * p
      BY <1>6, <1>7, ProductGrows
    <2>. QED
      BY <1>1, <1>2, <2>1
  <1>9. s * b <= 256 * a
    <2>1. b * (s + 1) <= b * q
      <3>1. s + 1 <= q /\ s + 1 \in Nat
        BY <1>6, <1>7
      <3>. QED
        BY <3>1, ProductGrows
    <2>2. b * (s + 1) = b * s + b
      OBVIOUS
    <2>. QED
      BY <1>1, <1>2, <2>1, <2>2
  <1>10. PICK exact \in BOOLEAN : exact = (((256 * a) % b) = 0 /\ p = q)
    OBVIOUS
  <1>11. grown(a, b) = IF exact THEN {k, k + 1} ELSE {k}
    <2>1. exact <=> ((MIN_BLOCKS * a) % b) = 0 /\ k * k = (MIN_BLOCKS * a + b - 1) \div b
      BY <1>1, <1>2, <1>7, <1>10 DEF MIN_BLOCKS
    <2>2. grown(a, b) =
            IF ((MIN_BLOCKS * a) % b) = 0 /\ k * k = (MIN_BLOCKS * a + b - 1) \div b
            THEN {k, k + 1} ELSE {k}
      BY <1>5, Zenon DEF grown
    <2>. QED
      BY <2>1, <2>2, Zenon
  <1>12. n = k \/ (n = k + 1 /\ exact)
    BY <1>11
  <1>13. CASE n = k
    BY <1>6, <1>7, <1>8, <1>9, <1>13
  <1>14. CASE n = k + 1 /\ exact
    <2>1. p * b <= 256 * a
      <3>1. PICK d \in Nat : d = 256 * a
        OBVIOUS
      <3>2. PICK e \in Nat, f \in Nat : e = d \div b /\ f = d % b /\ d = b * e + f
        BY DivIs
      <3>3. d = b * e
        <4>1. f = 0
          BY <1>10, <1>14, <3>1, <3>2
        <4>. QED
          BY <3>2, <4>1
      <3>4. ASSUME e <= q - 1 PROVE FALSE
        <4>1. b * e <= b * (q - 1)
          BY <1>3, <3>4, ProductGrows
        <4>2. b * (q - 1) = b * q - b
          OBVIOUS
        <4>. QED
          BY <1>1, <1>2, <3>1, <3>3, <4>1, <4>2
      <3>5. q <= e
        BY <3>4
      <3>6. b * q <= b * e
        BY <3>5, ProductGrows
      <3>7. p = q
        BY <1>10, <1>14
      <3>. QED
        BY <3>1, <3>3, <3>6, <3>7
    <2>. QED
      <3>1. n \in Nat /\ n - 1 = k /\ k <= n /\ k \in Nat
        BY <1>6, <1>14
      <3>2. p <= n * n /\ n * n \in Nat
        BY <1>7, <3>1, ProductGrows
      <3>3. p * b <= (n * n) * b
        BY <3>2, ProductGrows
      <3>4. (n - 1) * (n - 1) = p
        BY <1>7, <3>1
      <3>. QED
        BY <1>6, <1>8, <1>14, <2>1, <3>1, <3>3, <3>4
  <1>. QED
    BY <1>12, <1>13, <1>14

\* A side in blocks is a number, and the side of whole blocks is their number.
LEMMA RoundIs ==
  /\ \A n \in Nat : round_half_even(n) \in Nat
  /\ \A s \in Nat : round_half_even(32 * s) = s
PROOF
  <1>1. ASSUME NEW n \in Nat PROVE round_half_even(n) \in Nat
    <2>1. PICK d \in Nat : d = n \div 32
      BY DivIs
    <2>2. round_half_even(n) \in {d, d + 1}
      BY <2>1 DEF round_half_even, VISION_FACTOR
    <2>. QED
      BY <2>2
  <1>2. ASSUME NEW s \in Nat PROVE round_half_even(32 * s) = s
    <2>1. (32 * s) \div 32 = s /\ (32 * s) % 32 = 0
      OBVIOUS
    <2>2. 2 * ((32 * s) % 32) < 32
      BY <2>1
    <2>. QED
      BY <2>1, <2>2 DEF round_half_even, VISION_FACTOR
  <1>. QED
    BY <1>1, <1>2

\* A size of whole blocks, of which there are as many as the model takes.
Sized(t) ==
  \E s1, s2 \in Nat : t = <<32 * s1, 32 * s2>> /\ 256 <= s1 * s2 /\ s1 * s2 <= 1280

\* What a target is made of: three ways to find its sides.
Sides(h, w) ==
  LET hb == round_half_even(h)
      wb == round_half_even(w)
  IN CASE hb * wb > 1280 -> shrunk(h, w) \X shrunk(w, h)
       [] hb * wb < 256  -> grown(h, w) \X grown(w, h)
       [] OTHER          -> {<<hb, wb>>}

\* The targets are the sides, in pixels.
LEMMA TargetIs ==
  ASSUME NEW h \in Nat, NEW w \in Nat
  PROVE  vision_target_size(h, w) =
           IF h = 0 \/ w = 0 \/ ~ Aspect(h, w) THEN {}
           ELSE {<<s[1] * 32, s[2] * 32>> : s \in Sides(h, w)}
  BY Zenon DEF vision_target_size, Sides, VISION_FACTOR, MAX_BLOCKS, MIN_BLOCKS

\* Every target has a size the model takes.
LEMMA TargetSized ==
  ASSUME NEW h \in Nat, NEW w \in Nat, NEW t \in vision_target_size(h, w)
  PROVE  Sized(t)
PROOF
  <1>1. h # 0 /\ w # 0 /\ Aspect(h, w) /\ \E s \in Sides(h, w) : t = <<s[1] * 32, s[2] * 32>>
    BY TargetIs
  <1>2. h >= 1 /\ w >= 1 /\ h <= 200 * w /\ w <= 200 * h
    BY <1>1, AspectIs
  <1>3. PICK s \in Sides(h, w) : t = <<s[1] * 32, s[2] * 32>>
    BY <1>1
  <1>4. PICK hb \in Nat, wb \in Nat : hb = round_half_even(h) /\ wb = round_half_even(w)
    BY RoundIs
  <1>5. SUFFICES \E s1, s2 \in Nat : s = <<s1, s2>> /\ 256 <= s1 * s2 /\ s1 * s2 <= 1280
    <2>1. PICK s1 \in Nat, s2 \in Nat : s = <<s1, s2>> /\ 256 <= s1 * s2 /\ s1 * s2 <= 1280
      BY <1>5
    <2>2. t = <<32 * s1, 32 * s2>>
      BY <1>3, <2>1
    <2>. QED
      BY <2>1, <2>2 DEF Sized
  <1>6. CASE hb * wb > 1280
    <2>1. s \in shrunk(h, w) \X shrunk(w, h)
      BY <1>4, <1>6 DEF Sides
    <2>2. PICK x \in shrunk(h, w), y \in shrunk(w, h) : s = <<x, y>>
      BY <2>1
    <2>3. x \in 1..506 /\ (x * x) * w <= 1280 * h /\ 1280 * h <= ((x + 1) * (x + 1)) * w
      BY <1>2, ShrunkIs
    <2>4. y \in 1..506 /\ (y * y) * h <= 1280 * w /\ 1280 * w <= ((y + 1) * (y + 1)) * h
      BY <1>2, ShrunkIs
    <2>5. x \in Nat /\ y \in Nat /\ x <= 506 /\ y <= 506
      BY <2>3, <2>4
    <2>6. x * y <= 1280
      <3>1. (x * x) * w <= 1280 * h /\ (y * y) * h <= 1280 * w
        BY <2>3, <2>4
      <3>. QED
        BY <1>2, <2>5, <3>1, ProductAtMost
    <2>7. PICK x1 \in Nat, y1 \in Nat : x1 = x + 1 /\ y1 = y + 1
      BY <2>5
    <2>8. 1280 <= x1 * y1
      <3>1. 1280 * h <= (x1 * x1) * w /\ 1280 * w <= (y1 * y1) * h
        BY <2>3, <2>4, <2>7
      <3>. QED
        BY <1>2, <3>1, ProductAtLeast
    <2>9. x1 * y1 = x * y + x + y + 1
      BY <2>5, <2>7
    <2>10. PICK z \in Nat : z = x * y
      BY <2>5
    <2>11. 256 <= z
      BY <2>5, <2>8, <2>9, <2>10
    <2>. QED
      BY <2>2, <2>5, <2>6, <2>10, <2>11
  <1>7. CASE hb * wb < 256
    <2>1. s \in grown(h, w) \X grown(w, h)
      BY <1>4, <1>7 DEF Sides
    <2>2. PICK x \in grown(h, w), y \in grown(w, h) : s = <<x, y>>
      BY <2>1
    <2>3. x \in 1..228 /\ 256 * h <= (x * x) * w /\ ((x - 1) * (x - 1)) * w <= 256 * h
      BY <1>2, GrownIs
    <2>4. y \in 1..228 /\ 256 * w <= (y * y) * h /\ ((y - 1) * (y - 1)) * h <= 256 * w
      BY <1>2, GrownIs
    <2>5. x \in Nat /\ y \in Nat /\ x <= 228 /\ y <= 228
      BY <2>3, <2>4
    <2>6. 256 <= x * y
      BY <1>2, <2>3, <2>4, <2>5, ProductAtLeast
    <2>7. PICK x1 \in Nat, y1 \in Nat : x = x1 + 1 /\ y = y1 + 1
      <3>1. x - 1 \in Nat /\ y - 1 \in Nat /\ x = (x - 1) + 1 /\ y = (y - 1) + 1
        BY <2>3, <2>4
      <3>. QED
        BY <3>1
    <2>8. x1 * y1 <= 256
      <3>1. x1 = x - 1 /\ y1 = y - 1
        BY <2>5, <2>7
      <3>2. (x1 * x1) * w <= 256 * h /\ (y1 * y1) * h <= 256 * w
        BY <2>3, <2>4, <3>1
      <3>. QED
        BY <1>2, <3>2, ProductAtMost
    <2>9. x * y = x1 * y1 + x1 + y1 + 1
      BY <2>7
    <2>10. PICK z \in Nat : z = x1 * y1
      OBVIOUS
    <2>11. x * y <= 1280
      BY <2>5, <2>7, <2>8, <2>9, <2>10
    <2>. QED
      BY <2>2, <2>5, <2>6, <2>11
  <1>8. CASE ~ (hb * wb > 1280) /\ ~ (hb * wb < 256)
    <2>1. s \in {<<hb, wb>>}
      BY <1>4, <1>8 DEF Sides
    <2>2. PICK z \in Nat : z = hb * wb
      OBVIOUS
    <2>3. 256 <= z /\ z <= 1280
      BY <1>8, <2>2
    <2>. QED
      BY <2>1, <2>2, <2>3
  <1>. QED
    BY <1>6, <1>7, <1>8

\* A size the model takes is its own target, when its aspect will do.
LEMMA SizedIsOwn ==
  ASSUME NEW s1 \in Nat, NEW s2 \in Nat, 256 <= s1 * s2, s1 * s2 <= 1280,
         Aspect(32 * s1, 32 * s2)
  PROVE  vision_target_size(32 * s1, 32 * s2) = {<<32 * s1, 32 * s2>>}
PROOF
  <1>1. s1 >= 1 /\ s2 >= 1
    <2>1. ASSUME s1 = 0 PROVE FALSE
      <3>1. s1 * s2 = 0
        BY <2>1
      <3>. QED
        BY <3>1
    <2>2. ASSUME s2 = 0 PROVE FALSE
      <3>1. s1 * s2 = 0
        BY <2>2
      <3>. QED
        BY <3>1
    <2>. QED
      BY <2>1, <2>2
  <1>2. PICK h \in Nat, w \in Nat : h = 32 * s1 /\ w = 32 * s2
    OBVIOUS
  <1>3. h # 0 /\ w # 0
    BY <1>1, <1>2
  <1>4. round_half_even(h) = s1 /\ round_half_even(w) = s2
    BY <1>2, RoundIs
  <1>5. PICK z \in Nat : z = s1 * s2
    OBVIOUS
  <1>6. ~ (z > 1280) /\ ~ (z < 256)
    BY <1>5
  <1>7. Sides(h, w) = {<<s1, s2>>}
    BY <1>4, <1>5, <1>6 DEF Sides
  <1>8. vision_target_size(h, w) = {<<s[1] * 32, s[2] * 32>> : s \in Sides(h, w)}
    BY <1>2, <1>3, TargetIs
  <1>9. <<s1 * 32, s2 * 32>> = <<h, w>>
    BY <1>2
  <1>10. {<<s[1] * 32, s[2] * 32>> : s \in {<<s1, s2>>}} = {<<s1 * 32, s2 * 32>>}
    OBVIOUS
  <1>. QED
    BY <1>2, <1>7, <1>8, <1>9, <1>10

-----------------------------------------------------------------------------
(* The inductive invariant of the images                                   *)

\* An image that is its own target.
Own(i) == TRUE \in check_target_size(i[1], i[2])

\* What was told is a size the model takes and, from the resize on, the image;
\* what was embedded was its own target, and what was sent back was not.
VisionInv ==
  /\ image \in Nat \X Nat /\ stage \in Stages
  /\ asked = {} \/ \E t \in Nat \X Nat : asked = {t} /\ Sized(t)
  /\ stage \in {"none", "held", "no_target"} => asked = {}
  /\ stage \in {"asked", "resized"} => asked # {}
  /\ stage # "asked" => asked \subseteq {image}
  /\ stage = "embedded" => Own(image)
  /\ stage = "not_its_target" => ~ Own(image)

\* An image comes in.
LEMMA VisionInvInit ==
  ASSUME VisionInit
  PROVE  VisionInv
  BY DEF VisionInit, VisionInv, Stages

\* A target is a pair of numbers.
LEMMA SizedIs ==
  ASSUME NEW t, Sized(t)
  PROVE  t \in Nat \X Nat
  BY DEF Sized

\* Telling the target keeps the invariant.
LEMMA TargetSizeKeeps ==
  ASSUME VisionInv, TargetSize
  PROVE  VisionInv'
PROOF
  <1>1. PICK h \in Nat, w \in Nat : image = <<h, w>> /\ h = image[1] /\ w = image[2]
    BY DEF VisionInv
  <1>2. stage = "held" /\ asked = {} /\ image' = image
    BY DEF VisionInv, TargetSize
  <1>3. CASE vision_target_size(h, w) = {} /\ stage' = "no_target" /\ asked' = asked
    BY <1>1, <1>2, <1>3 DEF VisionInv, Stages
  <1>4. CASE \E t \in vision_target_size(h, w) : asked' = {t} /\ stage' = "asked"
    <2>1. PICK t \in vision_target_size(h, w) : asked' = {t} /\ stage' = "asked"
      BY <1>4
    <2>2. Sized(t)
      BY TargetSized
    <2>3. t \in Nat \X Nat
      BY <2>2, SizedIs
    <2>. QED
      BY <1>1, <1>2, <2>1, <2>2, <2>3 DEF VisionInv, Stages
  <1>. QED
    BY <1>1, <1>3, <1>4 DEF TargetSize

\* Resizing keeps the invariant.
LEMMA ResizeKeeps ==
  ASSUME VisionInv, Resize
  PROVE  VisionInv'
PROOF
  <1>1. PICK t \in Nat \X Nat : asked = {t} /\ Sized(t)
    BY DEF VisionInv, Resize
  <1>2. image' = t /\ stage' = "resized" /\ asked' = {t}
    BY <1>1 DEF Resize
  <1>. QED
    BY <1>1, <1>2 DEF VisionInv, Stages

\* Embedding keeps the invariant.
LEMMA EncodeImageKeeps ==
  ASSUME VisionInv, EncodeImage
  PROVE  VisionInv'
PROOF
  <1>1. stage \in {"held", "resized"} /\ image' = image /\ asked' = asked
    BY DEF EncodeImage
  <1>2. stage' \in Encoded(image[1], image[2])
    BY DEF EncodeImage
  <1>3. CASE ~ Own(image)
    <2>1. stage' = "not_its_target"
      BY <1>2, <1>3 DEF Own, Encoded
    <2>2. ~ Own(image)'
      BY <1>1, <1>3 DEF Own
    <2>. QED
      BY <1>1, <2>1, <2>2 DEF VisionInv, Stages
  <1>4. CASE Own(image)
    <2>1. stage' \in {"short_buffer", "embedded", "wrong_tokenizer"}
      BY <1>2, <1>4 DEF Own, Encoded
    <2>2. Own(image)'
      BY <1>1, <1>4 DEF Own
    <2>. QED
      BY <1>1, <2>1, <2>2 DEF VisionInv, Stages
  <1>. QED
    BY <1>3, <1>4

\* Another image keeps the invariant.
LEMMA AnotherKeeps ==
  ASSUME VisionInv, Another
  PROVE  VisionInv'
PROOF
  <1>1. image' \in Nat \X Nat /\ asked' = {} /\ stage' = "held"
    BY ImagesAssumption DEF Another
  <1>. QED
    BY <1>1 DEF VisionInv, Stages

\* Every step keeps the invariant.
LEMMA VisionInvStep ==
  ASSUME VisionInv, [VisionNext]_visionVars
  PROVE  VisionInv'
PROOF
  <1>1. CASE TargetSize
    BY <1>1, TargetSizeKeeps
  <1>2. CASE Resize
    BY <1>2, ResizeKeeps
  <1>3. CASE EncodeImage
    BY <1>3, EncodeImageKeeps
  <1>4. CASE Another
    BY <1>4, AnotherKeeps
  <1>5. CASE UNCHANGED visionVars
    BY <1>5 DEF visionVars, VisionInv, Own
  <1>. QED
    BY <1>1, <1>2, <1>3, <1>4, <1>5 DEF VisionNext

\* The images of the process fare as images do, whatever the deciders do.
THEOREM InputsSees == InputsSpec => VisionSpec
PROOF
  <1>1. InputsInit => VisionInit
    BY DEF InputsInit
  <1>2. [InputsNext]_<<visionVars, decidersVars>> => [VisionNext]_visionVars
    BY DEF InputsNext
  <1>. QED
    BY <1>1, <1>2, PTL DEF InputsSpec, VisionSpec

\* The invariant of the images holds.
THEOREM ImagesHold == VisionSpec => []VisionInv
PROOF
  <1>1. VisionInit => VisionInv
    BY VisionInvInit
  <1>2. VisionInv /\ [VisionNext]_visionVars => VisionInv'
    BY VisionInvStep
  <1>. QED
    BY <1>1, <1>2, PTL DEF VisionSpec

-----------------------------------------------------------------------------
(* What comes of an image                                                  *)

\* The blocks of an image: its size, patches and tokens.
Blocks(i, s1, s2) ==
  /\ i = <<32 * s1, 32 * s2>> /\ i[1] = 32 * s1 /\ i[2] = 32 * s2
  /\ s1 >= 1 /\ s2 >= 1 /\ 256 <= s1 * s2 /\ s1 * s2 <= 1280
  /\ Grid(i[1], i[2]) = [rows |-> 2 * s1, cols |-> 2 * s2]
  /\ Patches(i[1], i[2]) = 0..(4 * (s1 * s2) - 1)
  /\ Cardinality(Patches(i[1], i[2])) = 4 * (s1 * s2)
  /\ ImageTokens(i[1], i[2]) = s1 * s2

\* An image of whole blocks has four patches in each, and a token.
LEMMA BlocksAre ==
  ASSUME NEW s1 \in Nat, NEW s2 \in Nat, 256 <= s1 * s2, s1 * s2 <= 1280,
         NEW i, i = <<32 * s1, 32 * s2>>
  PROVE  Blocks(i, s1, s2)
PROOF
  <1>1. s1 >= 1 /\ s2 >= 1
    <2>1. ASSUME s1 = 0 PROVE FALSE
      <3>1. s1 * s2 = 0
        BY <2>1
      <3>. QED
        BY <3>1
    <2>2. ASSUME s2 = 0 PROVE FALSE
      <3>1. s1 * s2 = 0
        BY <2>2
      <3>. QED
        BY <3>1
    <2>. QED
      BY <2>1, <2>2
  <1>2. i[1] = 32 * s1 /\ i[2] = 32 * s2
    OBVIOUS
  <1>3. (32 * s1) \div 16 = 2 * s1 /\ (32 * s2) \div 16 = 2 * s2
    OBVIOUS
  <1>4. Grid(i[1], i[2]) = [rows |-> 2 * s1, cols |-> 2 * s2]
    BY <1>2, <1>3 DEF Grid, PATCH
  <1>5. PICK n \in Nat : n = s1 * s2
    OBVIOUS
  <1>6. (2 * s1) * (2 * s2) = 4 * n
    <2>1. (2 * s1) * (2 * s2) = 4 * (s1 * s2)
      OBVIOUS
    <2>. QED
      BY <1>5, <2>1
  <1>7. Patches(i[1], i[2]) = 0..(4 * n - 1)
    BY <1>4, <1>6 DEF Patches
  <1>8. Cardinality(0..(4 * n - 1)) = 4 * n
    <2>1. PICK m \in Int : m = 4 * n - 1 /\ 0 <= m
      BY <1>5
    <2>2. Cardinality(0..m) = m - 0 + 1
      BY <2>1, FS_Interval
    <2>. QED
      BY <2>1, <2>2
  <1>9. ImageTokens(i[1], i[2]) = n
    <2>1. (4 * n) \div (2 * 2) = n
      OBVIOUS
    <2>. QED
      BY <1>7, <1>8, <2>1 DEF ImageTokens, MERGE
  <1>. QED
    BY <1>1, <1>2, <1>4, <1>5, <1>7, <1>8, <1>9 DEF Blocks

\* An image that is its own target is one of those.
LEMMA OwnBlocks ==
  ASSUME NEW i \in Nat \X Nat, Own(i)
  PROVE  \E s1, s2 \in Nat : Blocks(i, s1, s2)
PROOF
  <1>1. PICK h \in Nat, w \in Nat : i = <<h, w>> /\ h = i[1] /\ w = i[2]
    OBVIOUS
  <1>2. <<h, w>> \in vision_target_size(h, w)
    BY <1>1 DEF Own, check_target_size
  <1>3. Sized(<<h, w>>)
    BY <1>2, TargetSized
  <1>4. PICK s1 \in Nat, s2 \in Nat :
          <<h, w>> = <<32 * s1, 32 * s2>> /\ 256 <= s1 * s2 /\ s1 * s2 <= 1280
    BY <1>3 DEF Sized
  <1>5. Blocks(i, s1, s2)
    BY <1>1, <1>4, BlocksAre
  <1>. QED
    BY <1>5

\* An image is not sent back once it was resized to its target, unless its
\* aspect is beyond the processor, and one that is embedded has from 256 to
\* 1280 tokens: whatever size it came in.
THEOREM SizesSettle == InputsSpec => []SizeSettled
PROOF
  <1>1. VisionInv => ResizedOnce
    <2>1. SUFFICES ASSUME VisionInv, stage = "not_its_target", asked # {},
                          Aspect(image[1], image[2])
          PROVE  FALSE
      BY DEF ResizedOnce
    <2>2. Sized(image)
      BY <2>1 DEF VisionInv
    <2>3. PICK s1 \in Nat, s2 \in Nat :
            image = <<32 * s1, 32 * s2>> /\ 256 <= s1 * s2 /\ s1 * s2 <= 1280
      BY <2>2 DEF Sized
    <2>4. image[1] = 32 * s1 /\ image[2] = 32 * s2
      BY <2>3
    <2>5. vision_target_size(image[1], image[2]) = {<<image[1], image[2]>>}
      BY <2>1, <2>3, <2>4, SizedIsOwn
    <2>6. Own(image)
      BY <2>5 DEF Own, check_target_size
    <2>. QED
      BY <2>1, <2>6 DEF VisionInv
  <1>2. VisionInv => TokensBounded
    <2>1. SUFFICES ASSUME VisionInv, stage = "embedded"
          PROVE  /\ ImageTokens(image[1], image[2]) \in MIN_BLOCKS..MAX_BLOCKS
                 /\ Cardinality(Patches(image[1], image[2])) = 4 * ImageTokens(image[1], image[2])
      BY DEF TokensBounded
    <2>2. PICK s1 \in Nat, s2 \in Nat : Blocks(image, s1, s2)
      BY <2>1, OwnBlocks DEF VisionInv
    <2>3. PICK n \in Nat : n = s1 * s2
      OBVIOUS
    <2>4. /\ Cardinality(Patches(image[1], image[2])) = 4 * n
          /\ ImageTokens(image[1], image[2]) = n /\ n \in 256..1280
      BY <2>2, <2>3 DEF Blocks
    <2>. QED
      BY <2>4 DEF MIN_BLOCKS, MAX_BLOCKS
  <1>. QED
    BY <1>1, <1>2, InputsSees, ImagesHold, PTL DEF SizeSettled

\* The place patch p is listed at: the tokens go through the blocks row by
\* row, and inside a block the patches do.
LEMMA PlaceIs ==
  ASSUME NEW s2 \in Nat, s2 >= 1, NEW p \in Nat
  PROVE  merge_order(p, s2) =
           [row |-> 2 * ((p \div 4) \div s2) + ((p % 4) \div 2),
            col |-> 2 * ((p \div 4) % s2) + ((p % 4) % 2)]
PROOF
  <1>2. PICK k \in Nat, j \in 0..3 : k = p \div 4 /\ j = p % 4 /\ p = 4 * k + j
    OBVIOUS
  <1>1. PICK d \in Nat, r \in Nat : d = k \div s2 /\ r = k % s2 /\ k = s2 * d + r /\ r < s2
    BY DivIs
  <1>3. p \div 4 = k
    BY <1>2
  <1>4. PICK z \in Nat : z = 4 * s2
    OBVIOUS
  <1>5. p \div z = d
    <2>1. PICK y \in Nat : y = 4 * r + j
      <3>1. 4 * r + j \in Nat
        OBVIOUS
      <3>. QED
        BY <3>1
    <2>2. p = z * d + y
      <3>1. PICK m \in Nat : m = s2 * d
        OBVIOUS
      <3>2. z * d = 4 * m
        BY <1>4, <3>1
      <3>. QED
        BY <1>1, <1>2, <2>1, <3>1, <3>2
    <2>3. y < z
      BY <1>1, <1>4, <2>1
    <2>. QED
      BY <1>4, <2>2, <2>3, DivOne
  <1>6. (p \div 2) % 2 = j \div 2 /\ p % 2 = j % 2
    <2>1. (p \div 2) = 2 * k + (j \div 2)
      BY <1>2
    <2>2. j \div 2 \in {0, 1}
      OBVIOUS
    <2>. QED
      BY <1>2, <2>1, <2>2
  <1>7. p \div (2 * 2 * s2) = d
    <2>1. 2 * 2 * s2 = z
      BY <1>4
    <2>. QED
      BY <1>5, <2>1
  <1>8. (p \div (2 * 2)) % s2 = r
    BY <1>1, <1>3
  <1>9. PICK a \in {0, 1}, b \in {0, 1} : a = j \div 2 /\ b = j % 2
    <2>1. j \div 2 \in {0, 1} /\ j % 2 \in {0, 1}
      OBVIOUS
    <2>. QED
      BY <2>1
  <1>10. merge_order(p, s2) = [row |-> d * 2 + a, col |-> r * 2 + b]
    BY <1>6, <1>7, <1>8, <1>9, Zenon DEF merge_order, MERGE
  <1>11. d * 2 + a = 2 * d + a /\ r * 2 + b = 2 * r + b
    OBVIOUS
  <1>. QED
    BY <1>1, <1>2, <1>9, <1>10, <1>11

\* Where the model is told that every patch of whole blocks is.
AllTold(i, s2) ==
  \A k \in Nat, j \in 0..3 :
    ToldAt(4 * k + j, i[1], i[2]) =
      <<2 * (k \div s2) + (j \div 2), 2 * (k % s2) + (j % 2)>>

\* In an image of whole blocks it is told just that.
LEMMA ToldIs ==
  ASSUME NEW s1 \in Nat, NEW s2 \in Nat, NEW i, Blocks(i, s1, s2)
  PROVE  /\ \A p \in Nat : vision_pos_ids(p, i[1], i[2]) = merge_order(p, s2)
         /\ AllTold(i, s2)
PROOF
  <1>1. s2 >= 1 /\ Grid(i[1], i[2]).cols = 2 * s2
    BY DEF Blocks
  <1>2. (2 * s2) \div 2 = s2
    OBVIOUS
  <1>3. ASSUME NEW p \in Nat PROVE vision_pos_ids(p, i[1], i[2]) = merge_order(p, s2)
    BY <1>1, <1>2 DEF vision_pos_ids, MERGE
  <1>4. ASSUME NEW k \in Nat, NEW j \in 0..3
        PROVE  ToldAt(4 * k + j, i[1], i[2]) =
                 <<2 * (k \div s2) + (j \div 2), 2 * (k % s2) + (j % 2)>>
    <2>1. PICK p \in Nat : p = 4 * k + j
      <3>1. 4 * k + j \in Nat
        OBVIOUS
      <3>. QED
        BY <3>1
    <2>2. p \div 4 = k /\ p % 4 = j
      BY <2>1
    <2>3. merge_order(p, s2) =
            [row |-> 2 * (k \div s2) + (j \div 2), col |-> 2 * (k % s2) + (j % 2)]
      BY <1>1, <2>2, PlaceIs
    <2>. QED
      BY <1>3, <2>1, <2>3 DEF ToldAt
  <1>. QED
    BY <1>3, <1>4 DEF AllTold

\* A patch is the j-th of a token, whose block is in the image.
LEMMA PatchSplits ==
  ASSUME NEW s1 \in Nat, NEW s2 \in Nat, s2 >= 1, NEW p \in 0..(4 * (s1 * s2) - 1)
  PROVE  \E k \in Nat, j \in 0..3 :
           /\ p = 4 * k + j /\ k < s1 * s2
           /\ k \div s2 \in 0..(s1 - 1) /\ k % s2 \in 0..(s2 - 1)
PROOF
  <1>1. PICK n \in Nat : n = s1 * s2
    OBVIOUS
  <1>2. PICK k \in Nat, j \in Nat : k = p \div 4 /\ j = p % 4 /\ p = 4 * k + j /\ j < 4
    <2>1. p \in Nat
      BY <1>1
    <2>. QED
      BY <2>1, DivIs
  <1>3. k < n
    BY <1>1, <1>2
  <1>4. PICK d \in Nat, r \in Nat : d = k \div s2 /\ r = k % s2 /\ k = s2 * d + r /\ r < s2
    BY DivIs
  <1>5. d <= s1 - 1
    <2>1. ASSUME s1 <= d PROVE FALSE
      <3>1. s2 * s1 <= s2 * d
        BY <2>1, ProductGrows
      <3>2. n = s2 * s1
        BY <1>1
      <3>. QED
        BY <1>3, <1>4, <3>1, <3>2
    <2>. QED
      BY <2>1
  <1>6. j \in 0..3 /\ d \in 0..(s1 - 1) /\ r \in 0..(s2 - 1)
    BY <1>2, <1>4, <1>5
  <1>. QED
    BY <1>1, <1>2, <1>3, <1>4, <1>6

\* Every place of the grid is a patch's.
LEMMA PlacesCovered ==
  ASSUME NEW s1 \in Nat, NEW s2 \in Nat, NEW i, Blocks(i, s1, s2)
  PROVE  {ToldAt(p, i[1], i[2]) : p \in Patches(i[1], i[2])} =
           (0..(2 * s1 - 1)) \X (0..(2 * s2 - 1))
PROOF
  <1>0. AllTold(i, s2)
    BY ToldIs
  <1>1. s1 >= 1 /\ s2 >= 1 /\ Patches(i[1], i[2]) = 0..(4 * (s1 * s2) - 1)
    BY DEF Blocks
  <1>2. PICK n \in Nat : n = s1 * s2
    OBVIOUS
  <1>3. ASSUME NEW p \in 0..(4 * (s1 * s2) - 1)
        PROVE  ToldAt(p, i[1], i[2]) \in (0..(2 * s1 - 1)) \X (0..(2 * s2 - 1))
    <2>1. PICK k \in Nat, j \in 0..3 :
            p = 4 * k + j /\ k \div s2 \in 0..(s1 - 1) /\ k % s2 \in 0..(s2 - 1)
      BY <1>1, PatchSplits
    <2>2. PICK d \in 0..(s1 - 1), r \in 0..(s2 - 1) : d = k \div s2 /\ r = k % s2
      BY <2>1
    <2>3. ToldAt(p, i[1], i[2]) = <<2 * d + (j \div 2), 2 * r + (j % 2)>>
      <3>1. ToldAt(4 * k + j, i[1], i[2]) =
              <<2 * (k \div s2) + (j \div 2), 2 * (k % s2) + (j % 2)>>
        BY <1>0, <2>1, Zenon DEF AllTold
      <3>. QED
        BY <2>1, <2>2, <3>1
    <2>4. j \div 2 \in {0, 1} /\ j % 2 \in {0, 1}
      OBVIOUS
    <2>5. 2 * d + (j \div 2) \in 0..(2 * s1 - 1) /\ 2 * r + (j % 2) \in 0..(2 * s2 - 1)
      BY <2>2, <2>4
    <2>. QED
      BY <2>3, <2>5
  <1>4. ASSUME NEW y \in 0..(2 * s1 - 1), NEW x \in 0..(2 * s2 - 1)
        PROVE  \E p \in 0..(4 * (s1 * s2) - 1) : ToldAt(p, i[1], i[2]) = <<y, x>>
    <2>1. PICK d \in Nat, r \in Nat, a \in {0, 1}, b \in {0, 1} :
            y = 2 * d + a /\ x = 2 * r + b /\ d + 1 <= s1 /\ r < s2
      <3>1. y \in Nat /\ x \in Nat
        BY <1>1
      <3>2. PICK d \in Nat, a \in Nat : y = 2 * d + a /\ a < 2
        <4>1. y \div 2 \in Nat /\ y % 2 \in Nat /\ y = 2 * (y \div 2) + (y % 2) /\ y % 2 < 2
          BY <3>1
        <4>. QED
          BY <4>1
      <3>3. PICK r \in Nat, b \in Nat : x = 2 * r + b /\ b < 2
        <4>1. x \div 2 \in Nat /\ x % 2 \in Nat /\ x = 2 * (x \div 2) + (x % 2) /\ x % 2 < 2
          BY <3>1
        <4>. QED
          BY <4>1
      <3>. QED
        BY <1>1, <3>2, <3>3
    <2>2. PICK k \in Nat : k = s2 * d + r
      OBVIOUS
    <2>3. k \div s2 = d /\ k % s2 = r
      BY <1>1, <2>1, <2>2, DivOne
    <2>4. k < n
      <3>1. s2 * (d + 1) <= s2 * s1
        BY <2>1, ProductGrows
      <3>2. s2 * (d + 1) = s2 * d + s2
        OBVIOUS
      <3>3. n = s2 * s1
        BY <1>2
      <3>4. PICK m \in Nat : m = s2 * d
        OBVIOUS
      <3>. QED
        BY <2>1, <2>2, <3>1, <3>2, <3>3, <3>4
    <2>5. PICK j \in 0..3 : j = 2 * a + b
      OBVIOUS
    <2>6. j \div 2 = a /\ j % 2 = b
      BY <2>5
    <2>7. PICK p \in Nat : p = 4 * k + j
      <3>1. 4 * k + j \in Nat
        OBVIOUS
      <3>. QED
        BY <3>1
    <2>8. ToldAt(p, i[1], i[2]) = <<2 * d + a, 2 * r + b>>
      <3>1. ToldAt(4 * k + j, i[1], i[2]) =
              <<2 * (k \div s2) + (j \div 2), 2 * (k % s2) + (j % 2)>>
        BY <1>0, Zenon DEF AllTold
      <3>. QED
        BY <2>3, <2>6, <2>7, <3>1
    <2>9. p \in 0..(4 * (s1 * s2) - 1)
      BY <1>2, <2>4, <2>5, <2>7
    <2>. QED
      BY <2>1, <2>8, <2>9
  <1>5. PICK P, C : P = Patches(i[1], i[2]) /\ C = (0..(2 * s1 - 1)) \X (0..(2 * s2 - 1))
    OBVIOUS
  <1>6. \A p \in P : ToldAt(p, i[1], i[2]) \in C
    BY <1>1, <1>3, <1>5
  <1>7. \A c \in C : \E p \in P : ToldAt(p, i[1], i[2]) = c
    <2>1. SUFFICES ASSUME NEW y \in 0..(2 * s1 - 1), NEW x \in 0..(2 * s2 - 1)
          PROVE  \E p \in P : ToldAt(p, i[1], i[2]) = <<y, x>>
      BY <1>5
    <2>2. PICK p \in 0..(4 * (s1 * s2) - 1) : ToldAt(p, i[1], i[2]) = <<y, x>>
      BY <1>4
    <2>. QED
      BY <1>1, <1>5, <2>2
  <1>8. {ToldAt(p, i[1], i[2]) : p \in P} = C
    BY <1>6, <1>7
  <1>. QED
    BY <1>5, <1>8

\* The patches of a token are those of a block.
LEMMA QuadIs ==
  ASSUME NEW s1 \in Nat, NEW s2 \in Nat, NEW i, Blocks(i, s1, s2), NEW k \in Nat
  PROVE  /\ Corner(ToldAt(4 * k, i[1], i[2]))
         /\ QuadOf(k, i[1], i[2]) = BlockFrom(ToldAt(4 * k, i[1], i[2]))
PROOF
  <1>0. AllTold(i, s2)
    BY ToldIs
  <1>1. s2 >= 1
    BY DEF Blocks
  <1>2. PICK d \in Nat, r \in Nat : d = k \div s2 /\ r = k % s2
    BY <1>1, DivIs
  <1>3. ASSUME NEW j \in 0..3
        PROVE  ToldAt(4 * k + j, i[1], i[2]) = <<2 * d + (j \div 2), 2 * r + (j % 2)>>
    <2>1. ToldAt(4 * k + j, i[1], i[2]) =
            <<2 * (k \div s2) + (j \div 2), 2 * (k % s2) + (j % 2)>>
      BY <1>0, Zenon DEF AllTold
    <2>. QED
      BY <1>2, <2>1
  <1>4. /\ ToldAt(4 * k + 0, i[1], i[2]) = <<2 * d, 2 * r>>
        /\ ToldAt(4 * k + 1, i[1], i[2]) = <<2 * d, 2 * r + 1>>
        /\ ToldAt(4 * k + 2, i[1], i[2]) = <<2 * d + 1, 2 * r>>
        /\ ToldAt(4 * k + 3, i[1], i[2]) = <<2 * d + 1, 2 * r + 1>>
    <2>1. 0 \in 0..3 /\ 1 \in 0..3 /\ 2 \in 0..3 /\ 3 \in 0..3
      OBVIOUS
    <2>2. 0 \div 2 = 0 /\ 0 % 2 = 0 /\ 1 \div 2 = 0 /\ 1 % 2 = 1
      OBVIOUS
    <2>3. 2 \div 2 = 1 /\ 2 % 2 = 0 /\ 3 \div 2 = 1 /\ 3 % 2 = 1
      OBVIOUS
    <2>4. 2 * d + 0 = 2 * d /\ 2 * r + 0 = 2 * r
      OBVIOUS
    <2>. QED
      BY <1>3, <2>1, <2>2, <2>3, <2>4
  <1>5. 4 * k + 0 = 4 * k
    OBVIOUS
  <1>6. PICK y \in Nat, x \in Nat : y = 2 * d /\ x = 2 * r
    <2>1. 2 * d \in Nat /\ 2 * r \in Nat
      OBVIOUS
    <2>. QED
      BY <2>1
  <1>7. QuadOf(k, i[1], i[2]) = {<<y, x>>, <<y, x + 1>>, <<y + 1, x>>, <<y + 1, x + 1>>}
    <2>1. 0..3 = {0, 1, 2, 3}
      OBVIOUS
    <2>2. QuadOf(k, i[1], i[2]) =
            {ToldAt(4 * k + 0, i[1], i[2]), ToldAt(4 * k + 1, i[1], i[2]),
             ToldAt(4 * k + 2, i[1], i[2]), ToldAt(4 * k + 3, i[1], i[2])}
      BY <2>1, Zenon DEF QuadOf
    <2>. QED
      BY <1>4, <1>6, <2>2
  <1>8. ToldAt(4 * k, i[1], i[2]) = <<y, x>>
    BY <1>4, <1>5, <1>6
  <1>9. BlockFrom(<<y, x>>) = {<<y, x>>, <<y, x + 1>>, <<y + 1, x>>, <<y + 1, x + 1>>}
    <2>1. BlockFrom(<<y, x>>) = {y, y + 1} \X {x, x + 1}
      BY DEF BlockFrom
    <2>. QED
      BY <2>1
  <1>10. Corner(<<y, x>>)
    <2>1. y % 2 = 0 /\ x % 2 = 0
      BY <1>6
    <2>. QED
      BY <2>1 DEF Corner, MERGE
  <1>. QED
    BY <1>7, <1>8, <1>9, <1>10

\* A pixel of the buffer is one of the patch at that row and column.
PixelIn(pixel, h, w, row, col) ==
  pixel < h * w /\ (pixel \div w) \div 16 = row /\ (pixel % w) \div 16 = col

\* The pixels of a patch are in the buffer, in the square it is told to be at.
LEMMA PixelIs ==
  ASSUME NEW s1 \in Nat, NEW s2 \in Nat, NEW h, NEW w, h = 32 * s1, w = 32 * s2, s2 >= 1,
         NEW row \in 0..(2 * s1 - 1), NEW col \in 0..(2 * s2 - 1),
         NEW i \in Nat, merge_order(i, s2) = [row |-> row, col |-> col],
         NEW y \in 0..15, NEW x \in 0..15
  PROVE  PixelIn(PixelAt(i, y, x, w) \div 3, h, w, row, col)
PROOF
  <1>1. PICK v \in Nat : v = w /\ v >= 1
    OBVIOUS
  <1>2. (v \div 16) \div 2 = s2
    <2>1. v \div 16 = 2 * s2
      BY <1>1
    <2>2. (2 * s2) \div 2 = s2
      OBVIOUS
    <2>. QED
      BY <2>1, <2>2
  <1>3. PICK a \in Nat : a = row * 16 + y
    <2>1. row * 16 + y \in Nat
      OBVIOUS
    <2>. QED
      BY <2>1
  <1>4. PICK b \in Nat : b = col * 16 + x
    <2>1. col * 16 + x \in Nat
      OBVIOUS
    <2>. QED
      BY <2>1
  <1>5. PICK m \in Nat : m = a * v
    BY <1>1
  <1>6. PixelAt(i, y, x, w) = (m + b) * 3
    <2>1. PixelAt(i, y, x, w) = ByteOf([row |-> row, col |-> col], y, x, v)
      BY <1>1, <1>2 DEF PixelAt, PATCH, MERGE
    <2>2. ByteOf([row |-> row, col |-> col], y, x, v) = ((row * 16 + y) * v + col * 16 + x) * 3
      BY DEF ByteOf, PATCH
    <2>3. (row * 16 + y) * v = m
      BY <1>3, <1>5
    <2>4. m + col * 16 + x = m + b
      BY <1>4
    <2>. QED
      BY <2>1, <2>2, <2>3, <2>4
  <1>7. PICK t \in Nat : t = m + b
    OBVIOUS
  <1>8. PixelAt(i, y, x, w) \div 3 = t
    <2>1. (t * 3) \div 3 = t
      OBVIOUS
    <2>. QED
      BY <1>6, <1>7, <2>1
  <1>9. b < v
    BY <1>1, <1>4
  <1>10. t \div v = a /\ t % v = b
    <2>1. t = v * a + b
      <3>1. v * a = a * v
        OBVIOUS
      <3>. QED
        BY <1>5, <1>7, <3>1
    <2>. QED
      BY <1>1, <1>9, <2>1, DivOne
  <1>11. a \div 16 = row /\ b \div 16 = col
    BY <1>3, <1>4
  <1>12. t < h * w
    <2>1. a + 1 <= 32 * s1
      BY <1>3
    <2>2. (a + 1) * v <= (32 * s1) * v
      <3>1. a + 1 \in Nat /\ 32 * s1 \in Nat
        OBVIOUS
      <3>. QED
        BY <2>1, <3>1, ProductGrows
    <2>3. (a + 1) * v = m + v
      BY <1>5
    <2>4. PICK z \in Nat : z = (32 * s1) * v
      OBVIOUS
    <2>5. z = h * w
      BY <1>1, <2>4
    <2>. QED
      BY <1>7, <1>9, <2>2, <2>3, <2>4, <2>5
  <1>. QED
    BY <1>1, <1>8, <1>10, <1>11, <1>12 DEF PixelIn

\* One axis of patches is read off the table inside its bounds, corner to
\* corner, and where there is no entry above it nothing is taken of one.
LEMMA TapIs ==
  ASSUME NEW s \in Nat, s >= 1, NEW ix \in 0..(2 * s - 1)
  PROVE  LET t == axis_taps(ix, 2 * s)
         IN /\ t.lo \in 0..47 /\ t.lo = t.at /\ (t.hi # t.at + 1 => t.weight = 0)
            /\ ix = 0 => t.lo = 0
            /\ ix = 2 * s - 1 => t.lo = 47
PROOF
  <1>1. PICK denom \in Nat : denom = 2 * s - 1 /\ denom >= 1
    <2>1. 2 * s - 1 \in Nat /\ 2 * s - 1 >= 1
      OBVIOUS
    <2>. QED
      BY <2>1
  <1>2. Max({2 * s, 2}) - 1 = denom
    <2>1. Max({2 * s, 2}) = 2 * s
      BY OfTwo
    <2>. QED
      BY <1>1, <2>1
  <1>3. ix \in Nat /\ ix <= denom
    BY <1>1
  <1>4. PICK n \in Nat : n = ix * 47
    BY <1>3
  <1>5. PICK f \in Nat, r \in Nat :
          f = n \div denom /\ r = n % denom /\ n = denom * f + r /\ r < denom
    BY <1>1, DivIs
  <1>6. f <= 47
    <2>1. ASSUME 48 <= f PROVE FALSE
      <3>1. denom * 48 <= denom * f
        BY <2>1, ProductGrows
      <3>. QED
        BY <1>1, <1>3, <1>4, <1>5, <3>1
    <2>. QED
      BY <2>1
  <1>7. PICK t : t = axis_taps(ix, 2 * s)
    OBVIOUS
  <1>8. t = [lo |-> Clamp(f), hi |-> Clamp(f + 1), at |-> f, weight |-> r]
    BY <1>2, <1>4, <1>5, <1>7 DEF axis_taps, VISION_POS_SIDE
  <1>9. \A x \in Nat : Clamp(x) = IF x <= 47 THEN x ELSE 47
    <2>1. SUFFICES ASSUME NEW x \in Nat PROVE Clamp(x) = IF x <= 47 THEN x ELSE 47
      OBVIOUS
    <2>2. Max({0, x}) = x
      <3>1. Max({0, x}) = IF 0 >= x THEN 0 ELSE x
        BY OfTwo
      <3>. QED
        BY <3>1
    <2>3. Min({47, x}) = IF 47 <= x THEN 47 ELSE x
      <3>1. /\ Max({47, x}) = IF 47 >= x THEN 47 ELSE x
            /\ Min({47, x}) = IF 47 <= x THEN 47 ELSE x
        BY OfTwo
      <3>. QED
        BY <3>1
    <2>. QED
      BY <2>2, <2>3 DEF Clamp, VISION_POS_SIDE
  <1>10. t.lo = f /\ t.at = f /\ t.weight = r /\ t.hi = IF f + 1 <= 47 THEN f + 1 ELSE 47
    BY <1>6, <1>8, <1>9
  <1>11. f = 47 => r = 0
    <2>1. CASE f = 47
      <3>1. n = denom * 47 + r
        BY <1>5, <2>1
      <3>2. n <= denom * 47
        BY <1>3, <1>4
      <3>. QED
        BY <3>1, <3>2
    <2>. QED
      BY <2>1
  <1>12. ix = 0 => f = 0
    <2>1. CASE ix = 0
      <3>1. n = 0
        BY <1>4, <2>1
      <3>2. ASSUME 1 <= f PROVE FALSE
        <4>1. denom * 1 <= denom * f
          BY <3>2, ProductGrows
        <4>. QED
          BY <1>1, <1>5, <3>1, <4>1
      <3>. QED
        BY <3>2
    <2>. QED
      BY <2>1
  <1>13. ix = 2 * s - 1 => f = 47
    <2>1. CASE ix = denom
      <3>1. n = denom * 47
        BY <1>4, <2>1
      <3>2. ASSUME f <= 46 PROVE FALSE
        <4>1. denom * f <= denom * 46
          BY <3>2, ProductGrows
        <4>. QED
          BY <1>1, <1>5, <3>1, <4>1
      <3>. QED
        BY <1>6, <3>2
    <2>. QED
      BY <1>1, <2>1
  <1>. QED
    BY <1>6, <1>7, <1>10, <1>11, <1>12, <1>13

\* Patches and places match one to one, the pixels of each come from the square
\* its position names, and each axis reads the table of positions inside its
\* bounds: whatever size of image is embedded.
THEOREM PatchesArePlaced == InputsSpec => []PatchesPlaced
PROOF
  <1>1. VisionInv => PatchesPlaced
    <2>1. SUFFICES ASSUME VisionInv, stage = "embedded"
          PROVE  PatchesPlaced
      BY DEF PatchesPlaced, EachPatchOnce, SeenWhereTold, TapsInTable
    <2>2. PICK s1 \in Nat, s2 \in Nat : Blocks(image, s1, s2)
      BY <2>1, OwnBlocks DEF VisionInv
    <2>. DEFINE h == image[1]
                w == image[2]
    <2>3. h = image[1] /\ w = image[2]
      OBVIOUS
    <2>. HIDE DEF h, w
    <2>4. /\ s1 >= 1 /\ s2 >= 1 /\ ImageTokens(h, w) = s1 * s2
          /\ Grid(h, w).rows = 2 * s1 /\ Grid(h, w).cols = 2 * s2
          /\ Patches(h, w) = 0..(4 * (s1 * s2) - 1)
          /\ Cardinality(Patches(h, w)) = 4 * (s1 * s2)
      BY <2>2, <2>3 DEF Blocks
    <2>5. EachPatchOnce
      <3>1. {ToldAt(p, h, w) : p \in Patches(h, w)} = (0..(2 * s1 - 1)) \X (0..(2 * s2 - 1))
        BY <2>2, <2>3, PlacesCovered
      <3>2. Cardinality((0..(2 * s1 - 1)) \X (0..(2 * s2 - 1))) = 4 * (s1 * s2)
        <4>1. /\ IsFiniteSet(0..(2 * s1 - 1)) /\ Cardinality(0..(2 * s1 - 1)) = 2 * s1
              /\ IsFiniteSet(0..(2 * s2 - 1)) /\ Cardinality(0..(2 * s2 - 1)) = 2 * s2
          <5>1. ASSUME NEW s \in Nat, s >= 1
                PROVE  IsFiniteSet(0..(2 * s - 1)) /\ Cardinality(0..(2 * s - 1)) = 2 * s
            <6>1. PICK m \in Int : m = 2 * s - 1 /\ m >= 0
              BY <5>1
            <6>2. IsFiniteSet(0..m) /\ Cardinality(0..m) = IF 0 > m THEN 0 ELSE m - 0 + 1
              BY FS_Interval
            <6>. QED
              BY <6>1, <6>2
          <5>. QED
            BY <2>4, <5>1
        <4>2. Cardinality((0..(2 * s1 - 1)) \X (0..(2 * s2 - 1))) = (2 * s1) * (2 * s2)
          <5>1. PICK A, B : A = 0..(2 * s1 - 1) /\ B = 0..(2 * s2 - 1)
            OBVIOUS
          <5>2. Cardinality(A \X B) = Cardinality(A) * Cardinality(B)
            BY <4>1, <5>1, FS_Product
          <5>. QED
            BY <4>1, <5>1, <5>2
        <4>3. (2 * s1) * (2 * s2) = 4 * (s1 * s2)
          OBVIOUS
        <4>. QED
          BY <4>2, <4>3
      <3>3. ASSUME NEW k \in 0..(ImageTokens(h, w) - 1)
            PROVE  /\ Corner(ToldAt(4 * k, h, w))
                   /\ QuadOf(k, h, w) = BlockFrom(ToldAt(4 * k, h, w))
        <4>1. k \in Nat
          BY <2>4
        <4>. QED
          BY <2>2, <2>3, <4>1, QuadIs
      <3>4. {ToldAt(p, h, w) : p \in Patches(h, w)} =
              (0..(Grid(h, w).rows - 1)) \X (0..(Grid(h, w).cols - 1))
        BY <2>4, <3>1
      <3>5. Cardinality({ToldAt(p, h, w) : p \in Patches(h, w)}) = Cardinality(Patches(h, w))
        BY <2>4, <3>1, <3>2
      <3>. QED
        BY <3>3, <3>4, <3>5, Zenon DEF EachPatchOnce, h, w
    <2>6. SeenWhereTold
      <3>1. h = 32 * s1 /\ w = 32 * s2
        BY <2>2, <2>3 DEF Blocks
      <3>2. ASSUME NEW i \in Patches(h, w)
            PROVE  LET p == vision_pos_ids(i, h, w)
                       hs == axis_taps(p.row, Grid(h, w).rows)
                       ws == axis_taps(p.col, Grid(h, w).cols)
                   IN /\ \A y \in {0, PATCH - 1}, x \in {0, PATCH - 1} :
                           LET pixel == PixelAt(i, y, x, w) \div 3
                           IN /\ pixel < h * w
                              /\ (pixel \div w) \div PATCH = p.row
                              /\ (pixel % w) \div PATCH = p.col
                      /\ interp_taps(i, h, w)[1] = hs.lo * VISION_POS_SIDE + ws.lo
                      /\ interp_taps(i, h, w)[4] = hs.hi * VISION_POS_SIDE + ws.hi
        <4>1. PICK k \in Nat, j \in 0..3 :
                i = 4 * k + j /\ k \div s2 \in 0..(s1 - 1) /\ k % s2 \in 0..(s2 - 1)
          BY <2>4, PatchSplits
        <4>2. /\ vision_pos_ids(i, h, w) = merge_order(i, s2)
              /\ merge_order(i, s2) =
                   [row |-> 2 * (k \div s2) + (j \div 2), col |-> 2 * (k % s2) + (j % 2)]
          <5>1. i \in Nat
            BY <4>1
          <5>2. vision_pos_ids(i, h, w) = merge_order(i, s2)
            BY <2>2, <2>3, <5>1, ToldIs
          <5>3. i \div 4 = k /\ i % 4 = j
            BY <4>1
          <5>. QED
            BY <2>4, <5>1, <5>2, <5>3, PlaceIs
        <4>3. PICK row \in 0..(2 * s1 - 1), col \in 0..(2 * s2 - 1) :
                merge_order(i, s2) = [row |-> row, col |-> col]
          <5>1. j \div 2 \in {0, 1} /\ j % 2 \in {0, 1}
            OBVIOUS
          <5>2. PICK d \in 0..(s1 - 1), r \in 0..(s2 - 1) : d = k \div s2 /\ r = k % s2
            BY <4>1
          <5>3. 2 * d + (j \div 2) \in 0..(2 * s1 - 1) /\ 2 * r + (j % 2) \in 0..(2 * s2 - 1)
            BY <5>1, <5>2
          <5>. QED
            BY <4>2, <5>2, <5>3
        <4>4. i \in Nat
          BY <4>1
        <4>5. ASSUME NEW y \in {0, PATCH - 1}, NEW x \in {0, PATCH - 1}
              PROVE  LET pixel == PixelAt(i, y, x, w) \div 3
                     IN /\ pixel < h * w
                        /\ (pixel \div w) \div PATCH = row
                        /\ (pixel % w) \div PATCH = col
          <5>1. y \in 0..15 /\ x \in 0..15
            BY DEF PATCH
          <5>2. /\ PixelAt(i, y, x, w) \div 3 < h * w
                /\ ((PixelAt(i, y, x, w) \div 3) \div w) \div 16 = row
                /\ ((PixelAt(i, y, x, w) \div 3) % w) \div 16 = col
            <6>1. PixelIn(PixelAt(i, y, x, w) \div 3, h, w, row, col)
              BY <2>4, <3>1, <4>3, <4>4, <5>1, PixelIs
            <6>. QED
              BY <6>1, Zenon DEF PixelIn
          <5>. QED
            BY <5>2 DEF PATCH
        <4>6. (2 * s2) \div 2 = s2
          OBVIOUS
        <4>7. /\ interp_taps(i, h, w)[1] =
                   axis_taps(row, 2 * s1).lo * VISION_POS_SIDE + axis_taps(col, 2 * s2).lo
              /\ interp_taps(i, h, w)[4] =
                   axis_taps(row, 2 * s1).hi * VISION_POS_SIDE + axis_taps(col, 2 * s2).hi
          <5>1. PICK hs, ws : hs = axis_taps(row, 2 * s1) /\ ws = axis_taps(col, 2 * s2)
            OBVIOUS
          <5>2. merge_order(i, Grid(h, w).cols \div MERGE) = [row |-> row, col |-> col]
            BY <2>4, <4>3, <4>6 DEF MERGE
          <5>3. PICK p : p = merge_order(i, Grid(h, w).cols \div MERGE)
            OBVIOUS
          <5>4. /\ axis_taps(p.row, Grid(h, w).rows) = hs
                /\ axis_taps(p.col, Grid(h, w).cols) = ws
            BY <2>4, <5>1, <5>2, <5>3
          <5>5. interp_taps(i, h, w) =
                  <<hs.lo * VISION_POS_SIDE + ws.lo, hs.lo * VISION_POS_SIDE + ws.hi,
                    hs.hi * VISION_POS_SIDE + ws.lo, hs.hi * VISION_POS_SIDE + ws.hi>>
            BY <5>3, <5>4 DEF interp_taps
          <5>. QED
            BY <5>1, <5>5
        <4>. QED
          BY <2>4, <4>2, <4>3, <4>5, <4>7
      <3>. QED
        BY <3>2, Zenon DEF SeenWhereTold, h, w
    <2>7. TapsInTable
      <3>1. ASSUME NEW s \in Nat, s >= 1
            PROVE  LET Axis == {axis_taps(ix, 2 * s) : ix \in 0..(2 * s - 1)}
                   IN /\ {t.lo : t \in Axis} \subseteq 0..47
                      /\ {0, 47} \subseteq {t.lo : t \in Axis}
                      /\ \A t \in Axis : t.lo = t.at /\ (t.hi # t.at + 1 => t.weight = 0)
        <4>1. 0 \in 0..(2 * s - 1) /\ 2 * s - 1 \in 0..(2 * s - 1)
          BY <3>1
        <4>2. ASSUME NEW ix \in 0..(2 * s - 1)
              PROVE  /\ axis_taps(ix, 2 * s).lo \in 0..47
                     /\ axis_taps(ix, 2 * s).lo = axis_taps(ix, 2 * s).at
                     /\ axis_taps(ix, 2 * s).hi # axis_taps(ix, 2 * s).at + 1 =>
                          axis_taps(ix, 2 * s).weight = 0
                     /\ ix = 0 => axis_taps(ix, 2 * s).lo = 0
                     /\ ix = 2 * s - 1 => axis_taps(ix, 2 * s).lo = 47
          BY <3>1, TapIs
        <4>. QED
          BY <4>1, <4>2
      <3>2. ASSUME NEW size \in {Grid(h, w).rows, Grid(h, w).cols}
            PROVE  LET Axis(n) == {axis_taps(ix, n) : ix \in 0..(n - 1)}
                   IN /\ {t.lo : t \in Axis(size)} \subseteq 0..(VISION_POS_SIDE - 1)
                      /\ {0, VISION_POS_SIDE - 1} \subseteq {t.lo : t \in Axis(size)}
                      /\ \A t \in Axis(size) :
                           t.lo = t.at /\ (t.hi # t.at + 1 => t.weight = 0)
        <4>1. PICK s \in Nat : s >= 1 /\ size = 2 * s
          BY <2>4
        <4>. QED
          BY <3>1, <4>1 DEF VISION_POS_SIDE
      <3>. QED
        BY <3>2, Zenon DEF TapsInTable, h, w
    <2>. QED
      BY <2>5, <2>6, <2>7 DEF PatchesPlaced
  <1>. QED
    BY <1>1, InputsSees, ImagesHold, PTL

-----------------------------------------------------------------------------
(* The types                                                               *)

\* The deciders keep their types.
LEMMA DecidersTypes ==
  ASSUME DecidersInv
  PROVE  DecidersTypeOK
PROOF
  <1>1. CASE Shut
    BY <1>1, FS_EmptySet, LenProperties DEF Shut, DecidersTypeOK
  <1>2. CASE \E c \in checkpoint, d \in decider : Standing(c, d)
    <2>1. PICK c \in checkpoint, d \in decider : Standing(c, d)
      BY <1>2
    <2>2. Cardinality(decider) = 1 /\ Cardinality(checkpoint) = 1 /\ decider # {}
      <3>1. decider = {d} /\ checkpoint = {c}
        BY <2>1 DEF Standing
      <3>. QED
        BY <3>1, FS_Singleton
    <2>3. /\ Ready(d) /\ Called(d, call) /\ Planned(d, call, plans, rows)
          /\ pc \in {"open", "refused", "build", "failed", "decode", "answered"}
      BY <2>1, StandingIs DEF Standing, Doing
    <2>4. PICK ps \in Seq(Seq(Nat)) : ps = plans /\ Len(ps) <= Len(call)
      BY <2>3 DEF Planned
    <2>5. DOMAIN rows = 1..Len(rows) /\ DOMAIN plans = 1..Len(plans)
      <3>1. PICK S : S = Held
        OBVIOUS
      <3>2. rows \in Seq(S)
        BY <2>3, <3>1 DEF Planned
      <3>. QED
        BY <2>4, <3>2, LenProperties
    <2>6. ASSUME NEW i \in 1..Len(plans)
          PROVE  plans[i] # << >> /\ ToSet(plans[i]) \subseteq DOMAIN rows
      <3>1. PICK plan \in Seq(Nat) : plan = plans[i]
        BY <2>4, ElementOfSeq
      <3>2. i \in 1..Len(call)
        <4>1. Len(ps) \in Nat /\ Len(call) \in Nat
          BY <2>3, LenProperties DEF Called
        <4>. QED
          BY <2>4, <4>1
      <3>3. BuiltOf(d, call, i) # << >> /\ BuiltOf(d, call, i) \in Seq(Row)
        BY <2>3, <3>2, BuiltIs DEF Planned
      <3>4. PICK built \in Seq(Row) : built = BuiltOf(d, call, i) /\ Len(built) # 0
        BY <3>3, EmptySeq
      <3>5. Len(plan) # 0 /\ \A k \in 1..Len(plan) : plan[k] \in 1..Len(rows)
        BY <2>3, <3>1, <3>4 DEF Planned
      <3>6. plan # << >> /\ DOMAIN plan = 1..Len(plan)
        BY <3>5
      <3>. QED
        BY <2>5, <3>1, <3>5, <3>6 DEF ToSet
    <2>7. pc \in {"decode", "answered"} => Len(plans) = Len(call) /\ DOMAIN logits = DOMAIN rows
      BY <2>1 DEF Standing, Doing, Graph
    <2>8. pc = "answered" => DOMAIN answers = DOMAIN call
      BY <2>1 DEF Standing, Doing
    <2>9. 1 <= 1
      OBVIOUS
    <2>. QED
      BY <2>2, <2>3, <2>4, <2>5, <2>6, <2>7, <2>8, <2>9 DEF DecidersTypeOK
  <1>. QED
    BY <1>1, <1>2 DEF DecidersInv

\* The images keep their types: there is a target to resize to.
LEMMA VisionTypes ==
  ASSUME VisionInv
  PROVE  VisionTypeOK
PROOF
  <1>1. CASE asked = {}
    BY <1>1, FS_EmptySet DEF VisionInv, VisionTypeOK
  <1>2. CASE \E t \in Nat \X Nat : asked = {t} /\ Sized(t)
    <2>1. PICK t \in Nat \X Nat : asked = {t}
      BY <1>2
    <2>2. Cardinality(asked) = 1
      BY <2>1, FS_Singleton
    <2>. QED
      BY <2>1, <2>2 DEF VisionInv, VisionTypeOK
  <1>. QED
    BY <1>1, <1>2 DEF VisionInv

\* The process keeps its types: a target to resize to, a plan for each question
\* that was built, an output for each row that was run.
THEOREM InputsKeepTypes == InputsSpec => []TypeOK
PROOF
  <1>1. DecidersInv => DecidersTypeOK
    BY DecidersTypes
  <1>2. VisionInv => VisionTypeOK
    BY VisionTypes
  <1>. QED
    BY <1>1, <1>2, DecidersHold, InputsSees, ImagesHold, PTL DEF TypeOK

=============================================================================
