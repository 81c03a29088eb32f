-------------------------- MODULE PromParserProofs --------------------------
(***************************************************************************)
(* Lemmas about PromParser, for texts of any length: what the local        *)
(* variables of promToMetrics say about the lines read so far, and what    *)
(* becomes of the blocks of texts that are put one after another.          *)
(* ZoneReplyProofs applies them to the texts triton_core parses.           *)
(***************************************************************************)
EXTENDS PromParser, FiniteSetTheorems, WellFoundedInduction, TLAPS

Metric == [key : Names \cup {NoName}, help : Names \cup {NoName}, value : SUBSET Nat]

ParserTypeOK ==
    /\ text \in Seq(Line)
    /\ pos \in 0..Len(text)
    /\ parser \in [status : {"off", "reading", "failed", "done"},
                   optionsChecked : BOOLEAN, parsingValues : BOOLEAN,
                   option : Nat, current : Metric, metrics : Seq(Metric)]

\* The name on the last line of that kind among lines b to m, if there is any.
LastName(t, b, m, kind, name) ==
    \/ /\ name = NoName
       /\ \A i \in b..m : t[i].kind # kind
    \/ \E i \in b..m :
         /\ t[i].kind = kind
         /\ name = t[i].of
         /\ \A j \in b..m : t[j].kind = kind => j <= i

\* Metric c is what lines b to m say.
SaidBy(t, b, m, c) ==
    /\ LastName(t, b, m, "type", c.key)
    /\ LastName(t, b, m, "help", c.help)
    /\ c.value = {i \in b..m : Valued(t, i)}

\* Line b opens the block that line m is in.
LastOpening(t, b, m) ==
    /\ b \in 1..m
    /\ Opens(t, b)
    /\ \A i \in (b + 1)..m : ~Opens(t, i)

\* Blocks that ended before line b, each with its TYPE line.
EndedBlocks(t, b) == {c \in Openings(t) : c < b}

\* The metrics found are those of the blocks before line b.
Ended(t, b, metrics) ==
    /\ Range(metrics) = {MetricOf(t, c) : c \in EndedBlocks(t, b)}
    /\ \A c \in EndedBlocks(t, b) : Has(t, c, "type")

\* The local variables while lines are read.
Reading == [status : {"reading"}, optionsChecked : {TRUE}, parsingValues : BOOLEAN,
            option : Nat, current : Metric, metrics : Seq(Metric)]

\* Line n is next, it is in the block that line b opens, and q is what has been
\* found in the lines before it.
InBlock(t, n, b, q) ==
    /\ LastOpening(t, b, n)
    /\ \/ b < n /\ SaidBy(t, b, n - 1, q.current)
       \/ b = n /\ q.current = NewMetric
    /\ q \in Reading
    /\ q.parsingValues => t[n].kind \notin Metadata
    /\ Ended(t, b, q.metrics)

\* Before the first block nothing has been found; later there is a current one.
Progress ==
    IF Leading(text, pos)
    THEN parser.current = NewMetric /\ parser.metrics = <<>>
    ELSE \E b \in 1..pos :
           /\ LastOpening(text, b, pos)
           /\ SaidBy(text, b, pos, parser.current)
           /\ Ended(text, b, parser.metrics)

\* What the loop knows between two lines.
ReadSoFar ==
    /\ parser.optionsChecked <=> ~Leading(text, pos)
    /\ parser.parsingValues <=> Valued(text, pos)
    /\ \A i \in 1..pos : ~Refused(text, i)
    /\ Progress

ParserInv ==
    /\ ParserTypeOK
    /\ parser.status = "reading" => ReadSoFar
    /\ ParsesByBlocks

-----------------------------------------------------------------------------
(* Lines and blocks                                                        *)

\* A line is of a kind and about a name; a help text may be empty.
LEMMA LineType ==
  ASSUME NEW t \in Seq(Line), NEW i \in 1..Len(t)
  PROVE  /\ t[i].of \in Names \cup {NoName}
         /\ t[i].kind # "help" => t[i].of \in Names
         /\ t[i].kind \in {"help", "type", "badtype", "option", "badoption",
                           "comment", "sample"}
<1>1. t[i] \in Line
  OBVIOUS
<1> QED
  BY <1>1 DEF Line

\* What comes after something else than an option does too.
LEMMA LeadingNext ==
  ASSUME NEW t, NEW n \in Nat
  PROVE  Leading(t, n + 1) <=> Leading(t, n) /\ t[n + 1].kind = "option"
BY DEF Leading

\* The lines of a block that is over are those from its opening to there.
LEMMA BlockIs ==
  ASSUME NEW t \in Seq(Line), NEW m \in 1..Len(t), NEW b, LastOpening(t, b, m),
         m = Len(t) \/ Opens(t, m + 1)
  PROVE  Block(t, b) = b..m
<1>1. b \in 1..m /\ Opens(t, b) /\ \A i \in (b + 1)..m : ~Opens(t, i)
  BY DEF LastOpening
<1>2. ASSUME NEW i \in b..m PROVE i \in Block(t, b)
  BY <1>1, <1>2 DEF Block
<1>3. ASSUME NEW i \in Block(t, b) PROVE i \in b..m
  <2>1. i \in b..Len(t) /\ \A j \in (b + 1)..i : ~Opens(t, j)
    BY <1>3 DEF Block
  <2>2. CASE m = Len(t)
    BY <2>1, <2>2
  <2>3. CASE Opens(t, m + 1)
    <3>1. m + 1 \notin (b + 1)..i
      BY <2>1, <2>3
    <3> QED
      BY <2>1, <3>1, <1>1
  <2> QED
    BY <2>2, <2>3
<1> QED
  BY <1>2, <1>3

\* LastOf is about the last of a block's lines of the kind, and what LastName
\* says of a block with such a line.
LEMMA LastLine ==
  ASSUME NEW t, NEW b \in Nat, NEW kind, NEW i \in Block(t, b), t[i].kind = kind,
         \A j \in Block(t, b) : t[j].kind = kind => j <= i
  PROVE  LastOf(t, b, kind) = t[i].of
<1> DEFINE lines == {j \in Block(t, b) : t[j].kind = kind}
<1> DEFINE last  == CHOOSE j \in lines : \A k \in lines : k <= j
<1>1. i \in lines /\ \A j \in lines : j <= i
  OBVIOUS
<1>2. last \in lines /\ \A j \in lines : j <= last
  BY <1>1
<1>3. lines \subseteq Int
  BY DEF Block
<1>4. last = i
  <2> HIDE DEF last, lines
  <2> QED
    BY <1>1, <1>2, <1>3
<1> QED
  BY <1>4 DEF LastOf

LEMMA LastOfIs ==
  ASSUME NEW t \in Seq(Line), NEW b \in Nat, NEW m \in Nat, NEW kind, NEW name,
         Block(t, b) = b..m, LastName(t, b, m, kind, name), Has(t, b, kind)
  PROVE  LastOf(t, b, kind) = name
<1>1. PICK i \in b..m : t[i].kind = kind /\ name = t[i].of
                          /\ \A j \in b..m : t[j].kind = kind => j <= i
  BY DEF LastName, Has
<1> QED
  BY <1>1, LastLine

\* The help text of a block is what LastName says of its HELP lines.
LEMMA HelpOfIs ==
  ASSUME NEW t \in Seq(Line), NEW b \in Nat, NEW m \in Nat, NEW name,
         Block(t, b) = b..m, LastName(t, b, m, "help", name)
  PROVE  HelpOf(t, b) = name
<1>1. CASE Has(t, b, "help")
  BY <1>1, LastOfIs DEF HelpOf
<1>2. CASE ~Has(t, b, "help")
  BY <1>2 DEF HelpOf, Has, LastName
<1> QED
  BY <1>1, <1>2

\* A typed metric that the lines of a whole block have made is that block's.
LEMMA MetricIs ==
  ASSUME NameAssumption, NEW t \in Seq(Line), NEW m \in 1..Len(t), NEW b,
         LastOpening(t, b, m), m = Len(t) \/ Opens(t, m + 1),
         NEW c \in Metric, SaidBy(t, b, m, c), Typed(c)
  PROVE  Helped(c) = MetricOf(t, b) /\ Has(t, b, "type")
<1>1. Block(t, b) = b..m
  BY BlockIs
<1>2. b \in 1..m
  BY DEF LastOpening
<1>3. Has(t, b, "type")
  BY <1>1 DEF Has, Typed, SaidBy, LastName
<1>4. c.key # NoName /\ c.key = LastOf(t, b, "type")
  BY <1>1, <1>2, <1>3, LastOfIs DEF Typed, SaidBy
<1>5. c.help = HelpOf(t, b)
  BY <1>1, <1>2, HelpOfIs DEF SaidBy
<1>6. c.value = {i \in Block(t, b) : Valued(t, i)}
  BY <1>1 DEF SaidBy
<1>7. Helped(c) = [key   |-> c.key,
                   help  |-> IF c.help = NoName THEN c.key ELSE c.help,
                   value |-> c.value]
  BY DEF Helped, Metric
<1> QED
  BY <1>3, <1>4, <1>5, <1>6, <1>7 DEF MetricOf

\* What an untyped metric says of its block: there is no TYPE line in it.
LEMMA UntypedBlock ==
  ASSUME NameAssumption, NEW t \in Seq(Line), NEW m \in 1..Len(t), NEW b,
         LastOpening(t, b, m), m = Len(t) \/ Opens(t, m + 1),
         NEW c \in Metric, SaidBy(t, b, m, c), ~Typed(c)
  PROVE  /\ b \in Openings(t) /\ Block(t, b) = b..m
         /\ ~Has(t, b, "type")
         /\ HelpOf(t, b) = c.help
<1>1. Block(t, b) = b..m
  BY BlockIs
<1>2. b \in 1..m /\ b \in Openings(t)
  BY DEF LastOpening, Openings
<1>3. \A i \in b..m : t[i].kind = "type" => t[i].of # NoName
  BY <1>2, LineType DEF NameAssumption
<1>4. \A i \in b..m : t[i].kind # "type"
  BY <1>3 DEF Typed, SaidBy, LastName
<1>5. HelpOf(t, b) = c.help
  BY <1>1, <1>2, HelpOfIs DEF SaidBy
<1> QED
  BY <1>1, <1>2, <1>4, <1>5 DEF Has

-----------------------------------------------------------------------------
(* The steps                                                               *)

\* Beginning to read.
LEMMA ParseBegins ==
  ASSUME NEW lines \in Seq(Line), Parse(lines)
  PROVE  ParserInv'
<1>1. text' = lines /\ pos' = 0 /\ parser' = [NotParsing EXCEPT !.status = "reading"]
  BY DEF Parse
<1>2. NotParsing \in [status : {"off"}, optionsChecked : BOOLEAN,
                      parsingValues : BOOLEAN, option : Nat,
                      current : Metric, metrics : Seq(Metric)]
  BY DEF NotParsing, NewMetric, Metric
<1>3. ParserTypeOK'
  BY <1>1, <1>2 DEF ParserTypeOK
<1>4. ReadSoFar'
  BY <1>1 DEF ReadSoFar, Progress, NotParsing, Leading, Valued
<1>5. ParsesByBlocks'
  BY <1>1 DEF ParsesByBlocks, Parsed, NotParsing
<1> QED
  BY <1>3, <1>4, <1>5 DEF ParserInv

LEMMA NotParsingType ==
  NotParsing \in [status : {"off"}, optionsChecked : BOOLEAN, parsingValues : BOOLEAN,
                 option : Nat, current : Metric, metrics : Seq(Metric)]
BY DEF NotParsing, NewMetric, Metric

\* Not reading, before ...
LEMMA ParserOff ==
  ASSUME text = <<>>, pos = 0, parser = NotParsing
  PROVE  ParserInv
<1>1. ParserTypeOK
  BY NotParsingType DEF ParserTypeOK
<1> QED
  BY <1>1 DEF ParserInv, ParsesByBlocks, Parsed, NotParsing

\* ... and after.
LEMMA ParserForgets ==
  ASSUME ForgetParse
  PROVE  ParserInv'
<1>1. text' = <<>> /\ pos' = 0 /\ parser' = NotParsing
  BY DEF ForgetParse
<1>2. ParserTypeOK'
  BY <1>1, NotParsingType DEF ParserTypeOK
<1> QED
  BY <1>1, <1>2 DEF ParserInv, ParsesByBlocks, Parsed, NotParsing

\* An option is read.
LEMMA OptionRead ==
  ASSUME ParserInv, ReadOption
  PROVE  ParserInv'
<1> DEFINE n == pos + 1
<1>1. /\ ParserTypeOK /\ ReadSoFar
      /\ text' = text /\ pos' = n /\ n \in 1..Len(text)
      /\ ~parser.optionsChecked /\ text[n].kind \in {"option", "badoption"}
  BY DEF ParserInv, ParserTypeOK, ReadOption, IsOption, Options
<1>2. Leading(text, pos)
  BY <1>1 DEF ReadSoFar
<1>3. CASE text[n].kind = "option"
  <2>1. parser' = [parser EXCEPT !.option = n]
    BY <1>3 DEF ReadOption
  <2>2. ParserTypeOK'
    BY <1>1, <2>1 DEF ParserTypeOK
  <2>3. Leading(text, n)
    BY <1>1, <1>2, <1>3, LeadingNext DEF ParserTypeOK
  <2>4. ~Refused(text, n)
    BY <1>3 DEF Refused
  <2>5. ReadSoFar'
    <3>1. /\ parser'.optionsChecked = parser.optionsChecked
          /\ parser'.parsingValues = parser.parsingValues
          /\ parser'.current = parser.current
          /\ parser'.metrics = parser.metrics
      BY <1>1, <2>1 DEF ParserTypeOK
    <3>2. ~Valued(text, pos) /\ ~Valued(text, n)
      BY <1>2, <2>3 DEF Valued
    <3>3. \A i \in 1..n : ~Refused(text, i)
      BY <1>1, <2>4 DEF ReadSoFar, ParserTypeOK
    <3> QED
      BY <1>1, <1>2, <2>3, <3>1, <3>2, <3>3 DEF ReadSoFar, Progress
  <2>6. ParsesByBlocks'
    <3>1. parser'.status = "reading"
      BY <1>1, <2>1 DEF ParserTypeOK, ReadOption
    <3> QED
      BY <3>1 DEF ParsesByBlocks, Parsed
  <2> QED
    BY <2>2, <2>5, <2>6 DEF ParserInv
<1>4. CASE text[n].kind = "badoption"
  <2>1. parser' = [parser EXCEPT !.status = "failed"]
    BY <1>4 DEF ReadOption, Failed
  <2>2. ParserTypeOK' /\ parser'.status = "failed"
    BY <1>1, <2>1 DEF ParserTypeOK
  <2>3. ~Accepted(text)
    BY <1>1, <1>2, <1>4 DEF Accepted, Refused, ParserTypeOK
  <2> QED
    BY <1>1, <2>2, <2>3 DEF ParserInv, ParsesByBlocks
<1> QED
  BY <1>1, <1>3, <1>4

\* What a line that is not refused adds to the metric of its block.
LEMMA TakeSays ==
  ASSUME NameAssumption, NEW t \in Seq(Line), NEW n \in 1..Len(t), NEW b \in 1..n,
         ~Leading(t, n), t[n].kind # "badtype",
         NEW p, InBlock(t, n, b, p)
  PROVE  LET q == Take(p, t[n], n)
         IN  /\ q \in [status : {"reading"}, optionsChecked : {TRUE},
                        parsingValues : BOOLEAN, option : Nat, current : Metric,
                        metrics : {p.metrics}]
             /\ q.parsingValues <=> Valued(t, n)
             /\ SaidBy(t, b, n, q.current)
<1> DEFINE q == Take(p, t[n], n)
<1> DEFINE c == p.current
<1>0. /\ c \in Metric
      /\ p \in [status : {"reading"}, optionsChecked : {TRUE}, parsingValues : BOOLEAN,
                option : Nat, current : {c}, metrics : Seq(Metric)]
      /\ \/ b < n /\ SaidBy(t, b, n - 1, c)
         \/ b = n /\ c = NewMetric
      /\ p.parsingValues => t[n].kind \notin Metadata
  BY DEF InBlock, Reading
<1> HIDE DEF c
<1>1. /\ t[n].of \in Names \cup {NoName}
      /\ t[n].kind \in {"help", "type", "option", "badoption", "comment", "sample"}
  BY LineType
<1>2. \A i \in b..n : i \in b..(n - 1) \/ i = n
  OBVIOUS
<1>3. \A i \in b..(n - 1) : i \in b..n /\ i < n
  OBVIOUS
<1>4. n \in b..n
  OBVIOUS
<1>5. /\ LastName(t, b, n - 1, "type", c.key)
      /\ LastName(t, b, n - 1, "help", c.help)
      /\ c.value = {i \in b..(n - 1) : Valued(t, i)}
  <2>1. CASE b < n
    BY <2>1, <1>0 DEF SaidBy
  <2>2. CASE b = n /\ c = NewMetric
    BY <2>2 DEF NewMetric, LastName
  <2> QED
    BY <2>1, <2>2, <1>0
<1>6. ASSUME NEW kind, NEW name, t[n].kind # kind, LastName(t, b, n - 1, kind, name)
      PROVE  LastName(t, b, n, kind, name)
  BY <1>2, <1>3, <1>6 DEF LastName
<1>7. LastName(t, b, n, t[n].kind, t[n].of)
  BY <1>4 DEF LastName
<1>8. CASE t[n].kind = "help"
  <2>1. /\ q = [p EXCEPT !.current.help = t[n].of] /\ ~Valued(t, n)
        /\ ~p.parsingValues
    BY <1>0, <1>8 DEF Take, Valued, Metadata
  <2>2. q.current = [key |-> c.key, help |-> t[n].of, value |-> c.value]
    BY <1>0, <2>1 DEF Metric
  <2>3. SaidBy(t, b, n, q.current)
    <3>1. c.value = {i \in b..n : Valued(t, i)}
      BY <1>2, <1>3, <1>5, <2>1
    <3> QED
      BY <1>5, <1>6, <1>7, <1>8, <2>2, <3>1 DEF SaidBy
  <2>4. [key |-> c.key, help |-> t[n].of, value |-> c.value] \in Metric
    BY <1>0, <1>1 DEF Metric
  <2>5. q \in [status : {"reading"}, optionsChecked : {TRUE},
               parsingValues : {FALSE}, option : Nat, current : Metric,
               metrics : {p.metrics}]
    <3> HIDE DEF q
    <3> QED
      BY <1>0, <2>1, <2>2, <2>4
  <2> QED
    BY <2>1, <2>3, <2>5
<1>9. CASE t[n].kind = "type"
  <2>1. /\ q = [p EXCEPT !.current.key = t[n].of] /\ ~Valued(t, n)
        /\ ~p.parsingValues
    BY <1>0, <1>9 DEF Take, Valued, Metadata
  <2>2. q.current = [key |-> t[n].of, help |-> c.help, value |-> c.value]
    BY <1>0, <2>1 DEF Metric
  <2>3. SaidBy(t, b, n, q.current)
    <3>1. c.value = {i \in b..n : Valued(t, i)}
      BY <1>2, <1>3, <1>5, <2>1
    <3> QED
      BY <1>5, <1>6, <1>7, <1>9, <2>2, <3>1 DEF SaidBy
  <2>4. [key |-> t[n].of, help |-> c.help, value |-> c.value] \in Metric
    BY <1>0, <1>1 DEF Metric
  <2>5. q \in [status : {"reading"}, optionsChecked : {TRUE},
               parsingValues : {FALSE}, option : Nat, current : Metric,
               metrics : {p.metrics}]
    <3> HIDE DEF q
    <3> QED
      BY <1>0, <2>1, <2>2, <2>4
  <2> QED
    BY <2>1, <2>3, <2>5
<1>10. CASE t[n].kind \notin Metadata
  <2>1. /\ q = [p EXCEPT !.parsingValues = TRUE, !.current.value = @ \cup {n}]
        /\ Valued(t, n)
    BY <1>1, <1>10 DEF Take, Valued, Metadata
  <2> DEFINE w == c.value \cup {n}
  <2>a. w \in SUBSET Nat
    BY <1>0 DEF Metric
  <2>b. q = [p EXCEPT !.parsingValues = TRUE, !.current.value = w]
    BY <2>1 DEF c
  <2>2. q.current = [key |-> c.key, help |-> c.help, value |-> w]
    <3> HIDE DEF w, q
    <3>1. q.current = [c EXCEPT !.value = w]
      BY <1>0, <2>b
    <3> QED
      BY <1>0, <3>1 DEF Metric
  <2>3. SaidBy(t, b, n, q.current)
    <3>1. c.value \cup {n} = {i \in b..n : Valued(t, i)}
      BY <1>2, <1>3, <1>4, <1>5, <2>1
    <3>2. t[n].kind # "type" /\ t[n].kind # "help"
      BY <1>10 DEF Metadata
    <3> QED
      BY <1>5, <1>6, <2>2, <3>1, <3>2 DEF SaidBy
  <2>4. q \in [status : {"reading"}, optionsChecked : {TRUE},
               parsingValues : {TRUE}, option : Nat, current : Metric,
               metrics : {p.metrics}]
    <3>1. [key |-> c.key, help |-> c.help, value |-> w] \in Metric
      BY <1>0, <2>a DEF Metric
    <3> HIDE DEF w, q
    <3> QED
      BY <1>0, <2>b, <2>2, <3>1
  <2> QED
    BY <2>1, <2>3, <2>4
<1> QED
  BY <1>1, <1>8, <1>9, <1>10 DEF Metadata

\* What is appended joins the range.
LEMMA RangeAppend ==
  ASSUME NEW S, NEW s \in Seq(S), NEW x \in S
  PROVE  Range(Append(s, x)) = Range(s) \cup {x}
<1> DEFINE longer == Append(s, x)
<1>1. DOMAIN s = 1..Len(s) /\ DOMAIN longer = 1..(Len(s) + 1)
  OBVIOUS
<1>2. \A i \in 1..Len(s) : longer[i] = s[i]
  OBVIOUS
<1>3. longer[Len(s) + 1] = x
  OBVIOUS
<1> HIDE DEF longer
<1>4. ASSUME NEW y \in Range(longer) PROVE y \in Range(s) \cup {x}
  <2>1. PICK i \in 1..(Len(s) + 1) : y = longer[i]
    BY <1>1 DEF Range
  <2>2. i \in 1..Len(s) \/ i = Len(s) + 1
    BY <2>1
  <2> QED
    BY <1>1, <1>2, <1>3, <2>1, <2>2 DEF Range
<1>5. ASSUME NEW y \in Range(s) \cup {x} PROVE y \in Range(longer)
  <2>1. \A i \in 1..Len(s) : i \in 1..(Len(s) + 1)
    OBVIOUS
  <2>2. Len(s) + 1 \in 1..(Len(s) + 1)
    OBVIOUS
  <2> QED
    BY <1>1, <1>2, <1>3, <2>1, <2>2 DEF Range
<1> QED
  BY <1>4, <1>5 DEF longer

\* A metric is finished: the blocks that have ended are one more.
LEMMA BlockEnds ==
  ASSUME NameAssumption, NEW t \in Seq(Line), NEW m \in 1..Len(t), NEW b,
         LastOpening(t, b, m), m = Len(t) \/ Opens(t, m + 1),
         NEW c \in Metric, SaidBy(t, b, m, c), Typed(c),
         NEW metrics \in Seq(Metric), Ended(t, b, metrics)
  PROVE  /\ Append(metrics, Helped(c)) \in Seq(Metric)
         /\ Ended(t, m + 1, Append(metrics, Helped(c)))
<1>1. Helped(c) \in Metric
  BY DEF Helped, Metric, Typed
<1>2. Helped(c) = MetricOf(t, b) /\ Has(t, b, "type")
  BY MetricIs
<1>3. EndedBlocks(t, m + 1) = EndedBlocks(t, b) \cup {b}
  BY DEF EndedBlocks, LastOpening, Openings
<1>4. Range(Append(metrics, Helped(c))) = Range(metrics) \cup {Helped(c)}
  BY <1>1, RangeAppend
<1> QED
  BY <1>1, <1>2, <1>3, <1>4 DEF Ended

\* A text that is refused is not accepted.
LEMMA ParsingFails ==
  ASSUME ParserTypeOK, text' = text, pos' \in 0..Len(text),
         parser' \in [status : {"failed"}, optionsChecked : BOOLEAN,
                      parsingValues : BOOLEAN, option : Nat,
                      current : Metric, metrics : Seq(Metric)],
         ~Accepted(text)
  PROVE  ParserInv'
BY DEF ParserInv, ParserTypeOK, ParsesByBlocks

\* A line that is no option is read.
LEMMA LineRead ==
  ASSUME NameAssumption, ParserInv, ReadLine
  PROVE  ParserInv'
<1> DEFINE n    == pos + 1
<1> DEFINE line == text[n]
<1> DEFINE p    == [parser EXCEPT !.optionsChecked = TRUE]
<1> DEFINE q    == IF EndsMetric(line) THEN EndMetric(p) ELSE p
<1>1. /\ ParserTypeOK /\ ReadSoFar
      /\ text' = text /\ pos' = n /\ n \in 1..Len(text) /\ n - 1 = pos
      /\ parser.status = "reading"
      /\ ~IsOption(line)
      /\ parser' = IF q.status = "failed" THEN q ELSE Take(q, line, n)
  BY DEF ParserInv, ParserTypeOK, ReadLine
<1>2. /\ text \in Seq(Line) /\ pos \in Nat
      /\ p \in Reading /\ p.parsingValues = parser.parsingValues
      /\ p.current = parser.current /\ p.metrics = parser.metrics
      /\ parser.parsingValues \in BOOLEAN /\ parser.option \in Nat
      /\ parser.current \in Metric /\ parser.metrics \in Seq(Metric)
  <2>1. parser \in [status : {"reading"}, optionsChecked : BOOLEAN,
                    parsingValues : BOOLEAN, option : Nat, current : Metric,
                    metrics : Seq(Metric)]
    BY <1>1 DEF ParserTypeOK
  <2>2. text \in Seq(Line) /\ pos \in Nat
    BY <1>1 DEF ParserTypeOK
  <2>3. /\ p \in Reading /\ p.parsingValues = parser.parsingValues
        /\ p.current = parser.current /\ p.metrics = parser.metrics
    BY <2>1 DEF Reading
  <2>4. /\ parser.parsingValues \in BOOLEAN /\ parser.option \in Nat
        /\ parser.current \in Metric /\ parser.metrics \in Seq(Metric)
    BY <2>1
  <2> QED
    BY <2>2, <2>3, <2>4
<1>3. ~Leading(text, n)
  <2>1. CASE Leading(text, pos)
    BY <1>1, <1>2, <2>1, LeadingNext DEF ReadSoFar, IsOption, Options
  <2>2. CASE ~Leading(text, pos)
    BY <1>2, <2>2, LeadingNext
  <2> QED
    BY <2>1, <2>2
<1>4. Leading(text, pos) => line.kind # "badoption" /\ ~EndsMetric(line)
  BY <1>1 DEF ReadSoFar, IsOption, Options, EndsMetric, Valued
<1>5. Opens(text, n) <=> Leading(text, pos) \/ EndsMetric(line)
  BY <1>1, <1>3 DEF Opens, EndsMetric, ReadSoFar
<1>6. ~Leading(text, pos) => pos \in 1..Len(text)
  BY <1>1, <1>2 DEF Leading
<1>7. CASE EndsMetric(line) /\ ~Typed(parser.current)
  <2>1. q = [p EXCEPT !.status = "failed"]
    BY <1>2, <1>7 DEF EndMetric, Failed
  <2>2. parser' = [p EXCEPT !.status = "failed"]
    BY <1>1, <1>2, <2>1 DEF Reading
  <2>3. PICK b \in 1..pos : LastOpening(text, b, pos) /\ SaidBy(text, b, pos, parser.current)
    BY <1>1, <1>4, <1>7 DEF ReadSoFar, Progress
  <2>4. ~Accepted(text)
    <3>1. /\ b \in Openings(text) /\ Block(text, b) = b..pos
          /\ ~Has(text, b, "type")
      BY <1>2, <1>4, <1>5, <1>6, <1>7, <2>3, UntypedBlock
    <3>2. text[pos].kind # "help" /\ pos \in b..pos
      BY <1>1, <1>7, <2>3 DEF EndsMetric, ReadSoFar, Valued, Metadata
    <3> QED
      BY <3>1, <3>2 DEF Accepted, Vacuous
  <2>5. parser' \in [status : {"failed"}, optionsChecked : BOOLEAN,
                     parsingValues : BOOLEAN, option : Nat,
                     current : Metric, metrics : Seq(Metric)]
    <3> HIDE DEF p, q
    <3> QED
      BY <1>2, <2>2 DEF Reading
  <2> QED
    BY <1>1, <2>4, <2>5, ParsingFails
<1>8. CASE ~(EndsMetric(line) /\ ~Typed(parser.current))
  <2>1. PICK b \in 1..n : InBlock(text, n, b, q)
    <3>1. CASE Leading(text, pos)
      <4>1. q = p /\ p.current = NewMetric /\ p.metrics = <<>> /\ ~p.parsingValues
        BY <1>1, <1>2, <1>4, <3>1 DEF ReadSoFar, Progress, Valued
      <4>2. EndedBlocks(text, n) = {}
        BY <1>1, <3>1 DEF EndedBlocks, Openings, Opens, Leading
      <4>3. LastOpening(text, n, n)
        BY <1>1, <1>5, <3>1 DEF LastOpening
      <4>4. Ended(text, n, q.metrics)
        <5>1. q.metrics = <<>>
          BY <4>1
        <5> HIDE DEF q
        <5> QED
          BY <5>1, <4>2 DEF Ended, Range
      <4>5. q \in Reading
        BY <1>2, <4>1 DEF Reading
      <4>6. q.current = NewMetric /\ ~q.parsingValues
        BY <4>1
      <4>7. InBlock(text, n, n, q)
        <5> HIDE DEF q
        <5> QED
          BY <1>1, <4>3, <4>4, <4>5, <4>6 DEF InBlock
      <4> QED
        BY <1>1, <4>7
    <3>2. CASE EndsMetric(line)
      <4>1. PICK b \in 1..pos :
              /\ LastOpening(text, b, pos)
              /\ SaidBy(text, b, pos, parser.current)
              /\ Ended(text, b, parser.metrics)
        BY <1>1, <1>4, <3>2 DEF ReadSoFar, Progress
      <4> DEFINE longer == Append(parser.metrics, Helped(parser.current))
      <4>2. q = [p EXCEPT !.parsingValues = FALSE, !.metrics = longer,
                          !.current = NewMetric]
        BY <1>2, <1>8, <3>2 DEF EndMetric
      <4>3. /\ longer \in Seq(Metric)
            /\ Ended(text, n, longer)
        BY <1>2, <1>4, <1>5, <1>6, <1>8, <3>2, <4>1, BlockEnds
      <4>4. LastOpening(text, n, n)
        BY <1>1, <1>5, <3>2 DEF LastOpening
      <4>5. NewMetric \in Metric
        BY DEF NewMetric, Metric
      <4>6. /\ q.metrics = longer /\ q.current = NewMetric /\ ~q.parsingValues
            /\ q \in Reading
        <5> HIDE DEF longer, q
        <5> QED
          BY <1>2, <4>2, <4>3, <4>5 DEF Reading
      <4>7. InBlock(text, n, n, q)
        <5> HIDE DEF longer, q
        <5> QED
          BY <1>1, <4>3, <4>4, <4>6 DEF InBlock
      <4> QED
        BY <1>1, <4>7
    <3>3. CASE ~Leading(text, pos) /\ ~EndsMetric(line)
      <4>1. PICK b \in 1..pos :
              /\ LastOpening(text, b, pos)
              /\ SaidBy(text, b, pos, parser.current)
              /\ Ended(text, b, parser.metrics)
        BY <1>1, <3>3 DEF ReadSoFar, Progress
      <4>2. LastOpening(text, b, n)
        BY <1>1, <1>2, <1>5, <3>3, <4>1 DEF LastOpening
      <4>3. /\ q.current = parser.current /\ q.metrics = parser.metrics
            /\ q.parsingValues = parser.parsingValues /\ q \in Reading
        BY <1>2, <3>3 DEF Reading
      <4>4. parser.parsingValues => line.kind \notin Metadata
        BY <1>2, <3>3 DEF EndsMetric, Metadata
      <4>5. b \in 1..n /\ b < n
        BY <1>2
      <4>6. InBlock(text, n, b, q)
        <5> HIDE DEF q
        <5> QED
          BY <1>1, <4>1, <4>2, <4>3, <4>4, <4>5 DEF InBlock
      <4> QED
        BY <4>5, <4>6
    <3> QED
      BY <3>1, <3>2, <3>3
  <2>2. CASE line.kind = "badtype"
    <3>1. parser' = [q EXCEPT !.status = "failed"]
      <4>1. q.status # "failed"
        <5> HIDE DEF q
        <5> QED
          BY <2>1 DEF InBlock, Reading
      <4> QED
        BY <1>1, <4>1, <2>2 DEF Take, Failed
    <3>2. parser' \in [status : {"failed"}, optionsChecked : BOOLEAN,
                       parsingValues : BOOLEAN, option : Nat,
                       current : Metric, metrics : Seq(Metric)]
      <4> HIDE DEF q
      <4> QED
        BY <2>1, <3>1 DEF InBlock, Reading
    <3>3. ~Accepted(text)
      BY <1>1, <2>2 DEF Accepted, Refused
    <3> QED
      BY <1>1, <3>2, <3>3, ParsingFails
  <2>3. CASE line.kind # "badtype"
    <3>1. parser' = Take(q, line, n) /\ q \in Reading
      <4>1. q.status # "failed" /\ q \in Reading
        <5> HIDE DEF q
        <5> QED
          BY <2>1 DEF InBlock, Reading
      <4> QED
        BY <1>1, <4>1
    <3>2. /\ parser' \in [status : {"reading"}, optionsChecked : {TRUE},
                          parsingValues : BOOLEAN, option : Nat,
                          current : Metric, metrics : {q.metrics}]
          /\ parser'.parsingValues <=> Valued(text, n)
          /\ SaidBy(text, b, n, parser'.current)
      <4>1. text \in Seq(Line) /\ n \in 1..Len(text) /\ b \in 1..n
        BY <1>1, <1>2
      <4>2. /\ Take(q, text[n], n)
                 \in [status : {"reading"}, optionsChecked : {TRUE},
                     parsingValues : BOOLEAN, option : Nat,
                     current : Metric, metrics : {q.metrics}]
            /\ Take(q, text[n], n).parsingValues <=> Valued(text, n)
            /\ SaidBy(text, b, n, Take(q, text[n], n).current)
        <5>1. text[n].kind # "badtype" /\ ~Leading(text, n)
          BY <1>3, <2>3
        <5> HIDE DEF q, n
        <5> QED
          BY <2>1, <4>1, <5>1, TakeSays
      <4> QED
        BY <3>1, <4>2
    <3>3. ParserTypeOK'
      <4> HIDE DEF q
      <4>1. q.metrics \in Seq(Metric)
        BY <3>1 DEF Reading
      <4>2. parser' \in Reading
        BY <3>2, <4>1 DEF Reading
      <4> QED
        <5>1. text' \in Seq(Line) /\ pos' \in 0..Len(text')
          BY <1>1, <1>2
        <5>2. parser' \in [status : {"off", "reading", "failed", "done"},
                           optionsChecked : BOOLEAN, parsingValues : BOOLEAN,
                           option : Nat, current : Metric, metrics : Seq(Metric)]
          BY <4>2 DEF Reading
        <5> QED
          BY <5>1, <5>2 DEF ParserTypeOK
    <3>4. ~Refused(text, n)
      <4>1. ~Leading(text, n - 1) \/ line.kind # "badoption"
        BY <1>1, <1>4
      <4> QED
        BY <2>3, <4>1 DEF Refused
    <3>5. \A i \in 1..n : ~Refused(text, i)
      BY <1>1, <1>2, <3>4 DEF ReadSoFar
    <3>6. Progress'
      <4>1. parser'.metrics = q.metrics
        BY <3>2
      <4> HIDE DEF q
      <4> QED
        BY <1>1, <1>3, <2>1, <3>2, <4>1 DEF Progress, InBlock
    <3>7. ReadSoFar'
      BY <1>1, <1>3, <3>2, <3>5, <3>6 DEF ReadSoFar
    <3>8. ParsesByBlocks'
      BY <3>2 DEF ParsesByBlocks, Parsed
    <3> QED
      BY <3>3, <3>7, <3>8 DEF ParserInv
  <2> QED
    BY <2>2, <2>3
<1> QED
  BY <1>7, <1>8

\* The text is over.
LEMMA TextEnds ==
  ASSUME NameAssumption, ParserInv, EndOfText
  PROVE  ParserInv'
<1>1. /\ ParserTypeOK /\ ReadSoFar
      /\ text' = text /\ pos' = pos /\ pos = Len(text)
      /\ text \in Seq(Line) /\ parser.current \in Metric
      /\ parser.metrics \in Seq(Metric)
  BY DEF ParserInv, ParserTypeOK, EndOfText
<1>2. \A i \in 1..Len(text) : ~Refused(text, i)
  BY <1>1 DEF ReadSoFar
<1>3. CASE Leading(text, pos)
  <2>1. parser.current = NewMetric /\ parser.metrics = <<>> /\ ~Typed(NewMetric)
    BY <1>1, <1>3 DEF ReadSoFar, Progress, NewMetric, Typed
  <2>2. parser' = [parser EXCEPT !.status = "done"]
    BY <2>1 DEF EndOfText
  <2>3. Openings(text) = {}
    BY <1>1, <1>3 DEF Openings, Opens, Leading
  <2>4. Accepted(text) /\ MetricsOf(text) = {}
    BY <1>2, <2>3 DEF Accepted, MetricsOf
  <2>5. Range(parser.metrics) = {}
    BY <2>1 DEF Range
  <2>6. /\ parser'.status = "done" /\ parser'.metrics = parser.metrics
        /\ ParserTypeOK'
    BY <1>1, <2>2 DEF ParserTypeOK
  <2> QED
    BY <1>1, <2>4, <2>5, <2>6 DEF ParserInv, ParsesByBlocks
<1>4. CASE ~Leading(text, pos)
  <2>1. PICK b \in 1..pos :
          /\ LastOpening(text, b, pos)
          /\ SaidBy(text, b, pos, parser.current)
          /\ Ended(text, b, parser.metrics)
    BY <1>1, <1>4 DEF ReadSoFar, Progress
  <2>2. pos \in 1..Len(text)
    BY <1>1, <2>1
  <2>3. CASE Typed(parser.current)
    <3> DEFINE longer == Append(parser.metrics, Helped(parser.current))
    <3>1. parser' = [parser EXCEPT !.status = "done", !.metrics = longer]
      BY <2>3 DEF EndOfText
    <3>2. /\ longer \in Seq(Metric)
          /\ Ended(text, pos + 1, longer)
      BY <1>1, <2>1, <2>2, <2>3, BlockEnds
    <3>3. EndedBlocks(text, pos + 1) = Openings(text)
      BY <1>1 DEF EndedBlocks, Openings
    <3>4. Accepted(text) /\ Range(longer) = MetricsOf(text)
      <4>1. {c \in Openings(text) : Has(text, c, "type")} = Openings(text)
        BY <3>2, <3>3 DEF Ended
      <4> QED
        BY <1>2, <3>2, <3>3, <4>1 DEF Accepted, MetricsOf, Ended
    <3>5. /\ parser'.status = "done" /\ parser'.metrics = longer
          /\ ParserTypeOK'
      <4> HIDE DEF longer
      <4> QED
        BY <1>1, <3>1, <3>2 DEF ParserTypeOK
    <3> QED
      BY <1>1, <3>4, <3>5 DEF ParserInv, ParsesByBlocks
  <2>4. CASE ~Typed(parser.current)
    <3>1. /\ b \in Openings(text) /\ Block(text, b) = b..pos
          /\ ~Has(text, b, "type")
          /\ HelpOf(text, b) = parser.current.help
      BY <1>1, <2>1, <2>2, <2>4, UntypedBlock
    <3>3. Vacuous(text, b) <=> parser.current = NewMetric
      <4>1. ASSUME NEW i \in b..pos
            PROVE  Valued(text, i) <=> text[i].kind # "help"
        <5>1. ~Leading(text, i) /\ i \in 1..Len(text)
          BY <1>1, <2>1 DEF LastOpening, Opens, Leading
        <5>2. text[i].kind # "badtype" /\ text[i].kind # "type"
          BY <1>1, <1>2, <3>1, <5>1 DEF Refused, Has
        <5> QED
          BY <5>1, <5>2 DEF Valued, Metadata
      <4>2. parser.current.value = {} <=> \A i \in b..pos : text[i].kind = "help"
        BY <2>1, <4>1 DEF SaidBy
      <4>3. parser.current.key = NoName
        BY <2>4 DEF Typed
      <4>4. parser.current = NewMetric
              <=> parser.current.value = {} /\ parser.current.help = NoName
        <5> DEFINE c == parser.current
        <5>1. c = [key |-> c.key, help |-> c.help, value |-> c.value]
          BY <1>1 DEF Metric
        <5>2. NewMetric.value = {} /\ NewMetric.help = NoName
          BY DEF NewMetric
        <5> HIDE DEF c
        <5>3. c = NewMetric <=> c.value = {} /\ c.help = NoName
          BY <4>3, <5>1, <5>2 DEF NewMetric, c
        <5> QED
          BY <5>3 DEF c
      <4> QED
        BY <3>1, <4>2, <4>4 DEF Vacuous
    <3>4. CASE parser.current = NewMetric
      <4>1. parser' = [parser EXCEPT !.status = "done"]
        BY <2>4, <3>4 DEF EndOfText
      <4>2. /\ parser'.status = "done" /\ parser'.metrics = parser.metrics
            /\ ParserTypeOK'
        BY <1>1, <4>1 DEF ParserTypeOK
      <4>3. Openings(text) = EndedBlocks(text, b) \cup {b}
        BY <1>1, <2>1 DEF EndedBlocks, LastOpening, Openings
      <4>4. {c \in Openings(text) : Has(text, c, "type")} = EndedBlocks(text, b)
        BY <2>1, <3>1, <4>3 DEF Ended, EndedBlocks
      <4>5. Accepted(text) /\ Range(parser.metrics) = MetricsOf(text)
        BY <1>2, <2>1, <3>3, <3>4, <4>3, <4>4 DEF Accepted, MetricsOf, Ended
      <4> QED
        BY <1>1, <4>2, <4>5 DEF ParserInv, ParsesByBlocks
    <3>5. CASE parser.current # NewMetric
      <4>1. parser' = [parser EXCEPT !.status = "failed"]
        BY <2>4, <3>5 DEF EndOfText, Failed
      <4>2. parser' \in [status : {"failed"}, optionsChecked : BOOLEAN,
                         parsingValues : BOOLEAN, option : Nat,
                         current : Metric, metrics : Seq(Metric)]
        BY <1>1, <4>1 DEF ParserTypeOK
      <4>3. ~Accepted(text)
        BY <3>1, <3>3, <3>5 DEF Accepted
      <4> QED
        BY <1>1, <2>2, <4>2, <4>3, ParsingFails
    <3> QED
      BY <3>4, <3>5
  <2> QED
    BY <2>3, <2>4
<1> QED
  BY <1>3, <1>4

\* Every step of the loop keeps what the loop relies on.
LEMMA ParserKeeps ==
  ASSUME NameAssumption, ParserInv, ParseStep
  PROVE  ParserInv'
BY OptionRead, LineRead, TextEnds DEF ParseStep

\* The loop ends by being done or having failed.
LEMMA ParserGoesOn ==
  ASSUME ParserTypeOK, ParseStep
  PROVE  parser'.status # "off" /\ text' = text
  <1>1. \A p : p \in [status : {"off", "reading", "failed", "done"},
                      optionsChecked : BOOLEAN, parsingValues : BOOLEAN,
                      option : Nat, current : Metric, metrics : Seq(Metric)] =>
          Failed(p).status = "failed"
    BY DEF Failed
  <1>2. parser.status = "reading"
    BY DEF ParseStep, ReadOption, ReadLine, EndOfText
  <1>3. CASE ReadOption
    BY <1>1, <1>3 DEF ReadOption, ParserTypeOK
  <1>4. CASE ReadLine
    <2> DEFINE line == text[pos + 1]
               p == [parser EXCEPT !.optionsChecked = TRUE]
               q == IF EndsMetric(line) THEN EndMetric(p) ELSE p
    <2>1. parser' = IF q.status = "failed" THEN q ELSE Take(q, line, pos + 1)
      BY <1>4 DEF ReadLine
    <2>2. p.status = "reading" /\ DOMAIN p = DOMAIN parser
      BY <1>2 DEF ParserTypeOK
    <2>3. "status" \in DOMAIN parser
      BY DEF ParserTypeOK
    <2>4. q.status \in {"reading", "failed"} /\ "status" \in DOMAIN q
      BY <2>2, <2>3 DEF EndMetric, Failed
    <2> HIDE DEF q
    <2>5. Take(q, line, pos + 1).status \in {q.status, "failed"}
      BY <2>4 DEF Take, Failed
    <2> QED  BY <1>4, <2>1, <2>4, <2>5 DEF ReadLine
  <1>5. CASE EndOfText
    BY <1>1, <1>5 DEF EndOfText, ParserTypeOK
  <1> QED  BY <1>3, <1>4, <1>5 DEF ParseStep

-----------------------------------------------------------------------------
(* Texts without options: the name a value is put under.                   *)

OptionFree(t) == \A i \in 1..Len(t) : t[i].kind \notin Options

\* The last TYPE line before line i has that name.
Under(t, i, name) ==
    \E j \in 1..i :
      /\ t[j].kind = "type"
      /\ t[j].of = name
      /\ \A k \in (j + 1)..i : t[k].kind # "type"

LEMMA UnderOneName ==
  ASSUME NEW t, NEW i \in Nat, NEW m, NEW n, Under(t, i, m), Under(t, i, n)
  PROVE  m = n
  <1>1. PICK j \in 1..i : /\ t[j].kind = "type" /\ t[j].of = m
                          /\ \A k \in (j + 1)..i : t[k].kind # "type"
    BY DEF Under
  <1>2. PICK l \in 1..i : /\ t[l].kind = "type" /\ t[l].of = n
                          /\ \A k \in (l + 1)..i : t[k].kind # "type"
    BY DEF Under
  <1>3. j = l
    BY <1>1, <1>2
  <1> QED  BY <1>1, <1>2, <1>3

\* A set of numbers that is not empty has a least one: of the intervals up to
\* its elements, one has none of the others strictly inside it.
LEMMA LeastNumber ==
  ASSUME NEW S \in SUBSET Nat, S # {}
  PROVE  \E n \in S : \A m \in S : n <= m
  <1> DEFINE R == StrictSubsetOrdering(Nat)
             F == {1..n : n \in S}
  <1>1. F \subseteq FiniteSubsetsOf(Nat) /\ F # {}
    <2>1. ASSUME NEW n \in S PROVE 1..n \in SUBSET Nat /\ IsFiniteSet(1..n)
      BY FS_Interval
    <2> QED  BY <2>1 DEF FiniteSubsetsOf
  <1>2. PICK x \in F : \A y \in F : <<y, x>> \notin R
    <2> HIDE DEF F
    <2> QED  BY <1>1, FS_StrictSubsetOrderingWellFounded, WFMin
  <1>3. PICK n \in S : x = 1..n
    BY <1>2
  <1>4. ASSUME NEW m \in S, m < n PROVE FALSE
    <2>1. 1..m \subseteq 1..n /\ n \in 1..n /\ n \notin 1..m
      BY <1>4
    <2>2. <<1..m, x>> \in R
      BY <1>3, <2>1 DEF StrictSubsetOrdering
    <2> QED  BY <1>2, <2>2
  <1> QED  BY <1>4

\* ... and a greatest one, if there is a bound.
LEMMA GreatestNumber ==
  ASSUME NEW n \in Nat, NEW S \in SUBSET (1..n), S # {}
  PROVE  \E g \in S : \A m \in S : m <= g
  <1> DEFINE T == {n - m : m \in S}
  <1>1. T \in SUBSET Nat /\ T # {}
    <2>1. \A m \in S : n - m \in Nat
      OBVIOUS
    <2>2. PICK m \in S : TRUE
      OBVIOUS
    <2>3. n - m \in T
      OBVIOUS
    <2> QED  BY <2>1, <2>3
  <1>2. PICK x \in T : \A y \in T : x <= y
    <2> HIDE DEF T
    <2> QED  BY <1>1, LeastNumber
  <1>3. PICK g \in S : x = n - g
    BY <1>2
  <1>4. ASSUME NEW m \in S PROVE m <= g
    <2>1. n - g <= n - m
      BY <1>2, <1>3
    <2> QED  BY <2>1
  <1> QED  BY <1>4

LEMMA OpensIs ==
  ASSUME NEW t \in Seq(Line), OptionFree(t), NEW i \in 1..Len(t)
  PROVE  /\ Opens(t, i) <=>
              i = 1 \/ (t[i - 1].kind \notin Metadata /\ t[i].kind # "sample")
         /\ Valued(t, i) <=> t[i].kind \notin Metadata
  <1>1. ASSUME NEW j \in 1..Len(t) PROVE ~Leading(t, j)
    <2>1. t[1].kind # "option"
      BY DEF OptionFree, Options
    <2> QED  BY <2>1 DEF Leading
  <1>2. Leading(t, 0)
    BY DEF Leading
  <1> QED  BY <1>1, <1>2 DEF Opens, Valued

\* Every line is in the block that the last opening before it opens.
LEMMA InSomeBlock ==
  ASSUME NEW t \in Seq(Line), OptionFree(t), NEW i \in 1..Len(t)
  PROVE  \E b \in Openings(t) : i \in Block(t, b)
  <1> DEFINE S == {b \in 1..i : Opens(t, b)}
  <1>1. 1 \in S /\ S \in SUBSET (1..i) /\ i \in Nat
    BY OpensIs
  <1>2. PICK b \in S : \A c \in S : c <= b
    <2> HIDE DEF S
    <2> QED  BY <1>1, GreatestNumber
  <1>3. \A j \in (b + 1)..i : ~Opens(t, j)
    BY <1>2
  <1> QED  BY <1>2, <1>3 DEF Openings, Block

\* A line with "# " first after a line of values opens a block, so the TYPE
\* lines of a block come before its values.
LEMMA TypesComeFirst ==
  ASSUME NEW t \in Seq(Line), OptionFree(t), NEW b \in Openings(t),
         NEW i \in Block(t, b), NEW j \in Block(t, b),
         Valued(t, i), t[j].kind = "type"
  PROVE  j < i
  <1>1. /\ b \in 1..Len(t) /\ i \in b..Len(t) /\ j \in b..Len(t)
        /\ \A k \in (b + 1)..j : ~Opens(t, k)
    BY DEF Openings, Block
  <1>2. t[i].kind \notin Metadata
    BY <1>1, OpensIs
  <1>3. j # i
    BY <1>2 DEF Metadata
  <1>4. ASSUME i < j PROVE FALSE
    <2> DEFINE S == {k \in (i + 1)..j : t[k].kind # "sample"}
    <2>1. j \in S /\ S \in SUBSET Nat
      BY <1>1, <1>4
    <2>2. PICK k \in S : \A l \in S : k <= l
      BY <2>1, LeastNumber
    <2>3. k \in (b + 1)..j /\ k \in 1..Len(t) /\ k \in (i + 1)..j /\ k # 1
      BY <1>1, <2>2
    <2>4. k - 1 = i \/ (k - 1 \in (i + 1)..j /\ k - 1 \notin S)
      BY <1>1, <2>2, <2>3
    <2>5. k - 1 = i \/ t[k - 1].kind = "sample"
      BY <2>4
    <2>6. t[k - 1].kind \notin Metadata
      BY <1>2, <2>5 DEF Metadata
    <2>7. Opens(t, k)
      BY <2>2, <2>3, <2>6, OpensIs
    <2> QED  BY <1>1, <2>3, <2>7
  <1> QED  BY <1>1, <1>3, <1>4

\* A value is under the name of its block's metric, which is the one on the
\* last TYPE line before the value.
LEMMA KeyIsAbove ==
  ASSUME NEW t \in Seq(Line), OptionFree(t), Accepted(t), NEW b \in Openings(t),
         NEW i \in Block(t, b), Valued(t, i)
  PROVE  Under(t, i, MetricOf(t, b).key)
  <1> DEFINE S == {j \in Block(t, b) : t[j].kind = "type"}
             last(j) == \A k \in S : k <= j
  <1>0. Has(t, b, "type")
    <2>1. t[i].kind # "help"
      BY DEF Valued, Metadata
    <2> QED  BY <2>1 DEF Accepted, Vacuous
  <1>1. S # {} /\ S \in SUBSET (1..Len(t)) /\ Len(t) \in Nat
    BY <1>0 DEF Has, Openings, Block
  <1>2. \E j \in S : last(j)
    BY <1>1, GreatestNumber
  <1> DEFINE g == CHOOSE j \in S : last(j)
  <1>3. g \in S /\ \A k \in S : k <= g
    <2>1. g \in S /\ last(g)
      <3> HIDE DEF S, last
      <3> QED  BY <1>2
    <2> QED  BY <2>1
  <1>4. MetricOf(t, b).key = t[g].of
    BY DEF MetricOf, LastOf
  <1> HIDE DEF g
  <1>5. g \in Block(t, b) /\ t[g].kind = "type" /\ g < i
    BY <1>3, TypesComeFirst
  <1>6. /\ b \in 1..Len(t) /\ i \in b..Len(t) /\ g \in b..Len(t)
        /\ \A k \in (b + 1)..i : ~Opens(t, k)
    BY <1>5 DEF Openings, Block
  <1>7. ASSUME NEW k \in (g + 1)..i PROVE t[k].kind # "type"
    <2>1. k \in Block(t, b)
      BY <1>6 DEF Block
    <2> QED  BY <1>3, <1>6, <2>1
  <1> QED  BY <1>4, <1>5, <1>6, <1>7 DEF Under

\* So the values of an accepted text are its lines of values, each under the
\* name above it.
LEMMA ValuesAreUnderNames ==
  ASSUME NEW t \in Seq(Line), OptionFree(t), Accepted(t), NEW i, NEW name
  PROVE  (\E m \in MetricsOf(t) : name = m.key /\ i \in m.value)
           <=> i \in 1..Len(t) /\ t[i].kind \notin Metadata /\ Under(t, i, name)
  <1>1. ASSUME NEW m \in MetricsOf(t), i \in m.value
        PROVE  /\ i \in 1..Len(t) /\ t[i].kind \notin Metadata
               /\ Under(t, i, m.key)
    <2>1. PICK b \in Openings(t) : m = MetricOf(t, b)
      BY DEF MetricsOf
    <2>2. i \in Block(t, b) /\ Valued(t, i)
      BY <1>1, <2>1 DEF MetricOf
    <2>3. i \in 1..Len(t)
      BY <2>2 DEF Openings, Block
    <2> QED  BY <2>1, <2>2, <2>3, KeyIsAbove, OpensIs
  <1>2. ASSUME i \in 1..Len(t), t[i].kind \notin Metadata, Under(t, i, name)
        PROVE  \E m \in MetricsOf(t) : name = m.key /\ i \in m.value
    <2>1. PICK b \in Openings(t) : i \in Block(t, b)
      BY <1>2, InSomeBlock
    <2>2. Valued(t, i)
      BY <1>2, OpensIs
    <2>3. MetricOf(t, b).key = name
      BY <1>2, <2>1, <2>2, KeyIsAbove, UnderOneName
    <2>4. i \in MetricOf(t, b).value
      BY <2>1, <2>2 DEF MetricOf
    <2>5. Has(t, b, "type")
      <3>1. t[i].kind # "help"
        BY <1>2 DEF Metadata
      <3> QED  BY <2>1, <3>1 DEF Accepted, Vacuous
    <2> QED  BY <2>3, <2>4, <2>5 DEF MetricsOf
  <1> QED  BY <1>1, <1>2

-----------------------------------------------------------------------------
(* Texts that are put together from others.                                *)

Alone(t) == t \in Seq(Line) /\ OptionFree(t) /\ Accepted(t)

\* The lines of t are those of the whole after the first so many.
Part(t, whole, from) ==
    /\ from \in Nat
    /\ from + Len(t) <= Len(whole)
    /\ \A i \in 1..Len(t) : whole[from + i] = t[i]

LEMMA OpensInside ==
  ASSUME NEW t \in Seq(Line), OptionFree(t), NEW whole \in Seq(Line), OptionFree(whole),
         NEW from, Part(t, whole, from), NEW i \in 1..Len(t), Opens(whole, from + i)
  PROVE  Opens(t, i)
  <1>1. from \in Nat /\ from + i \in 1..Len(whole) /\ whole[from + i] = t[i]
    BY DEF Part
  <1>2. CASE i = 1
    BY <1>2, OpensIs
  <1>3. CASE i # 1
    <2>1. i - 1 \in 1..Len(t) /\ from + i # 1 /\ (from + i) - 1 = from + (i - 1)
      BY <1>1, <1>3
    <2>2. whole[(from + i) - 1] = t[i - 1]
      BY <2>1 DEF Part
    <2> QED  BY <1>1, <2>1, <2>2, OpensIs
  <1> QED  BY <1>2, <1>3

\* A block of the whole with a line of the part has all of that line's block.
LEMMA BlockInside ==
  ASSUME NEW t \in Seq(Line), OptionFree(t), NEW whole \in Seq(Line), OptionFree(whole),
         NEW from, Part(t, whole, from), NEW b \in Openings(whole),
         NEW c \in Openings(t), NEW i \in Block(t, c), from + i \in Block(whole, b),
         NEW j \in Block(t, c)
  PROVE  from + j \in Block(whole, b)
  <1>1. /\ c \in 1..Len(t) /\ i \in c..Len(t) /\ j \in c..Len(t)
        /\ \A k \in (c + 1)..i : ~Opens(t, k)
        /\ \A k \in (c + 1)..j : ~Opens(t, k)
    BY DEF Openings, Block
  <1>2. from \in Nat /\ from + Len(t) <= Len(whole)
    BY DEF Part
  <1>3. /\ b \in 1..Len(whole) /\ Opens(whole, b) /\ b <= from + i
        /\ \A k \in (b + 1)..(from + i) : ~Opens(whole, k)
    BY DEF Openings, Block
  <1>4. b <= from + c
    <2> SUFFICES ASSUME from + c < b PROVE FALSE
      BY <1>1, <1>2, <1>3
    <2>1. b - from \in (c + 1)..i /\ b - from \in 1..Len(t) /\ from + (b - from) = b
      BY <1>1, <1>2, <1>3
    <2> QED  BY <1>1, <1>3, <2>1, OpensInside
  <1>5. ASSUME NEW k \in (b + 1)..(from + j) PROVE ~Opens(whole, k)
    <2>1. CASE k <= from + c
      BY <1>1, <1>2, <1>3, <2>1
    <2>2. CASE from + c < k
      <3>1. k - from \in (c + 1)..j /\ k - from \in 1..Len(t) /\ from + (k - from) = k
        BY <1>1, <1>2, <1>3, <2>2
      <3> QED  BY <1>1, <3>1, OpensInside
    <2> QED  BY <1>1, <1>2, <1>3, <2>1, <2>2
  <1> QED  BY <1>1, <1>2, <1>3, <1>4, <1>5 DEF Block

LEMMA UnderInside ==
  ASSUME NEW t \in Seq(Line), NEW whole \in Seq(Line), NEW from, Part(t, whole, from),
         NEW i \in 1..Len(t), NEW name, Under(t, i, name)
  PROVE  Under(whole, from + i, name)
  <1>1. PICK j \in 1..i : /\ t[j].kind = "type" /\ t[j].of = name
                          /\ \A k \in (j + 1)..i : t[k].kind # "type"
    BY DEF Under
  <1>2. from \in Nat /\ from + j \in 1..(from + i) /\ whole[from + j] = t[j]
    <2>1. from \in Nat /\ \A l \in 1..Len(t) : whole[from + l] = t[l]
      BY DEF Part
    <2>2. j \in 1..Len(t)
      OBVIOUS
    <2> QED  BY <2>1, <2>2
  <1>3. ASSUME NEW k \in (from + j + 1)..(from + i) PROVE whole[k].kind # "type"
    <2>1. k - from \in (j + 1)..i /\ k - from \in 1..Len(t) /\ from + (k - from) = k
      BY <1>2
    <2>2. whole[k] = t[k - from]
      BY <2>1 DEF Part
    <2> QED  BY <1>1, <2>1, <2>2
  <1> QED  BY <1>1, <1>2, <1>3 DEF Under

\* A whole that is put together from accepted texts.
PutTogether(parts, whole) ==
    /\ whole \in Seq(Line)
    /\ \A a \in parts : Alone(a.text) /\ Part(a.text, whole, a.from)
    /\ \A k \in 1..Len(whole) : \E a \in parts : k \in (a.from + 1)..(a.from + Len(a.text))

LEMMA WholeIsAccepted ==
  ASSUME NEW parts, NEW whole, PutTogether(parts, whole)
  PROVE  Alone(whole)
  <1>1. ASSUME NEW k \in 1..Len(whole)
        PROVE  \E a \in parts : \E i \in 1..Len(a.text) :
                 k = a.from + i /\ whole[k] = a.text[i]
    <2>1. PICK a \in parts : k \in (a.from + 1)..(a.from + Len(a.text))
      BY DEF PutTogether
    <2>2. a.from \in Nat /\ a.text \in Seq(Line) /\ Part(a.text, whole, a.from)
      BY DEF PutTogether, Part, Alone
    <2>3. k - a.from \in 1..Len(a.text) /\ k = a.from + (k - a.from)
      BY <2>1, <2>2
    <2> QED  BY <2>2, <2>3 DEF Part
  <1>2. OptionFree(whole)
    <2> SUFFICES ASSUME NEW k \in 1..Len(whole) PROVE whole[k].kind \notin Options
      BY DEF OptionFree
    <2>1. PICK a \in parts : \E i \in 1..Len(a.text) : whole[k] = a.text[i]
      BY <1>1
    <2>2. OptionFree(a.text)
      BY DEF PutTogether, Alone
    <2> QED  BY <2>1, <2>2 DEF OptionFree
  <1>3. ASSUME NEW k \in 1..Len(whole) PROVE ~Refused(whole, k)
    <2>1. PICK a \in parts : \E i \in 1..Len(a.text) : whole[k] = a.text[i]
      BY <1>1
    <2>2. Accepted(a.text)
      BY DEF PutTogether, Alone
    <2>3. whole[k].kind # "badtype"
      BY <2>1, <2>2 DEF Accepted, Refused
    <2> QED  BY <1>2, <2>3 DEF Refused, OptionFree, Options
  <1>4. ASSUME NEW b \in Openings(whole)
        PROVE  Has(whole, b, "type") \/ Vacuous(whole, b)
    <2> SUFFICES ASSUME ~Has(whole, b, "type") PROVE Vacuous(whole, b)
      OBVIOUS
    <2>1. whole \in Seq(Line)
      BY DEF PutTogether
    \* Each line's part has it in a vacuous block, all of which is in this one.
    <2>2. ASSUME NEW k \in Block(whole, b)
          PROVE  \E a \in parts : \E c \in Openings(a.text) : \E i \in Block(a.text, c) :
                   /\ k = a.from + i
                   /\ Vacuous(a.text, c)
                   /\ \A j \in Block(a.text, c) : /\ a.from + j \in Block(whole, b)
                                                /\ whole[a.from + j] = a.text[j]
      <3>1. k \in 1..Len(whole)
        BY DEF Openings, Block
      <3>2. PICK a \in parts : \E i \in 1..Len(a.text) : k = a.from + i
        BY <1>1, <3>1
      <3>3. PICK i \in 1..Len(a.text) : k = a.from + i
        BY <3>2
      <3> DEFINE t == a.text
      <3>4. t \in Seq(Line) /\ OptionFree(t) /\ Accepted(t) /\ Part(t, whole, a.from)
        BY DEF PutTogether, Alone
      <3>5. PICK c \in Openings(t) : i \in Block(t, c)
        BY <3>4, InSomeBlock
      <3>6. ASSUME NEW j \in Block(t, c)
            PROVE  a.from + j \in Block(whole, b) /\ whole[a.from + j] = t[j]
        <4>1. a.from + j \in Block(whole, b)
          BY <1>2, <2>1, <3>3, <3>4, <3>5, BlockInside
        <4>2. j \in 1..Len(t)
          BY DEF Openings, Block
        <4> QED  BY <3>4, <4>1, <4>2 DEF Part
      <3>7. ~Has(t, c, "type")
        BY <3>6 DEF Has
      <3> QED  BY <3>3, <3>4, <3>5, <3>6, <3>7 DEF Accepted
    <2>3. \A k \in Block(whole, b) : whole[k].kind = "help"
      BY <2>2 DEF Vacuous
    <2>4. PICK k \in Block(whole, b) : \A j \in Block(whole, b) : j <= k
      <3>1. b \in Block(whole, b) /\ Block(whole, b) \in SUBSET (1..Len(whole))
        BY <2>1 DEF Openings, Block
      <3>2. Len(whole) \in Nat
        BY <2>1
      <3> QED  BY <3>1, <3>2, GreatestNumber
    <2>5. PICK a \in parts : \E c \in Openings(a.text) : \E i \in Block(a.text, c) :
                 /\ k = a.from + i
                 /\ Vacuous(a.text, c)
                 /\ \A j \in Block(a.text, c) : /\ a.from + j \in Block(whole, b)
                                              /\ whole[a.from + j] = a.text[j]
      BY <2>2
    <2>6. PICK c \in Openings(a.text) : \E i \in Block(a.text, c) :
                 /\ k = a.from + i
                 /\ Vacuous(a.text, c)
                 /\ \A j \in Block(a.text, c) : /\ a.from + j \in Block(whole, b)
                                              /\ whole[a.from + j] = a.text[j]
      BY <2>5
    <2>7. PICK i \in Block(a.text, c) :
                 /\ k = a.from + i
                 /\ Vacuous(a.text, c)
                 /\ \A j \in Block(a.text, c) : /\ a.from + j \in Block(whole, b)
                                              /\ whole[a.from + j] = a.text[j]
      BY <2>6
    <2>8. a.text[i].of = NoName
      <3>1. a.from \in Nat /\ c \in Nat
        BY DEF PutTogether, Part, Openings
      <3>2. \A j \in Block(a.text, c) : j <= i
        <4>1. \A j \in Block(a.text, c) : j \in Int
          BY DEF Block
        <4>2. \A j \in Block(a.text, c) : a.from + j <= a.from + i
          BY <2>4, <2>7
        <4> QED  BY <3>1, <4>1, <4>2
      <3>3. LastOf(a.text, c, "help") = a.text[i].of
        BY <2>7, <3>1, <3>2, LastLine DEF Vacuous
      <3> QED  BY <2>7, <3>3 DEF Vacuous, HelpOf, Has
    <2>9. LastOf(whole, b, "help") = whole[k].of
      BY <2>3, <2>4, LastLine DEF Openings
    <2>10. whole[k].of = NoName
      BY <2>7, <2>8
    <2> QED  BY <2>3, <2>4, <2>9, <2>10 DEF Vacuous, HelpOf, Has
  <1> QED  BY <1>2, <1>3, <1>4 DEF Alone, Accepted, PutTogether

\* Every value of a text is under some name.
LEMMA EachHasName ==
  ASSUME NEW t, Alone(t), NEW i \in 1..Len(t), t[i].kind \notin Metadata
  PROVE  \E name : Under(t, i, name)
  <1>1. t \in Seq(Line) /\ OptionFree(t) /\ Accepted(t)
    BY DEF Alone
  <1>2. PICK b \in Openings(t) : i \in Block(t, b)
    BY <1>1, InSomeBlock
  <1>3. Valued(t, i)
    BY <1>1, OpensIs
  <1> QED  BY <1>1, <1>2, <1>3, KeyIsAbove

\* A whole has the values of its parts, each under the name it has there, and
\* no others.
LEMMA ValuesOfWhole ==
  ASSUME NEW parts, NEW whole, PutTogether(parts, whole), NEW k, NEW name
  PROVE  (\E m \in MetricsOf(whole) : name = m.key /\ k \in m.value)
           <=> \E a \in parts : \E m \in MetricsOf(a.text) :
                 name = m.key /\ \E i \in m.value : k = a.from + i
  <1>1. whole \in Seq(Line) /\ OptionFree(whole) /\ Accepted(whole)
    BY WholeIsAccepted DEF Alone
  <1>2. ASSUME NEW a \in parts
        PROVE  /\ a.text \in Seq(Line) /\ OptionFree(a.text) /\ Accepted(a.text)
               /\ Part(a.text, whole, a.from) /\ a.from \in Nat
    BY DEF PutTogether, Alone, Part
  <1>3. ASSUME NEW a \in parts, NEW m \in MetricsOf(a.text), name = m.key,
               NEW i \in m.value, k = a.from + i
        PROVE  \E n \in MetricsOf(whole) : name = n.key /\ k \in n.value
    <2>1. i \in 1..Len(a.text) /\ a.text[i].kind \notin Metadata /\ Under(a.text, i, name)
      BY <1>2, <1>3, ValuesAreUnderNames
    <2>2. k \in 1..Len(whole) /\ whole[k] = a.text[i]
      BY <1>2, <1>3, <2>1 DEF Part
    <2>3. Under(whole, k, name)
      BY <1>1, <1>2, <1>3, <2>1, UnderInside
    <2> QED  BY <1>1, <2>1, <2>2, <2>3, ValuesAreUnderNames
  <1>4. ASSUME NEW m \in MetricsOf(whole), name = m.key, k \in m.value
        PROVE  \E a \in parts : \E n \in MetricsOf(a.text) :
                 name = n.key /\ \E i \in n.value : k = a.from + i
    <2>1. k \in 1..Len(whole) /\ whole[k].kind \notin Metadata /\ Under(whole, k, name)
      BY <1>1, <1>4, ValuesAreUnderNames
    <2>2. PICK a \in parts : k \in (a.from + 1)..(a.from + Len(a.text))
      BY <2>1 DEF PutTogether
    <2> DEFINE i == k - a.from
    <2>3. i \in 1..Len(a.text) /\ k = a.from + i
      BY <1>2, <2>2
    <2>4. a.text[i] = whole[k]
      BY <1>2, <2>3 DEF Part
    <2>5. PICK other : Under(a.text, i, other)
      <3>1. Alone(a.text)
        BY DEF PutTogether
      <3> QED  BY <2>1, <2>3, <2>4, <3>1, EachHasName
    <2>6. Under(whole, k, other)
      BY <1>1, <1>2, <2>3, <2>5, UnderInside
    <2>7. other = name
      BY <2>1, <2>6, UnderOneName
    <2>8. \E n \in MetricsOf(a.text) : name = n.key /\ i \in n.value
      BY <1>2, <2>1, <2>3, <2>4, <2>5, <2>7, ValuesAreUnderNames
    <2> QED  BY <2>3, <2>8
  <1> QED  BY <1>3, <1>4
=============================================================================
