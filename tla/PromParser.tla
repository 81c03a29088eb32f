----------------------------- MODULE PromParser -----------------------------
(***************************************************************************)
(* promToMetrics (lib/instrumenter/lib/parse-common.js): the reader of the *)
(* text that plugins and the metric ports of core zones print.  It is one  *)
(* synchronous loop; one round of it is a step here, and whoever uses the  *)
(* module lets nothing else happen while it is "reading".                  *)
(*                                                                         *)
(* A text is a sequence of its lines without the empty ones, which are     *)
(* skipped.  Of a line the model keeps what kind it is and the name it is  *)
(* about.  A metric's value, a string of lines, is the set of the numbers  *)
(* of those lines.                                                         *)
(***************************************************************************)
EXTENDS Integers, Sequences, Functions

CONSTANTS
    Names,     \* metric names
    NoName     \* a name or a help text that has not been assigned

ASSUME NameAssumption == NoName \notin Names

VARIABLES
    text,      \* the lines of opts.output
    pos,       \* idx: how many of them have been read
    parser     \* the other local variables

parserVars == <<text, pos, parser>>

\* "badtype": a TYPE line with a type or a name that is refused; "badoption":
\* an OPTION line that is refused; "comment": any other line with "# " first.  The
\* help text of a HELP line may be empty, which is the same as none.
Line == [kind : {"help", "type", "badtype", "option", "badoption", "comment", "sample"},
         of : Names] \cup [kind : {"help"}, of : {NoName}]

\* The lines about a metric; all others go into its value, late options too.
Metadata == {"help", "type", "badtype"}

Options == {"option", "badoption"}

NewMetric == [key |-> NoName, help |-> NoName, value |-> {}]

NotParsing ==
    [status |-> "off", optionsChecked |-> FALSE, parsingValues |-> FALSE,
     option |-> 0, current |-> NewMetric, metrics |-> <<>>]

Failed(p) == [p EXCEPT !.status = "failed"]

ParseFromSecond(lines) ==                                            \* slip
    /\ text' = lines
    /\ pos' = 1
    /\ parser' = [NotParsing EXCEPT !.status = "reading"]
\* The lines of the output, about to be read.
Parse(lines) ==
    /\ text' = lines
    /\ pos' = 0
    /\ parser' = [NotParsing EXCEPT !.status = "reading"]

ForgetParse ==
    /\ text' = <<>>
    /\ pos' = 0
    /\ parser' = NotParsing

-----------------------------------------------------------------------------

\* A metric without a HELP line gets its name for a help text.
Helped(m) == IF m.help = NoName THEN [m EXCEPT !.help = m.key] ELSE m

Typed(m) == m.key # NoName

KeepTyped(p) ==                                                      \* slip
    IF Typed(p.current)
    THEN [p EXCEPT !.parsingValues = FALSE,
                   !.metrics = Append(@, Helped(p.current)),
                   !.current = [NewMetric EXCEPT !.key = p.current.key]]
    ELSE Failed(p)
\* A line with "# " first after a line of values ends the metric.
EndMetric(p) ==
    IF Typed(p.current)
    THEN [p EXCEPT !.parsingValues = FALSE,
                   !.metrics = Append(@, Helped(p.current)),
                   !.current = NewMetric]
    ELSE Failed(p)

\* What the line adds to the current metric.
Take(p, line, i) ==
    CASE line.kind = "help"    -> [p EXCEPT !.current.help = line.of]
      [] line.kind = "type"    -> [p EXCEPT !.current.key = line.of]
      [] line.kind = "badtype" -> Failed(p)
      [] OTHER -> [p EXCEPT !.parsingValues = TRUE, !.current.value = @ \cup {i}]

\* Only what comes before the first line of another kind is an option.
IsOption(line) == ~parser.optionsChecked /\ line.kind \in Options

ReadOption ==
    /\ parser.status = "reading"
    /\ pos < Len(text)
    /\ IsOption(text[pos + 1])
    /\ pos' = pos + 1
    /\ parser' = IF text[pos + 1].kind = "option"
                 THEN [parser EXCEPT !.option = pos + 1]
                 ELSE Failed(parser)
    /\ UNCHANGED text

EndsMetric(line) == parser.parsingValues /\ line.kind # "sample"

ReadLine ==
    /\ parser.status = "reading"
    /\ pos < Len(text)
    /\ ~IsOption(text[pos + 1])
    /\ pos' = pos + 1
    /\ LET line == text[pos + 1]
           p    == [parser EXCEPT !.optionsChecked = TRUE]
           q    == IF EndsMetric(line) THEN EndMetric(p) ELSE p
       IN  parser' = IF q.status = "failed" THEN q ELSE Take(q, line, pos + 1)
    /\ UNCHANGED text

\* After the last line: a help text or values without a TYPE line are refused.
EndOfText ==
    /\ parser.status = "reading"
    /\ pos = Len(text)
    /\ parser' =
         IF Typed(parser.current)
         THEN [parser EXCEPT !.status = "done",
                             !.metrics = Append(@, Helped(parser.current))]
         ELSE IF parser.current = NewMetric
              THEN [parser EXCEPT !.status = "done"]
              ELSE Failed(parser)
    /\ UNCHANGED <<text, pos>>

ParseStep == ReadOption \/ ReadLine \/ EndOfText

-----------------------------------------------------------------------------
(* Properties                                                              *)

\* The first i lines are options.
Leading(t, i) == \A j \in 1..i : t[j].kind = "option"

Valued(t, i) == ~Leading(t, i) /\ t[i].kind \notin Metadata

\* Line i opens a block: it is the first after the options, or has "# " first
\* and comes after a line of values.
Opens(t, i) ==
    /\ ~Leading(t, i)
    /\ Leading(t, i - 1) \/ (Valued(t, i - 1) /\ t[i].kind # "sample")

Openings(t) == {i \in 1..Len(t) : Opens(t, i)}

\* The lines of the block that line b opens.
Block(t, b) == {i \in b..Len(t) : \A j \in (b + 1)..i : ~Opens(t, j)}

\* A line that is refused wherever it is met, or where an option may be.
Refused(t, i) ==
    \/ t[i].kind = "badtype"
    \/ t[i].kind = "badoption" /\ Leading(t, i - 1)

\* The name on the last line of that kind in the block.
LastOf(t, b, kind) ==
    LET lines == {i \in Block(t, b) : t[i].kind = kind}
    IN  t[CHOOSE i \in lines : \A j \in lines : j <= i].of

Has(t, b, kind) == \E i \in Block(t, b) : t[i].kind = kind

HelpOf(t, b) == IF Has(t, b, "help") THEN LastOf(t, b, "help") ELSE NoName

\* A text may end in HELP lines of which the last is empty.
Vacuous(t, b) == (\A i \in Block(t, b) : t[i].kind = "help") /\ HelpOf(t, b) = NoName

Accepted(t) ==
    /\ \A i \in 1..Len(t) : ~Refused(t, i)
    /\ \A b \in Openings(t) : Has(t, b, "type") \/ Vacuous(t, b)

MetricOf(t, b) ==
    [key   |-> LastOf(t, b, "type"),
     help  |-> IF HelpOf(t, b) = NoName THEN LastOf(t, b, "type") ELSE HelpOf(t, b),
     value |-> {i \in Block(t, b) : Valued(t, i)}]

MetricsOf(t) == {MetricOf(t, b) : b \in {c \in Openings(t) : Has(t, c, "type")}}

Parsed == parser.status \in {"done", "failed"}

\* promToMetrics reads a text by its blocks, a block being some lines of
\* metadata and the lines of values after them: every block needs a TYPE line
\* and makes one metric, with the last name and help text of its metadata and
\* all of its values.  No value is lost, taken twice or put under another
\* block's name, and nothing is refused for another reason; only a text's last
\* HELP lines may come to nothing, if they end in an empty one.
ParsesByBlocks ==
    Parsed =>
      /\ parser.status = "done" <=> Accepted(text)
      /\ parser.status = "done" => Range(parser.metrics) = MetricsOf(text)
=============================================================================
