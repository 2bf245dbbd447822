---------------------------- MODULE Requirements ----------------------------
(***************************************************************************)
(* The runner's check of a requirements list (deps_runner.py), next to     *)
(* pip's own reading of the same text, over all short texts: a text is     *)
(* typed piece by piece.  A piece is a character the two readings tell     *)
(* apart; "r" and "C" stand for the options -r (forbidden) and -C (fine,   *)
(* with a value), "--pre" for one that is fine on a line of its own.       *)
(* Loops over a text are functions of how far it has been read.            *)
(***************************************************************************)
EXTENDS Naturals, FiniteSets, SequencesExt

CONSTANT MaxPieces   \* bound: length of the text

VARIABLE list        \* the text

Dashes == {"-", "--pre"}      \* what startswith("-") is true of
Pieces == {"newline", "blank", "#", "backslash", "quote", "r", "C", "p"} \cup Dashes

ListInit == list = <<>>
Type(piece) == Len(list) < MaxPieces /\ list' = Append(list, piece)
Empty == list # <<>> /\ list' = <<>>
ListNext == Empty \/ \E piece \in Pieces : Type(piece)

----------------------------------------------------------------------------
(* Lines and tokens                                                        *)

Split(lines, x) == IF x = "newline" THEN Append(lines, <<>>) ELSE [lines EXCEPT ![Len(lines)] = Append(@, x)]
PhysicalLines(text) ==
    LET read[n \in 0..Len(text)] == IF n = 0 THEN <<<<>>>> ELSE Split(read[n - 1], text[n])
    IN  read[Len(text)]

\* The tokens of line.split(): where they begin, where they end, and the one that ends at n.
Begins(line)   == {i \in DOMAIN line : line[i] # "blank" /\ (i = 1 \/ line[i - 1] = "blank")}
Ends(line)     == {i \in DOMAIN line : line[i] # "blank" /\ (i = Len(line) \/ line[i + 1] = "blank")}
Token(line, n) == SubSeq(line, Max({i \in Begins(line) : i <= n}), n)

Blank(line)      == Begins(line) = {}
HasPackage(line) == \E i \in Begins(line) : line[i] \notin Dashes /\ \A j \in 1..i - 1 : line[j] = "blank"

\* COMMENT_RE: matched at the start of a line, and cut from it.
IsComment(line) == \E i \in Begins(line) : line[i] = "#" /\ \A j \in 1..i - 1 : line[j] = "blank"
CutComment(line) ==
    LET hits == {i \in Begins(line) : line[i] = "#"}
    IN  IF hits = {} THEN line ELSE SubSeq(line, 1, Min(hits) - 1)

Continued(line) == line # <<>> /\ Last(line) = "backslash" /\ ~IsComment(line)
Trimmed(line) ==      \* line.strip("\\")
    LET kept == {i \in DOMAIN line : line[i] # "backslash"}
    IN  IF kept = {} THEN <<>> ELSE SubSeq(line, Min(kept), Max(kept))

\* What a physical line adds to its logical one.
Part(line) == IF Continued(line) THEN Trimmed(line) ELSE IF IsComment(line) THEN <<"blank">> \o line ELSE line

\* _logical_lines: pending holds the parts of a line that goes on.
Yield(out, whole) == IF Blank(CutComment(whole)) THEN out ELSE Append(out, CutComment(whole))
Join(acc, line) ==
    IF Continued(line) THEN [acc EXCEPT !.pending = @ \o Part(line)]
    ELSE [pending |-> <<>>, out |-> Yield(acc.out, acc.pending \o Part(line))]
LogicalLines(text) ==
    LET lines == PhysicalLines(text)
        read[n \in 0..Len(lines)] ==
          IF n = 0 THEN [pending |-> <<>>, out |-> <<>>] ELSE Join(read[n - 1], lines[n])
        all == read[Len(lines)]
    IN  Yield(all.out, all.pending)

----------------------------------------------------------------------------
(* validate_requirements                                                   *)

MutantBare(token) == token
Unquoted(bare, x) == IF x \in {"quote", "backslash"} THEN bare ELSE Append(bare, x)
Bare(token) ==
    LET bare[n \in 0..Len(token)] == IF n = 0 THEN <<>> ELSE Unquoted(bare[n - 1], token[n])
    IN  bare[Len(token)]

Starts(token) == token # <<>> /\ token[1] \in Dashes      \* token.startswith("-")
Long(token)   == Starts(token) /\ (token[1] = "--pre" \/ (Len(token) > 1 /\ token[2] \in Dashes))

\* The long option's name, in lower case ("C" is told apart from no other letter here).
Name(bare) == IF bare[1] = "--pre" \/ bare[2] = "--pre" THEN bare ELSE SubSeq(bare, 3, Len(bare))

\* _forbidden_option: abbreviations of --requirement, --constraint and --prefix among them.
ForbiddenOption(token) ==
    LET bare == Bare(token) IN
    IF Long(bare) THEN Name(bare) \in {<<"r">>, <<"C">>, <<"p">>}
    ELSE Starts(bare) /\ Len(bare) > 1 /\ bare[2] = "r"

\* _takes_separate_value and _ignored_on_package_line.
TakesSeparateValue(token) ==
    Bare(token) = <<"-", "C">> \/ (Long(Bare(token)) /\ Name(Bare(token)) = <<"C">>)
IgnoredOnPackageLine(token) ==
    LET bare == Bare(token) IN
    IF Long(bare) THEN Name(bare) \notin {<<>>, <<"C">>}
    ELSE Starts(bare) /\ Len(bare) > 1 /\ bare[2] # "C"

\* _package_and_options, which is pip's break_args_options: the package ends where the
\* first token begins that starts with "-".
OptionPart(line) ==
    LET at == {i \in Begins(line) : line[i] \in Dashes}
    IN  IF at = {} THEN <<>> ELSE SubSeq(line, Min(at), Len(line))

\* The token after -C is its value, whatever it looks like.
ValueNext(options, n, value) ==
    IF n \in Ends(options) THEN ~value /\ TakesSeparateValue(Token(options, n)) ELSE value
SomeIgnored(options) ==
    LET value[n \in 0..Len(options)] == IF n = 0 THEN FALSE ELSE ValueNext(options, n, value[n - 1])
    IN  \E n \in Ends(options) : ~value[n - 1] /\ IgnoredOnPackageLine(Token(options, n))

Accepted(text) ==
    \A n \in DOMAIN LogicalLines(text) :
        LET line == LogicalLines(text)[n] IN
        /\ \A i \in Ends(line) : ~ForbiddenOption(Token(line, i))
        /\ HasPackage(line) => ~SomeIgnored(OptionPart(line))

\* requirement_count (and has_requirements: more than none).
RequirementCount(text) == Cardinality({n \in DOMAIN LogicalLines(text) : HasPackage(LogicalLines(text)[n])})

----------------------------------------------------------------------------
(* pip (req_file.py, shlex, optparse), as the comments of deps_runner.py   *)
(* describe it                                                             *)

\* The physical lines from..to that pip joins.
Runs(lines) ==
    {run \in (1..Len(lines)) \X (1..Len(lines)) :
        /\ run[1] <= run[2]
        /\ run[1] = 1 \/ ~Continued(lines[run[1] - 1])
        /\ \A k \in run[1]..run[2] - 1 : Continued(lines[k])
        /\ run[2] = Len(lines) \/ ~Continued(lines[run[2]])}
Joined(lines, run) ==
    LET length == run[2] - run[1] + 1
        whole[k \in 0..length] == IF k = 0 THEN <<>> ELSE whole[k - 1] \o Part(lines[run[1] + k - 1])
    IN  CutComment(whole[length])
PipLines(text) == {Joined(PhysicalLines(text), run) : run \in Runs(PhysicalLines(text))}

\* shlex.split: quotes group and vanish, a backslash escapes; "open" at the end is an error.
Put(acc, x) == [acc EXCEPT !.word = Append(@, x), !.some = TRUE, !.escape = FALSE]
End(acc) == IF acc.some THEN [acc EXCEPT !.words = Append(@, acc.word), !.word = <<>>, !.some = FALSE] ELSE acc
Read(acc, x) ==
    CASE acc.escape -> IF acc.quoted /\ x \notin {"backslash", "quote"} THEN Put(Put(acc, "backslash"), x) ELSE Put(acc, x)
      [] ~acc.escape /\ x = "backslash" -> [acc EXCEPT !.escape = TRUE]
      [] ~acc.escape /\ x = "quote" -> [acc EXCEPT !.quoted = ~@, !.some = TRUE]
      [] ~acc.escape /\ x = "blank" /\ ~acc.quoted -> End(acc)
      [] OTHER -> Put(acc, x)
Shlex(s) ==
    LET none == [words |-> <<>>, word |-> <<>>, some |-> FALSE, quoted |-> FALSE, escape |-> FALSE]
        read[n \in 0..Len(s)] == IF n = 0 THEN none ELSE Read(read[n - 1], s[n])
        all == read[Len(s)]
    IN  [words |-> End(all).words, open |-> all.quoted \/ all.escape]

\* optparse: -r and -C take the rest of the token or the next one; "--" ends the options;
\* what it does not know ends pip.
Take(acc, w) ==
    IF acc.error \/ acc.done THEN acc
    ELSE IF acc.value THEN [acc EXCEPT !.value = FALSE]
    ELSE CASE w = <<"-", "-">> -> [acc EXCEPT !.done = TRUE]
           [] w = <<"--pre">> -> [acc EXCEPT !.opts = @ \cup {"pre"}]
           [] Long(w) /\ w \notin {<<"-", "-">>, <<"--pre">>} -> [acc EXCEPT !.error = TRUE]
           [] ~Long(w) /\ Starts(w) /\ Len(w) > 1 ->
                IF w[2] \in {"r", "C"} THEN [acc EXCEPT !.opts = @ \cup {w[2]}, !.value = Len(w) = 2]
                ELSE [acc EXCEPT !.error = TRUE]
           [] OTHER -> acc
Optparse(words) ==
    LET none == [error |-> FALSE, done |-> FALSE, value |-> FALSE, opts |-> {}]
        read[n \in 0..Len(words)] == IF n = 0 THEN none ELSE Take(read[n - 1], words[n])
    IN  read[Len(words)]

\* What pip sees of options in a line.
PipWords(line)   == Shlex(OptionPart(line)).words
PipOptions(line) ==
    LET all == Optparse(PipWords(line))
    IN  IF Shlex(OptionPart(line)).open \/ all.error \/ all.value THEN {"error"} ELSE all.opts

----------------------------------------------------------------------------
(* Properties                                                              *)

\* The words pip gets are free of what quotes and backslashes can put into them.
Plain(line) ==
    \A n \in DOMAIN PipWords(line) : \A k \in DOMAIN PipWords(line)[n] :
        PipWords(line)[n][k] \notin {"blank", "backslash", "quote"}

\* In an accepted list pip sees no forbidden option, and beside a package none that it
\* would ignore.
AcceptedIsHarmless ==
    Accepted(list) => \A line \in PipLines(list) :
        /\ "r" \notin PipOptions(line)
        /\ HasPackage(line) /\ Plain(line) => "pre" \notin PipOptions(line)

\* The number of packages, and with it whether there is anything to install, is pip's.
CountIsPips ==
    RequirementCount(list) =
        Cardinality({run \in Runs(PhysicalLines(list)) : HasPackage(Joined(PhysicalLines(list), run))})

\* "The checks below follow the same steps, so an option cannot be hidden from them by a
\* ... continuation, quotes or an abbreviation" (deps_runner.py:117): whatever is typed,
\* the runner's reading of a list and pip's agree on what is forbidden, what is there to
\* install, and on what would be ignored as long as no word pip gets holds a blank, a
\* quote or a backslash.
ReadAsPipDoes == AcceptedIsHarmless /\ CountIsPips

\* The comment makes no such exception: nothing ignored beside a package is hidden by
\* quotes either.
NoneHidden ==
    Accepted(list) => \A line \in PipLines(list) : HasPackage(line) => "pre" \notin PipOptions(line)
=============================================================================
