----------------------------- MODULE SilentErrors -----------------------------
(***************************************************************************)
(* scan_silent_error_swallowing (src/engine/src/routing/secrets.rs): the   *)
(* catch blocks of JavaScript and the except suites of Python that do      *)
(* nothing with an error.  The text is masked first (build_code_context,   *)
(* mask_non_code_content), here one token a step, and then searched.       *)
(*                                                                         *)
(* A token has what it is (t) and its column (n).  Left out: the masking   *)
(* of regular expressions of JavaScript, and headers of except suites that *)
(* go on in the next line.                                                 *)
(***************************************************************************)
EXTENDS Naturals, Sequences, FiniteSets

CONSTANTS
  CatchLine,  \* lines of a JavaScript file
  ExceptLine, \* lines of a Python file
  MaxErrorLines \* bound on the lines of a file

VARIABLES
  language, \* "script" or "python"
  rest,     \* the tokens of the line still to be read
  context,  \* the state of the masking
  code,     \* the masked text of a script: its tokens, each with its line
  lines,    \* the masked text of a Python file: its lines
  blocks,   \* what JavaScript makes of the code so far
  suites    \* what Python makes of the lines so far

errorVars == <<language, rest, context, code, lines, blocks, suites>>

SourceToken == [t : STRING, n : Nat]

ASSUME SilentAssumption == CatchLine \cup ExceptLine \subseteq Seq(SourceToken)

Kinds(tokens) == {tokens[k].t : k \in DOMAIN tokens}

(***************************************************************************)
(* Comments and literals                                                   *)
(***************************************************************************)
\* Here "//", "#" and "/*" begin a comment in every language, and a literal goes
\* on in the next line.
Literal == {"quote", "tick"}
LineComment == {"//", "#"}
Keeps(state, tok) == state = "code" /\ tok.t \notin Literal \cup LineComment \cup {"/*"}
StateAfter(state, tok) ==
  CASE state \in Literal -> IF tok.t = state THEN "code" ELSE state
    [] state = "block"   -> IF tok.t = "*/" THEN "code" ELSE state
    [] state = "code" /\ tok.t \in Literal     -> tok.t
    [] state = "code" /\ tok.t \in LineComment -> "line"
    [] state = "code" /\ tok.t = "/*"          -> "block"
    [] OTHER -> state

(***************************************************************************)
(* Catch blocks                                                            *)
(***************************************************************************)
Count(tokens, t, i, j) == Cardinality({k \in i..j : tokens[k].t = t})
Balanced(tokens, i, j) == Count(tokens, "begin", i, j) = Count(tokens, "end", i, j)

\* matching_delimiter_offset takes the first of these, matching_opening_delimiter_
\* offset the last.
\* Fault: the next closing brace is taken.
MatchingClose_Next(tokens, open) == {k \in open + 1..Len(tokens) : tokens[k].t = "end"}
MatchingClose(tokens, open) == {k \in open + 1..Len(tokens) : Balanced(tokens, open, k)}
MatchingOpen(tokens, close) == {k \in 1..close - 1 : Balanced(tokens, k, close)}

IsTryBodyBefore(tokens, catch) ==
  /\ catch > 1 /\ tokens[catch - 1].t = "end"
  /\ \E open \in MatchingOpen(tokens, catch - 1) :
       /\ \A k \in MatchingOpen(tokens, catch - 1) : k <= open
       /\ open > 1 /\ tokens[open - 1].t = "try"

IsHandler(tokens, k) ==
  /\ tokens[k].t = "catch" /\ IsTryBodyBefore(tokens, k)
  /\ k < Len(tokens) /\ tokens[k + 1].t = "begin"
\* Where the body ends, if it does.
BodyEnd(tokens, k) ==
  {close \in MatchingClose(tokens, k + 1) : \A j \in MatchingClose(tokens, k + 1) : close <= j}

\* is_empty_javascript_body, is_console_only_javascript_body
IgnoredInScript == {"separator", "console"}

\* scan_javascript_catch_blocks: the search goes on behind the block it judged.
JudgedHandlers(tokens) ==
  {k \in DOMAIN tokens :
     /\ IsHandler(tokens, k) /\ BodyEnd(tokens, k) # {}
     /\ \A j \in 1..k - 1 : IsHandler(tokens, j) => \A close \in BodyEnd(tokens, j) : close < k}
SilentHandlers(tokens) ==
  {k \in JudgedHandlers(tokens) : \A close \in BodyEnd(tokens, k) : Kinds(SubSeq(tokens, k + 2, close - 1)) \subseteq IgnoredInScript}
CatchBlocks(tokens) == {tokens[k].line : k \in SilentHandlers(tokens)}

(***************************************************************************)
(* Except suites                                                           *)
(***************************************************************************)
\* python_except_header_end
IsExceptHeader(l) == l # <<>> /\ l[1].t = "except"

\* contains_only_ignored_python_statements
IgnoredInPython == {"separator", "pass", "print"}

\* scan_python_except_suites: the suite is the rest of the header's line, or the
\* lines below that are indented further; blank ones belong to it.
Deeper(text, l, m) == text[m] = <<>> \/ text[m][1].n > text[l][1].n
Below(text, l) == {m \in l + 1..Len(text) : \A i \in l + 1..m : Deeper(text, l, i)}
Suite(text, l) ==
  IF Len(text[l]) > 1 THEN Kinds(Tail(text[l])) ELSE UNION {Kinds(text[m]) : m \in Below(text, l)}
ExceptSuites(text) == {l \in DOMAIN text : IsExceptHeader(text[l]) /\ Suite(text, l) \subseteq IgnoredInPython}

(***************************************************************************)
(* What JavaScript and Python say                                          *)
(***************************************************************************)
\* A block is a catch block if its brace follows a catch that follows a closed
\* try block.  Those inside another one are not told.
Block(what, open, l) == [what |-> what, open |-> open, line |-> l, silent |-> TRUE]
Spoilt(stack, tok) ==
  IF stack = <<>> \/ tok.t \in IgnoredInScript THEN stack ELSE [stack EXCEPT ![Len(stack)].silent = FALSE]
BlocksAfter(b, at, tok) ==
  LET inner == b.stack[Len(b.stack)]
  IN CASE tok.t = "begin" ->
            [b EXCEPT !.stack = Append(Spoilt(@, tok), Block(b.prev, at, b.line)), !.prev = "none"]
       [] tok.t = "end" /\ b.stack # <<>> ->
            [b EXCEPT !.stack = SubSeq(@, 1, Len(@) - 1),
                      !.prev = IF inner.what = "try" THEN "tried" ELSE "none",
                      !.found = IF inner.what # "handler" THEN @
                                ELSE {f \in @ : f.at < inner.open} \cup (IF inner.silent THEN {[at |-> inner.open, line |-> inner.line]} ELSE {})]
       [] tok.t = "catch" ->
            [b EXCEPT !.stack = Spoilt(@, tok), !.prev = IF @ = "tried" THEN "handler" ELSE "none", !.line = tok.line]
       [] OTHER -> [b EXCEPT !.stack = Spoilt(@, tok), !.prev = IF tok.t = "try" THEN "try" ELSE "none"]

\* The headers that the last line is indented under, and those behind which a
\* line was not.
SuitesAfter(s, at, l) ==
  IF l = <<>> THEN s
  ELSE LET under == {o \in s.open : o.n < l[1].n}
       IN [found |-> s.found \cup {o.line : o \in {c \in s.open \ under : c.silent}}
                             \cup (IF IsExceptHeader(l) /\ Len(l) > 1 /\ Kinds(Tail(l)) \subseteq IgnoredInPython THEN {at} ELSE {}),
           open  |-> {[o EXCEPT !.silent = @ /\ Kinds(l) \subseteq IgnoredInPython] : o \in under}
                     \cup (IF IsExceptHeader(l) /\ Len(l) = 1 THEN {[n |-> l[1].n, line |-> at, silent |-> TRUE]} ELSE {})]
SilentSuites(s) == s.found \cup {o.line : o \in {c \in s.open : c.silent}}

\* What begins a comment or a literal for the scanner alone.
Foreign == IF language = "script" THEN {"#"} ELSE {"//", "/*", "tick"}

(***************************************************************************)
(* The scan                                                                *)
(***************************************************************************)
ErrorInit ==
  /\ language \in {"script", "python"}
  /\ rest = <<>>
  /\ context = [reading |-> FALSE, state |-> "code", line |-> 0, begun |-> FALSE, misled |-> FALSE]
  /\ code = <<>> /\ lines = <<>>
  /\ blocks = [stack |-> <<>>, prev |-> "none", line |-> 0, found |-> {}]
  /\ suites = [open |-> {}, found |-> {}]

NextLine ==
  /\ ~context.reading /\ context.line < MaxErrorLines
  /\ rest' \in (IF language = "script" THEN CatchLine ELSE ExceptLine)
  /\ context' = [context EXCEPT !.reading = TRUE, !.line = @ + 1, !.begun = FALSE,
                                !.state = IF @ = "line" THEN "code" ELSE @]
  /\ lines' = IF language = "python" THEN Append(lines, <<>>) ELSE lines
  /\ UNCHANGED <<language, code, blocks, suites>>

MaskToken ==
  /\ rest # <<>> /\ ~Keeps(context.state, Head(rest))
  /\ rest' = Tail(rest)
  /\ context' = [context EXCEPT !.state = StateAfter(@, Head(rest)), !.begun = TRUE,
                                !.misled = @ \/ (context.state = "code" /\ Head(rest).t \in Foreign)]
  /\ UNCHANGED <<language, code, lines, blocks, suites>>

\* A line of Python that begins with a literal and goes on seems to be indented.
KeepToken ==
  /\ rest # <<>> /\ Keeps(context.state, Head(rest))
  /\ rest' = Tail(rest)
  /\ IF language = "script"
     THEN LET tok == [t |-> Head(rest).t, line |-> context.line]
          IN /\ code' = Append(code, tok)
             /\ blocks' = BlocksAfter(blocks, Len(code'), tok)
             /\ context' = [context EXCEPT !.begun = TRUE]
             /\ UNCHANGED lines
     ELSE /\ lines' = [lines EXCEPT ![Len(lines)] = Append(@, Head(rest))]
          /\ context' = [context EXCEPT !.begun = TRUE, !.misled = @ \/ (context.begun /\ lines[Len(lines)] = <<>>)]
          /\ UNCHANGED <<code, blocks>>
  /\ UNCHANGED <<language, suites>>

LineRead ==
  /\ context.reading /\ rest = <<>>
  /\ context' = [context EXCEPT !.reading = FALSE]
  /\ suites' = IF language = "python" THEN SuitesAfter(suites, context.line, lines[Len(lines)]) ELSE suites
  /\ UNCHANGED <<language, rest, code, lines, blocks>>

ErrorNext == NextLine \/ MaskToken \/ KeepToken \/ LineRead

\* The errors reported as caught and forgotten are the catch blocks and except
\* suites that do nothing with them, whatever is nested around them, in comments
\* or in strings.  Premise: the language's comments are all that is taken for
\* one, and no line of Python begins with a literal and goes on.
SilenceIsFound ==
  ~context.misled /\ ~context.reading =>
    IF language = "script" THEN CatchBlocks(code) = {f.line : f \in blocks.found}
    ELSE ExceptSuites(lines) = SilentSuites(suites)

================================================================================
