----------------------------- MODULE ChildProcess -----------------------------
(***************************************************************************)
(* The calls of child_process in scan_content_with_options                 *)
(* (src/engine/src/routing/secrets.rs): which names stand for the module,  *)
(* and how deep the braces are, line by line.                              *)
(*                                                                         *)
(* A line is a sequence of tokens, each with what it is (t) and a name     *)
(* (n); what a regular expression matches is one token.  The passes that   *)
(* strip comments, mask literals, and mask literals but for what templates *)
(* compute go over a line side by side, one token a step.  The other       *)
(* patterns look at a line or a window by itself and are left out.         *)
(***************************************************************************)
EXTENDS Naturals, Sequences, FiniteSets

CONSTANTS
  ScriptLine, \* lines of JavaScript
  Name,       \* names, "child_process" among them
  MaxLines    \* bound on the lines of a file

VARIABLES
  line,  \* the tokens of the line still to be read
  pass,  \* what the passes have made of the line so far
  loop,  \* what the loop over the lines carries along
  meant  \* what JavaScript makes of the lines so far

callVars == <<line, pass, loop, meant>>

Token == [t : STRING, n : Name]

ASSUME ScriptAssumption == "child_process" \in Name /\ ScriptLine \subseteq Seq(Token)

(***************************************************************************)
(* The passes over a line                                                  *)
(***************************************************************************)
Quotes == {"quote", "tick"}
Opening == {"begin", "interpolate"}

\* is_comment_only looks at the beginning of a line alone.
IsCommentOnly(l) == l # <<>> /\ l[1].t \in {"//", "#", "*", "*/"}

\* No line is being read: neither literals nor tokens, at this depth.
NoPass(depth) ==
  [reading |-> FALSE, commented |-> FALSE, ended |-> FALSE, open |-> "code", stack |-> <<>>,
   begins |-> <<>>, first |-> <<>>, call |-> <<>>, evals |-> FALSE, requires |-> FALSE, depth |-> depth]

\* strip_js_comments drops a token: a block comment goes on in the next line, a
\* literal does not.
Dropped(tok) == pass.ended \/ loop.in \/ (pass.open = "code" /\ tok.t \in {"//", "/*"})

\* mask_string_literals keeps a token outside literals and templates.
Masks(open, tok) == open # "code" \/ tok.t \in Quotes
Opened(open, tok) == IF open = "code" THEN (IF tok.t \in Quotes THEN tok.t ELSE "code") ELSE (IF tok.t = open THEN "code" ELSE open)

\* mask_literals_preserving_interpolations: the stack holds the literals around
\* the token, and the expressions of templates with the braces open in each.
Level(in, braces) == [in |-> in, braces |-> braces]
Top(stack) == IF stack = <<>> THEN Level("code", 0) ELSE stack[Len(stack)]
Pop(stack) == SubSeq(stack, 1, Len(stack) - 1)
Runs(stack, tok) ==
  /\ Top(stack).in \in {"code", "expression"}
  /\ tok.t \notin Quotes
  /\ Top(stack).in = "expression" /\ tok.t = "end" => Top(stack).braces # 1
Stacked(stack, tok) ==
  LET top == Top(stack)
  IN CASE top.in \in Quotes /\ tok.t = top.in -> Pop(stack)
       [] top.in = "tick" /\ tok.t = "interpolate" -> Append(stack, Level("expression", 1))
       [] top.in \in {"code", "expression"} /\ tok.t \in Quotes -> Append(stack, Level(tok.t, 0))
       [] top.in = "expression" /\ tok.t \in Opening -> Append(Pop(stack), Level("expression", top.braces + 1))
       [] top.in = "expression" /\ tok.t = "end" /\ top.braces > 1 -> Append(Pop(stack), Level("expression", top.braces - 1))
       [] top.in = "expression" /\ tok.t = "end" /\ top.braces = 1 -> Pop(stack)
       [] OTHER -> stack

\* update_brace_depth
BraceDepth(depth, tok) ==
  CASE tok.t \in Opening -> depth + 1
    [] tok.t = "end" /\ depth > 0 -> depth - 1
    [] OTHER -> depth

\* The first of some tokens is remembered.
FirstOf(seen, holds, tok) == IF seen = <<>> /\ holds THEN <<tok>> ELSE seen

\* What the three passes make of a token that is not dropped, and what the
\* patterns look for in it.
Passed(p, tok) ==
  LET code == ~Masks(p.open, tok)
      runs == Runs(p.stack, tok)
  IN [p EXCEPT !.open = Opened(@, tok), !.stack = Stacked(@, tok),
               !.begins = FirstOf(@, TRUE, tok), !.first = FirstOf(@, code, tok),
               !.call = FirstOf(@, runs /\ tok.t = "call", tok),
               !.evals = @ \/ (runs /\ tok.t = "eval"),
               !.requires = @ \/ (code /\ tok.t = "require_exec"),
               !.depth = IF code THEN BraceDepth(@, tok) ELSE @]

(***************************************************************************)
(* The loop over the lines                                                 *)
(***************************************************************************)
\* child_process_bindings: a binding holds until a line ends in fewer braces than
\* it was made in.  A line makes at most one, so its number is the order.
Bound(name, depth, is, at) == [name |-> name, depth |-> depth, is |-> is, at |-> at]
Declare(bindings, b) == {c \in bindings : c.name # b.name \/ c.depth # b.depth} \cup {b}

\* The declaration or the assignment that a line begins with.
Declared(s, p) ==
  IF p.begins # <<>> /\ p.begins[1].t = "alias"
  THEN Declare(s.bindings, Bound(p.begins[1].n, s.depth, TRUE, s.lines + 1))
  ELSE IF p.first # <<>> /\ p.first[1].t \in {"alias", "declare", "assign"}
       THEN Declare(s.bindings, Bound(p.first[1].n, s.depth, FALSE, s.lines + 1))
       ELSE s.bindings

\* Fault: the outermost binding of a name counts.
StandsForChildProcess_Outermost(bindings, name) ==
  \E b \in bindings : b.name = name /\ b.is /\ \A c \in bindings : c.name = name => c.at >= b.at
StandsForChildProcess(bindings, name) ==
  \E b \in bindings : b.name = name /\ b.is /\ \A c \in bindings : c.name = name => c.at <= b.at

\* eval() first, then the first method call of the line, then a direct require.
Dangerous(bindings, p) ==
  \/ p.evals
  \/ p.call # <<>> /\ StandsForChildProcess(bindings, p.call[1].n)
  \/ p.requires

\* A line taken for a comment declares names, but its calls and its braces do not
\* count.
ScanLine(s, p) ==
  LET bindings == Declared(s, p)
  IN IF p.commented THEN [s EXCEPT !.bindings = bindings, !.lines = @ + 1, !.told = FALSE]
     ELSE [s EXCEPT !.bindings = {b \in bindings : b.depth <= p.depth}, !.lines = @ + 1,
                    !.depth = p.depth, !.told = Dangerous(bindings, p)]

(***************************************************************************)
(* What JavaScript says                                                    *)
(***************************************************************************)
\* The blocks around a place, each with what it makes of the names.
NewScope == [name \in Name |-> "unknown"]
Innermost(scopes, name) == {k \in DOMAIN scopes : scopes[k][name] # "unknown" /\ \A j \in k + 1..Len(scopes) : scopes[j][name] = "unknown"}
IsChild(scopes, name) == \E k \in Innermost(scopes, name) : scopes[k][name] = "child"
Assigned(scopes, name) ==
  IF Innermost(scopes, name) = {} THEN scopes
  ELSE LET k == CHOOSE k \in Innermost(scopes, name) : TRUE IN [scopes EXCEPT ![k][name] = "other"]

ScopesAfter(scopes, tok) ==
  LET inner == Len(scopes)
  IN CASE tok.t \in Opening -> Append(scopes, NewScope)
       [] tok.t = "end" /\ inner > 1 -> SubSeq(scopes, 1, inner - 1)
       [] tok.t = "alias" -> [scopes EXCEPT ![inner][tok.n] = "child"]
       [] tok.t = "declare" -> [scopes EXCEPT ![inner][tok.n] = "other"]
       [] tok.t = "assign" -> Assigned(scopes, tok.n)
       [] OTHER -> scopes

\* A token misleads the scanner if it opens a block or calls where the line has
\* closed one; if it names something behind the beginning of its line, in a
\* template, or as the name of an outer block; if it is a second call, or a direct
\* require in a template; if the line is taken for a comment and it counts.
Naming == {"alias", "declare", "assign"}
Counting == Opening \cup {"end", "call", "eval", "require_exec"}
MisleadingToken(m, p, tok) ==
  \/ tok.t \in Opening \cup {"call"} /\ Len(m.scopes) < m.low
  \/ tok.t \in Naming /\ (m.going \/ p.stack # <<>> \/ (tok.t = "alias" /\ p.begins # <<>>))
  \/ tok.t = "assign" /\ Innermost(m.scopes, tok.n) \notin {{}, {Len(m.scopes)}}
  \/ tok.t = "call" /\ p.call # <<>>
  \/ tok.t = "require_exec" /\ p.stack # <<>>
  \/ tok.t \in Counting /\ p.commented

\* So does a template in a template, and one that goes on in the next line.
Meaning(m, p, tok) ==
  IF Runs(p.stack, tok)
  THEN [m EXCEPT !.scopes = ScopesAfter(@, tok), !.going = TRUE,
                 !.danger = @ \/ tok.t \in {"eval", "require_exec"} \/ (tok.t = "call" /\ IsChild(m.scopes, tok.n)),
                 !.misled = @ \/ MisleadingToken(m, p, tok)]
  ELSE [m EXCEPT !.misled = @ \/ (tok.t = "tick" /\ Len(p.stack) > 1)]

(***************************************************************************)
(* The scan                                                                *)
(***************************************************************************)
CallInit ==
  /\ line = <<>>
  /\ pass = NoPass(0)
  /\ loop = [in |-> FALSE, depth |-> 0, bindings |-> {Bound("child_process", 0, TRUE, 0)}, lines |-> 0, told |-> FALSE]
  /\ meant = [scopes |-> <<[NewScope EXCEPT !["child_process"] = "child"]>>, low |-> 1, going |-> FALSE,
              danger |-> FALSE, misled |-> FALSE, dangerous |-> FALSE]

BeginLine ==
  /\ ~pass.reading /\ loop.lines < MaxLines
  /\ line' \in ScriptLine
  /\ pass' = [NoPass(loop.depth) EXCEPT !.reading = TRUE, !.commented = IsCommentOnly(line')]
  /\ UNCHANGED <<loop, meant>>

DropToken ==
  /\ line # <<>> /\ Dropped(Head(line))
  /\ line' = Tail(line)
  /\ loop' = [loop EXCEPT !.in = IF pass.ended THEN @ ELSE IF @ THEN Head(line).t # "*/" ELSE Head(line).t = "/*"]
  /\ pass' = [pass EXCEPT !.ended = @ \/ (~loop.in /\ Head(line).t = "//")]
  /\ UNCHANGED meant

ReadToken ==
  /\ line # <<>> /\ ~Dropped(Head(line))
  /\ line' = Tail(line)
  /\ pass' = Passed(pass, Head(line))
  /\ meant' = Meaning(meant, pass, Head(line))
  /\ UNCHANGED loop

EndLine ==
  /\ pass.reading /\ line = <<>>
  /\ pass' = NoPass(0)
  /\ loop' = ScanLine(loop, pass)
  /\ meant' = [meant EXCEPT !.misled = @ \/ pass.stack # <<>>, !.dangerous = meant.danger, !.danger = FALSE,
                            !.low = Len(meant.scopes), !.going = FALSE]
  /\ UNCHANGED line

CallNext == BeginLine \/ DropToken \/ ReadToken \/ EndLine

\* The calls of child_process the scanner reports are those that JavaScript's
\* blocks make calls of child_process: a name shadowed in a block is not one, and
\* is one again behind it.
CallsFollowScopes == ~meant.misled => (loop.told <=> meant.dangerous)

================================================================================
