------------------------------ MODULE McpCommand ------------------------------
(***************************************************************************)
(* find_risky_mcp_invocation (src/engine/src/routing/secrets.rs): is the   *)
(* command of an MCP server risky?  The command is parsed into segments of *)
(* arguments; the configuration's arguments join the last segment one by   *)
(* one, and the search ends with the first that makes the command risky.   *)
(***************************************************************************)
EXTENDS Naturals, Sequences, FiniteSets

CONSTANTS
  Command,  \* commands: sequences of segments
  Argument, \* arguments of the configuration
  MaxArguments \* bound on the arguments of a segment

VARIABLES
  command, \* the segments, with the arguments so far
  judged   \* has the command been found risky?

mcpVars == <<command, judged>>

\* An argument has what it is (t), whether it begins with a dash (option), and
\* whether it lies in a directory for temporary files (tmp).
ShellToken == [t : STRING, option : BOOLEAN, tmp : BOOLEAN]
Segment == Seq(ShellToken)

ASSUME McpAssumption ==
  /\ Command \subseteq Seq(Segment)
  /\ Argument \subseteq ShellToken

\* shell_command_index: behind the assignments.
CommandIndex(segment) ==
  {k \in DOMAIN segment : segment[k].t # "assignment" /\ \A j \in 1..k - 1 : segment[j].t = "assignment"}

\* A loop from `first` on that takes an option and its value in one step comes by
\* position k, unless k holds the value: options in an odd number lead up to it.
ComesBy(args, first, k, option) ==
  ~ \E j \in first..k - 1 :
      /\ (k - j) % 2 = 1
      /\ \A i \in j..k - 1 : args[i].t = option
      /\ j = first \/ args[j - 1].t # option

\* env_wrapped_executable_index: the argument at which the loop over env's own
\* ends, unless it is an option; behind "--" there are only assignments.
EnvOwn == {"assignment", "-i", "-u"}
Own(segment, first, k) == \A j \in first..k - 1 : ComesBy(segment, first, j, "-u") => segment[j].t \in EnvOwn
EnvWrapped(segment, first) ==
  {k \in first..Len(segment) :
     \/ /\ ComesBy(segment, first, k, "-u") /\ Own(segment, first, k)
        /\ segment[k].t \notin EnvOwn \cup {"--"} /\ ~segment[k].option
     \/ /\ segment[k].t # "assignment"
        /\ \E d \in first..k - 1 :
             /\ ComesBy(segment, first, d, "-u") /\ Own(segment, first, d) /\ segment[d].t = "--"
             /\ \A j \in d + 1..k - 1 : segment[j].t = "assignment"}

\* shell_executable_index
ExecutableIndex(segment) ==
  UNION {IF segment[k].t = "env" THEN EnvWrapped(segment, k + 1) ELSE {k} : k \in CommandIndex(segment)}

\* shell_command_option_is_risky: -c, alone or bundled, before the first operand.
\* Fault: only the last argument is looked at.
ShellOption_Last(args) == args # <<>> /\ args[Len(args)].t = "-c"
ShellOption(args) == \E k \in DOMAIN args : args[k].t = "-c" /\ \A j \in 1..k - 1 : args[j].option /\ args[j].t # "--"

\* node_options_are_risky: --inspect-brk, or -e with an expression.
NodeOptions(args) ==
  \E k \in DOMAIN args :
    /\ args[k].t = "--inspect-brk" \/ (args[k].t = "-e" /\ k < Len(args))
    /\ ComesBy(args, 1, k, "-r")
    /\ \A j \in 1..k - 1 : ComesBy(args, 1, j, "-r") => args[j].t = "-r" \/ (args[j].option /\ args[j].t # "--")

SegmentIsRisky(segment) ==
  \/ \E k \in CommandIndex(segment) : segment[k].tmp
  \/ \E k \in ExecutableIndex(segment) :
       LET args == SubSeq(segment, k + 1, Len(segment))
       IN \/ segment[k].tmp
          \/ segment[k].t \in {"curl", "eval"}
          \/ segment[k].t = "bash" /\ ShellOption(args)
          \/ segment[k].t = "node" /\ NodeOptions(args)

\* shell_segments_are_risky
Risky(segments) == \E s \in DOMAIN segments : SegmentIsRisky(segments[s])

McpInit == command \in Command /\ judged = Risky(command)

PushArgument ==
  /\ command # <<>> /\ Len(command[Len(command)]) < MaxArguments
  /\ \E arg \in Argument : command' = [command EXCEPT ![Len(command)] = Append(@, arg)]
  /\ judged' = (judged \/ Risky(command'))

\* Stopping at the first argument that makes a command risky misses nothing and
\* accuses nobody: the command is risky with all its arguments if and only if it
\* was with some of them.
RiskIsKept == judged <=> Risky(command)

================================================================================
