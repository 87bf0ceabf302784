-------------------------------- MODULE MCScan ---------------------------------
(* Lines of JavaScript and Python, and arguments, for TLC. *)
EXTENDS Scan

W(t) == [t |-> t, n |-> ""]
N(t, n) == [t |-> t, n |-> n]
P(t, column) == [t |-> t, n |-> column]
A(t, option, tmp) == [t |-> t, option |-> option, tmp |-> tmp]

MCName == {"", "cp", "child_process"}
Scopes ==
  {<<W("begin")>>, <<W("end")>>, <<W("end"), W("begin")>>,
   <<N("alias", "cp")>>, <<N("declare", "cp")>>, <<N("assign", "cp")>>,
   <<N("call", "cp")>>, <<W("*"), N("call", "cp")>>, <<W("begin"), W("end"), N("declare", "cp"), W("end")>>}
Masked ==
  {<<N("alias", "cp"), W("/*")>>, <<W("*/"), N("declare", "cp")>>,
   <<W("//"), W("begin")>>, <<W("#"), W("begin")>>, <<N("call", "child_process"), N("call", "cp")>>, <<W("require_exec")>>,
   <<W("quote"), W("quote"), N("alias", "cp")>>,
   <<W("quote"), W("//"), W("begin"), W("quote"), N("call", "cp"), W("//"), W("eval")>>}
Templates ==
  {<<W("tick"), W("interpolate"), N("call", "cp"), W("begin"), W("quote"), W("end"), W("quote"), W("end"), W("end"), W("eval"), W("tick")>>,
   <<W("tick"), W("interpolate"), N("assign", "cp"), W("end"), W("tick")>>,
   <<W("tick"), W("interpolate"), W("tick"), N("call", "cp"), W("end"), W("tick")>>,
   <<W("tick"), W("interpolate"), W("begin")>>,
   <<W("tick"), W("interpolate"), W("require_exec"), W("end"), W("tick")>>}
MCScriptLine == Scopes \cup Masked \cup Templates

MCCatchLine ==
  {<<P("try", 0), P("begin", 4)>>, <<P("end", 0), P("catch", 2), P("begin", 8)>>, <<P("end", 0)>>, <<P("begin", 0)>>,
   <<P("try", 0), P("begin", 4), P("end", 5), P("catch", 7), P("begin", 13)>>,
   <<P("console", 2), P("separator", 9)>>, <<P("work", 2)>>, <<P("//", 0), P("end", 3)>>,
   <<P("quote", 0), P("end", 1), P("quote", 2)>>, <<P("#", 0), P("end", 1)>>}
MCExceptLine ==
  {<<P("try", 0)>>, <<P("except", 0)>>, <<P("except", 2)>>, <<P("except", 0), P("pass", 8)>>,
   <<P("pass", 4)>>, <<P("work", 2)>>, <<P("print", 2), P("separator", 5), P("pass", 6)>>,
   <<P("#", 0), P("work", 2)>>, <<P("quote", 2)>>, <<P("quote", 0), P("quote", 3), P("work", 4)>>,
   <<P("work", 2), P("//", 3), P("pass", 4)>>}

bash == A("bash", FALSE, FALSE)
assignment == A("assignment", FALSE, FALSE)
MCCommand ==
  {<<>>, <<<<bash>>>>, <<<<A("node", FALSE, FALSE)>>>>, <<<<A("env", FALSE, FALSE)>>>>, <<<<assignment>>>>,
   <<<<bash>>, <<A("other", FALSE, FALSE)>>>>, <<<<bash, A("-c", TRUE, FALSE)>>, <<A("other", FALSE, FALSE)>>>>}
MCArgument ==
  {bash, assignment, A("-c", TRUE, FALSE), A("--", TRUE, FALSE), A("-e", TRUE, FALSE), A("-r", TRUE, FALSE),
   A("-u", TRUE, FALSE), A("-i", TRUE, FALSE), A("--inspect-brk", TRUE, FALSE), A("curl", FALSE, FALSE), A("other", FALSE, TRUE), A("other", FALSE, FALSE)}

================================================================================
