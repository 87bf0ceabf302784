------------------------------- MODULE MCAnalysis -------------------------------
(***************************************************************************)
(* Analysis for TLC: small projects, each with something for one of the    *)
(* passes to find.                                                         *)
(***************************************************************************)
EXTENDS Answers

Files == {"views", "urls", "util", "lib", "page", "cart", "pay", "srv", "dep"}
Paths == [f \in Files |->
  CASE f = "views" -> <<"shop", "views">> [] f = "urls" -> <<"shop", "urls">>
    [] f = "util"  -> <<"web", "util">>   [] f = "lib"  -> <<"api", "util">>
    [] f = "page"  -> <<"page">>          [] f = "cart" -> <<"routes", "cart">>
    [] f = "pay"   -> <<"pay">>           [] f = "srv"  -> <<"srv">>
    [] f = "dep"   -> <<"venv", "dep">>]
Langs == [f \in Files |->
  CASE f \in {"views", "urls", "dep"} -> "python" [] f \in {"util", "lib", "page"} -> "typescript"
    [] f = "cart" -> "rb" [] f = "pay" -> "java" [] f = "srv" -> "go"]
Roots == <<"", "w">>

Fact(what, ref, within) == [what |-> what, ref |-> ref, within |-> within, url |-> ref]
Define(name) == Fact("function", <<name>>, <<>>)
In(within, what, name) == Fact(what, <<name>>, <<within>>)

\* A Django project: routes with and without a handler, and a name of another file.
Django == "views" :> <<Define("list"), Fact("import", <<"shop", "urls">>, <<>>)>>
       @@ "urls"  :> <<Fact("from", <<"views", "list">>, <<>>), Fact("path", <<"views", "list">>, <<>>), Fact("path", <<"gone">>, <<>>)>>
       @@ "dep"   :> <<Define("list")>>
\* Functions that share a variable of the module, and a class with a field.
Shared == "views" :> <<Fact("variable", <<"cache">>, <<>>), Define("get"), In("get", "read", "cache"), In("get", "end", "cache"),
                       Define("put"), In("put", "write", "cache"), In("put", "call", "get"), In("put", "call", "sort"), In("put", "end", "cache"),
                       Fact("class", <<"Cart">>, <<>>), In("Cart", "field", "items")>>
\* TypeScript files of one base name, callbacks and promises.
Script == "util" :> <<Define("run"), In("run", "callback", "done")>>
       @@ "lib"  :> <<Define("run"), Define("done"), In("done", "then", "run")>>
       @@ "page" :> <<Fact("import", <<"./util">>, <<>>), Fact("call", <<"util", "run">>, <<>>), Fact("nest decorator", <<"run">>, <<>>)>>
\* Two other frameworks, a route named like its handler among them, and a function
\* whose name ends like the handler's.
Others == "pay"  :> <<Fact("class", <<"Pay">>, <<>>), Fact("mapping", <<"Pay">>, <<>>)>>
       @@ "srv"  :> <<Define("main"), Define("domain"), Fact("verb", <<"main">>, <<>>)>>
\* Two classes of one name, and routes without a handler.
Twins == "cart" :> <<Fact("class", <<"Cart">>, <<>>), Fact("namespace", <<"admin">>, <<>>)>>
      @@ "views" :> <<Fact("class", <<"Cart">>, <<>>), Fact("base", <<"Cart">>, <<"Cart">>)>>
Projects == {Twins, Django, Shared, Script, Others}

Texts == {<<Define("list"), Define("put"), In("put", "call", "list")>>, <<Fact("function", <<"">>, <<>>)>>}
Endings == {<<"domain", "main">>}
Widths == <<1, 3, 1, 7, 2, 1, 3, 2, 1, 1, 2>>
NewNames == {<<"put">>}
================================================================================
