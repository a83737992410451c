--------------------------- MODULE MCCommandLine ---------------------------
(***************************************************************************)
(* The machines of the docker model command on a small instance.           *)
(***************************************************************************)
EXTENDS CommandLine

MCHosts == {[scheme |-> "http", tls |-> TRUE], [scheme |-> "none", tls |-> FALSE]}
Env(host, tls, docker) == [host |-> host, tls |-> tls, docker |-> docker]
MCSettings == {Env("", "unset", "desktop"), Env("", "true", "wsl"), Env("none", "true", "moby")}

(* Two processes, each running any of the commands on the controller. *)
MCOperations == [p \in {"a", "b"} |-> {"ensure", "install", "reinstall", "uninstall"}]

(* A line of two columns beside the prompt, a history of two entries. *)
Narrow == [width |-> 1, space |-> FALSE]
Space == [width |-> 1, space |-> TRUE]
Wide == [width |-> 2, space |-> FALSE]
MCRunes == {Narrow, Space}
MCSaved == {<<<<Narrow, Narrow, Narrow>>, <<Wide>>>>}

(* Replies of the model and progress streams of the daemon, whole and broken. *)
Cont(t) == [kind |-> "content", text |-> t]
ToolPart(i, n) == [kind |-> "tool", index |-> i, name |-> n]
Fin(r) == [kind |-> "finish", reason |-> r]
Ok(chunks) == [status |-> 200, jinja |-> FALSE, chunks |-> chunks]
MCReplies == {
  Ok(<<Cont(<<"t">>), Cont(<<"f", "n">>), Cont(<<"t">>), Cont(<<"f">>), Cont(<<"n", "t">>), Fin("stop")>>),
  Ok(<<Cont(<<"t", "f">>), Cont(<<"t">>)>>),
  Ok(<<Cont(<<"t">>), ToolPart(0, "websearch"), ToolPart(1, "other"), Fin("tool_calls")>>),
  Ok(<<ToolPart(1, "websearch"), Fin("tool_calls")>>),
  [status |-> 500, jinja |-> TRUE, chunks |-> <<>>],
  [status |-> 500, jinja |-> FALSE, chunks |-> <<>>]}
Stream(s, l, b) == [status |-> s, lines |-> l, broken |-> b]
MCStreams == {
  Stream(200, <<"progress", "success">>, FALSE), Stream(200, <<"progress">>, TRUE),
  Stream(200, <<"garbage">>, FALSE), Stream(200, <<"progress", "error">>, FALSE),
  Stream(200, <<>>, FALSE), Stream(503, <<>>, FALSE), Stream(404, <<>>, FALSE)}
MCLineKinds == {"text", "open", "close", "pasted", "set", "interrupt"}

(* A model of two layers. *)
MCLayers == <<"l1", "l2">>
=============================================================================
