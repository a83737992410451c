----------------------------- MODULE MCServices -----------------------------
(***************************************************************************)
(* Small instances of the machines of Services for TLC.                    *)
(***************************************************************************)
EXTENDS Services

(* One answer with two interleaved calls between two pieces of text, the last
   piece of one call without its id, streamed in any parts; one whose stream has
   a line that is not JSON; and an error.  The second of three responses is
   streamed. *)
TextLine(c) == [k |-> "text", a |-> "", b |-> c]
Tool(i, id, c) == [k |-> "tool", a |-> id, b |-> c, i |-> i]
Final(k, why) == [k |-> k, a |-> why, b |-> ""]
MCAnswers == {
  [status |-> 200,
   lines |-> <<TextLine("a"), Tool(0, "t", "x"), Tool(1, "u", ""), Tool(0, "t", "z"), Tool(1, "", "y"),
               TextLine("b"), Final("finish", "content_filter"), Final("done", "")>>],
  [status |-> 200, lines |-> <<TextLine("a"), Final("bad", ""), Final("done", "")>>],
  [status |-> 500, lines |-> <<>>]}

(* Two requests by one name: one of the Anthropic API, and another of the same mode
   or a different one. *)
MCBodyOf == <<
  [origin |-> "anthropic", modes |-> {"m1"}, status |-> 200, lines |-> <<"start", "a", "done", "b">>],
  [origin |-> "", modes |-> {"m1", "m2"}, status |-> 200, lines |-> <<"c", "done", "d">>]>>

(* A name that moves between a model for llama.cpp and one for MLX. *)
MCFormatOf == [g |-> "gguf", s |-> "safetensors"]
MCKinds == {"infer", "chat", "configure", "unload", "delete", "uninstall", "install"}
MCScripts == {<<"a", "note", "done">>}

(* Two repositories with one short name. *)
MCTags == {"ai/x:latest", "me/x:latest"}
MCNameOf == [t \in MCTags |-> "x"]
MCLatestOf == [n \in {"x"} |-> "ai/x:latest"]
MCKept == {[t \in MCTags |-> ""], [t \in MCTags |-> IF t = "me/x:latest" THEN "m1" ELSE ""]}

(* Weights at the top and in directories that sort before and after them,
   templates, a projector, a license, a config. *)
F(dir, n, ext, word) == [dir |-> dir, n |-> n, ext |-> ext, word |-> word]
MCFiles == {
  F("", 41, "safetensors", ""), F("audio", 1, "safetensors", ""), F("vae", 1, "gguf", ""),
  F("", 42, "dduf", ""), F("", 43, "gguf", "mmproj"), F("", 44, "jinja", ""),
  F("", 45, "json", "chat_template"), F("", 48, "jinja", ""), F("", 46, "txt", "license"),
  F("", 47, "json", "")}
G(n) == F("", n, "gguf", "")
MCShards == {<<G(1)>>, <<G(1), G(2)>>, <<F("vae", 1, "safetensors", "")>>, <<F("", 1, "dduf", "")>>}
MCProjectors == {F("", 5, "mmproj", ""), F("", 6, "gguf", "mmproj")}
MCTemplates == {F("", 7, "jinja", "")}
MCDirRank == [audio |-> 10, vae |-> 80]

(* Repositories with several quantizations, shards, projectors, or no weights. *)
Gguf(words, shard) == [kind |-> "gguf", words |-> words, shard |-> shard]
ConfigFile == [kind |-> "config", words |-> <<>>, shard |-> 0]
Object(o, s) == [oid |-> o, size |-> s]
MCRepositories == {
  {Gguf(<<"model", "q4", "k", "m">>, 0), Gguf(<<"model", "q4", "k", "s">>, 0),
   Gguf(<<"mmproj", "model", "f16">>, 0), ConfigFile},
  {Gguf(<<"model", "iq1">>, 1), Gguf(<<"model", "iq1">>, 2), Gguf(<<"other", "xl">>, 0)},
  {ConfigFile},
  {Gguf(<<"mmproj", "model">>, 0), Gguf(<<"mmproj", "other">>, 0), Gguf(<<"model", "xl">>, 0)}}
MCQuants == {<<>>, <<"q4", "k">>, <<"xl">>}
MCObjectLists == {<<Object("a", "large"), Object("b", "small"), Object("c", "large")>>}

(* Lines of both logs, one without a time. *)
MCServiceTimes == <<1, 0, 3>>
MCEngineTimes == <<2, 3>>

(* Models that share a layer.  One client meets every fault, with an index an
   earlier version left behind; two clients pull, tag and delete. *)
MCConfigOf == [m \in {"a", "b", "c"} |-> m \o ".json"]
MCLayers == [m \in {"a", "b", "c"} |-> {"layer"}]
FaultTags == {"t", "u", "old", "bad"}
MCFaultStore == [
  clients |-> {"one"}, models |-> {"a", "b"}, tags |-> FaultTags, badTags |-> {"bad"},
  rest |-> [x \in FaultTags |-> [y \in FaultTags |-> IF x = y THEN NoTag ELSE y]],
  layersOf |-> MCLayers, configOf |-> MCConfigOf,
  canon |-> [x \in FaultTags |-> IF x = "old" THEN "t" ELSE x],
  oldIndex |-> [m \in {"a"} |-> {"old"}],
  ops |-> {"pull", "build", "light", "load", "tag", "delete", "reset", "bundle"},
  faults |-> {"download", "config", "manifest", "index", "remove", "undo", "crash"},
  maxOps |-> 3]
MCSharedStore == [
  clients |-> {"p", "q"}, models |-> {"a", "b", "c"}, tags |-> {"t"}, badTags |-> {},
  rest |-> [x \in {"t"} |-> [y \in {"t"} |-> NoTag]],
  layersOf |-> MCLayers, configOf |-> MCConfigOf, canon |-> [x \in {"t"} |-> x],
  oldIndex |-> [m \in {"c"} |-> {"t"}], ops |-> {"pull", "tag", "delete"},
  faults |-> {"download"}, maxOps |-> 3]
=============================================================================
