----------------------------- MODULE MCSpending -----------------------------
(***************************************************************************)
(* Two workers and a cap that one fix reaches.  Fixes go to a server that  *)
(* knows neither the limit's name nor JSON schemas, then to one that only  *)
(* wants another name; explanations to an agent, which is never asked, to  *)
(* a model without its key, to a remote one and to a local one.            *)
(***************************************************************************)
EXTENDS Spending, TLC

AnyWorker == Permutations(Workers)

Model(name, provider, local, price) ==
  [name |-> name, provider |-> provider, local |-> local, price |-> price,
   address |-> TRUE, key |-> TRUE, official |-> FALSE]

Explainers ==
  <<Model("agent", "agent", FALSE, 0),
    [Model("keyless", "anthropic", FALSE, 1) EXCEPT !.key = FALSE],
    Model("cloud", "anthropic", FALSE, 1),
    Model("local", "ollama", TRUE, 0)>>
Fixers == <<Model("old", "openai", FALSE, 1), Model("azure", "openai", FALSE, 2)>>

Routings == "fix" :> Fixers @@ "explain" :> Explainers @@ "stream" :> Explainers

Configured == Explainers \o Fixers \o <<Model("second", "agent", FALSE, 0)>>
Investigators == <<"cloud", "second", "agent">>

\* Nothing to hide; a secret in the output; one in the history only.
Ordinary == [command |-> <<"word", "long">>, output |-> <<"begin", "word">>, recent |-> << >>]
Failures == {
  Ordinary,
  [Ordinary EXCEPT !.output = <<"word", "begin", "long", "end", "authorization:", "long">>],
  [Ordinary EXCEPT !.recent = <<<<"word">>, <<"TOKEN=", "key">>>>]}

Servers ==
  "old"   :> [limit |-> "none", structure |-> FALSE, counts |-> TRUE] @@
  "azure" :> [limit |-> "max_completion_tokens", structure |-> TRUE, counts |-> TRUE] @@
  "cloud" :> [limit |-> "any", structure |-> TRUE, counts |-> TRUE] @@
  "keyless" :> [limit |-> "any", structure |-> TRUE, counts |-> TRUE] @@
  "local" :> [limit |-> "any", structure |-> FALSE, counts |-> TRUE]
=============================================================================
