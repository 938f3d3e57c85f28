------------------------------ MODULE MCConfig ------------------------------
(* Two threads of the daemon, one setup, one login and an editor. *)
EXTENDS Config

Models(m, provider) == <<Header(TableOf(m)), Field("provider", <<provider>>)>>
Named(id) == <<Field("model", <<id>>)>>
Routes(name) == <<Header(<<"routing">>), Field("explain", <<name, "rules-only">>)>>

\* A model without a key line, before one that has its own; the keys of another.
Plain ==
  Models("work", "openai") \o Named("m")
  \o Models("other", "anthropic") \o Named("n") \o <<Field("key", <<"literal", "s">>), Blank>>
  \o Routes("work") \o <<Header(<<"ui">>), Field("mode", <<"panel">>)>>
\* The key line comes after a blank one; the header of `far` carries a comment.
Spaced ==
  Models("work", "anthropic") \o Named("m") \o <<Blank, Field("key", <<"env", "WORK_KEY">>)>>
  \o <<[Header(TableOf("far")) EXCEPT !.is = <<"comment">>], Field("provider", <<"gemini">>)>>
  \o Named("n") \o Routes("work")
\* Keys given in the two other ways, a local server without one, an agent with one.
Dotted ==
  Models("work", "gemini") \o Named("m") \o <<Field("key.env", <<"WORK_KEY">>)>>
  \o Models("apart", "openai") \o Named("n")
  \o <<Header(TableOf("apart") \o <<"key">>), Field("env", <<"WORK_KEY">>)>>
  \o Models("near", "openai") \o Named("n") \o <<Field("base_url", <<"localhost">>)>>
  \o Models("agent", "cli_agent") \o <<Field("command", <<"codex">>), Field("key", <<"env", "WORK_KEY">>)>>
  \o <<Header(<<"capture">>), Field("stderr_tee", <<"true">>)>>
\* A key the terminal owns: the file is refused.
Bad == Named("m") \o <<Header(<<"ui">>), Field("hotkey", <<"C">>)>>

MCSymmetry == Permutations(Threads)
MCTexts == {Plain, Spaced, Dotted, Bad}
=============================================================================
