------------------------------- MODULE Brief -------------------------------
(***************************************************************************)
(* What may leave the machine: how secrets are masked, what a case becomes *)
(* before a model or an agent sees it, and which agent is handed one.      *)
(* src/entities/redaction.rs, brief.rs, the redacted half of case.rs,      *)
(* use_cases/prompts.rs, privacy.rs and hand_off.rs, gateways/             *)
(* shell_agents.rs.                                                        *)
(*                                                                         *)
(* A text is a sequence of tokens, each one of the things the patterns     *)
(* tell apart: a word that is short, long (8 characters) or longer (16), a *)
(* JWT, a vendor's key, what leads to a secret, the two ends of a private  *)
(* key, and the mask.                                                      *)
(***************************************************************************)
EXTENDS Naturals, Sequences, FiniteSets, SequencesExt

Long    == {"long", "longer", "jwt", "key"}
Mask    == "mask"
Tokens  == Long \union {Mask, "word", "begin", "end",
                        "authorization:", "bearer", "://user:", "TOKEN="}

\* PATTERNS, in order: what leads to the secret, if anything has to, and what the
\* secret looks like.  No pattern takes the mask for a secret.
Pattern(lead, secret) == [lead |-> lead, secret |-> secret]
Patterns ==
  <<Pattern("authorization:", Long),
    Pattern("bearer", Long \ {"long"}),
    Pattern("", {"jwt"}),
    Pattern("", {"key"}),
    Pattern("://user:", Long \union {"word"}),
    Pattern("TOKEN=", Long)>>

\* A private key goes whole, up to the first end after its beginning; one that
\* does not end is left alone.
Scan(state, token) ==
  CASE token = "begin" /\ state.held = << >> -> [state EXCEPT !.held = <<token>>]
    [] token = "end" /\ state.held # << >> ->
         [out |-> Append(state.out, Mask), held |-> << >>, found |-> state.found + 1]
    [] OTHER -> IF state.held = << >> THEN [state EXCEPT !.out = Append(@, token)]
                ELSE [state EXCEPT !.held = Append(@, token)]
Blocks(text) == FoldLeft(Scan, [out |-> << >>, held |-> << >>, found |-> 0], text)

Caught(pattern, text) ==
  {i \in DOMAIN text : /\ text[i] \in pattern.secret
                       /\ pattern.lead = "" \/ (i > 1 /\ text[i - 1] = pattern.lead)}

\* redact: pattern after pattern, each on what the ones before it left.
Masking(state, pattern) ==
  LET caught == Caught(pattern, state.text) IN
  [text |-> [i \in DOMAIN state.text |-> IF i \in caught THEN Mask ELSE state.text[i]],
   findings |-> state.findings + Cardinality(caught)]
Redact(text) ==
  LET blocks == Blocks(text) IN
  FoldLeft(Masking, [text |-> blocks.out \o blocks.held, findings |-> blocks.found], Patterns)
-----------------------------------------------------------------------------
(***************************************************************************)
(* A case and its document.                                                *)
(***************************************************************************)
Plus(total, n) == total + n
Total(counts) == FoldLeft(Plus, 0, counts)

\* FailureCase::redacted, each part on its own; case_document.
Document(case) ==
  LET recent == [i \in DOMAIN case.recent |-> Redact(case.recent[i])]
      command == Redact(case.command)  output == Redact(case.output)
  IN  [command |-> command.text, output |-> output.text,
       recent |-> [i \in DOMAIN recent |-> recent[i].text],
       redactions |-> command.findings + output.findings
                      + Total([i \in DOMAIN recent |-> recent[i].findings])]

\* is_sensitive
SensitiveNow(case) == (Redact(case.command).findings + Redact(case.output).findings) > 0
IsSensitive(case) == Document(case).redactions > 0

\* quick_fix_prompt, explain_prompt: the task's instructions and the document.
PromptFor(task, case) == [system |-> task, user |-> Document(case)]

\* hand_off_brief: the words of the user and the fix of a rule go along as they are.
HandOffBrief(case) == [system |-> "brief", user |-> Document(case)]
-----------------------------------------------------------------------------
(***************************************************************************)
(* The agent.                                                              *)
(***************************************************************************)
\* HandOff::pick: the one named, the first routed for investigations, or the
\* first configured; << >> when there is none.
Agents(models) == SelectSeq(models, LAMBDA m : m.provider = "agent")
Upto1(s) == SubSeq(s, 1, IF s = << >> THEN 0 ELSE 1)
PickAgent(name, models, investigate) ==
  IF name # "" THEN Upto1(SelectSeq(Agents(models), LAMBDA m : m.name = name))
  ELSE LET NamedAgents(n) == SelectSeq(Agents(models), LAMBDA m : m.name = n)
           first == FoldLeft(LAMBDA found, n : found \o NamedAgents(n), << >>, investigate)
       IN  Upto1(first \o Agents(models))
-----------------------------------------------------------------------------
\* No token that a pattern knows for a secret stands in the texts.
Secretless(text) == Redact(text).findings = 0
NothingSecret(document) ==
  /\ Secretless(document.command) /\ Secretless(document.output)
  /\ \A i \in DOMAIN document.recent : Secretless(document.recent[i])
NothingMasked(document) ==
  Mask \notin ToSet(document.command) \union ToSet(document.output)
              \union UNION {ToSet(document.recent[i]) : i \in DOMAIN document.recent}
=============================================================================
