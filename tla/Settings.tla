------------------------------ MODULE Settings ------------------------------
(***************************************************************************)
(* The configuration file as text and as what it means.                    *)
(*                                                                         *)
(* src/adapters/gateways/toml_settings.rs reads a text into Settings or    *)
(* refuses it, renders Settings into a text (`kintsu setup`) and edits one *)
(* line of a text (`kintsu login`); use_cases/setup.rs composes Settings   *)
(* from three answers; diagnose.rs, models.rs say whether a model is       *)
(* usable, from the settings and from the machine.                         *)
(*                                                                         *)
(* A text is a sequence of lines: headers, fields, blank lines.  A value   *)
(* is a sequence of words, empty when there is none; spelling, quotes and  *)
(* numbers are left out.                                                   *)
(***************************************************************************)
EXTENDS Integers, SequencesExt

Absent == << >>
Header(path)   == [head |-> path, key |-> "", is |-> Absent]
Field(key, is) == [head |-> << >>, key |-> key, is |-> is]
Blank          == [head |-> << >>, key |-> "", is |-> Absent]
TableOf(m)     == <<"models", m>>
-----------------------------------------------------------------------------
(***************************************************************************)
(* The text, as TOML.                                                      *)
(***************************************************************************)
Headers(text) == {i \in DOMAIN text : text[i].head # << >>}
SectionAt(text, i) ==
  LET above == {j \in Headers(text) : j <= i} IN
  IF above = {} THEN << >> ELSE text[Max(above)].head

FieldAt(text, path, key) ==
  {i \in DOMAIN text : text[i].key = key /\ SectionAt(text, i) = path}
Value(text, path, key) ==
  LET at == FieldAt(text, path, key) IN IF at = {} THEN Absent ELSE text[Min(at)].is
Sections(text) == {text[i].head : i \in Headers(text)}

\* No table twice, no key twice in a table, and `key` given in one way only.
Parses(text) ==
  /\ \A i, j \in Headers(text) : text[i].head = text[j].head => i = j
  /\ \A i \in DOMAIN text :
       text[i].key # "" => FieldAt(text, SectionAt(text, i), text[i].key) = {i}
  /\ \A path \in Sections(text) :
       FieldAt(text, path, "key") # {} =>
         FieldAt(text, path, "key.env") = {} /\ path \o <<"key">> \notin Sections(text)
-----------------------------------------------------------------------------
(***************************************************************************)
(* What the words mean: Accepted[o] maps the words option o takes.         *)
(***************************************************************************)
Letters == {"B", "C", "D", "G", "H", "I", "J", "K", "M", "O", "Q", "S", "X", "Z"}
TakenKeys == {"C", "D", "H", "I", "J", "M", "Q", "S", "Z"}
Languages == {"en", "fr", "de", "es", "it", "pt", "nl", "pl", "ru", "ja", "zh", "ko"}
Units     == {"ms", "s", "m"}
Captures  == {"stderr", "herdr", "tmux", "wezterm", "kitty", "iterm2"}
Tiers     == {"tiny", "small", "large", "agent"}
Itself(words) == [w \in words |-> w]

Accepted == [
  mode             |-> [toast |-> "toast", panel |-> "toast", hint |-> "hint", silent |-> "silent"],
  hotkey           |-> Itself(Letters \ TakenKeys),
  language         |-> Itself(Languages \union {"auto"}),
  eager_fix        |-> Itself({"auto", "true", "false"}),
  links            |-> Itself({"true", "false"}),
  ascii            |-> Itself({"true", "false"}),
  same_failure     |-> Itself({"once", "always"}),
  sensitive_output |-> Itself({"local_only", "allow"}),
  sync_budget      |-> Itself(Units),
  max_daily_cost   |-> Itself({"USD"}),
  stderr_tee       |-> Itself({"true", "false"})]

Default == [
  mode |-> "toast", hotkey |-> "K", language |-> "auto", eager_fix |-> "auto",
  links |-> "true", ascii |-> "false", same_failure |-> "once",
  sensitive_output |-> "local_only", sync_budget |-> "ms", max_daily_cost |-> "",
  stderr_tee |-> "false"]

Under(option) ==
  CASE option \in {"mode", "hotkey", "language", "eager_fix", "links", "ascii"} -> <<"ui">>
    [] option = "same_failure" -> <<"quiet">>
    [] option \in {"sensitive_output", "max_daily_cost"} -> <<"routing", "constraints">>
    [] option = "sync_budget" -> <<"daemon">>
    [] option = "stderr_tee"  -> <<"capture">>

Tasks == {"quick_fix", "explain", "investigate"}
Preset(command) == <<command, "brief">>   \* agent_preset: the command, given the brief

\* The client a provider word stands for, its address and where its key is.
Providers == [
  ollama            |-> [client |-> "ollama", url |-> <<"localhost">>, key |-> Absent],
  openai_compatible |-> [client |-> "openai_compatible", url |-> <<"openai">>,
                         key |-> <<"env", "OPENAI_API_KEY">>],
  openai            |-> [client |-> "openai_compatible", url |-> <<"openai">>,
                         key |-> <<"env", "OPENAI_API_KEY">>],
  gemini            |-> [client |-> "openai_compatible", url |-> <<"google">>,
                         key |-> <<"env", "GEMINI_API_KEY">>],
  anthropic         |-> [client |-> "anthropic", url |-> <<"anthropic">>,
                         key |-> <<"env", "ANTHROPIC_API_KEY">>],
  cli_agent         |-> [client |-> "cli_agent", url |-> Absent, key |-> Absent],
  cli               |-> [client |-> "cli_agent", url |-> Absent, key |-> Absent]]
-----------------------------------------------------------------------------
(***************************************************************************)
(* parse_settings: refused on the first value it does not take.            *)
(***************************************************************************)
ModelNames(text) == {p[2] : p \in {q \in Sections(text) : Len(q) = 2 /\ q[1] = "models"}}
Given(value, default) == IF value = Absent THEN default ELSE value

KeyOf(text, m) ==
  Given(Value(text, TableOf(m), "key"),
    LET dotted == Value(text, TableOf(m), "key.env")
        apart  == Value(text, TableOf(m) \o <<"key">>, "env")
    IN  IF dotted # Absent THEN <<"env">> \o dotted
        ELSE IF apart # Absent THEN <<"env">> \o apart ELSE Absent)
KeyForms == {"env", "command", "literal", "keychain"}

Client(text, m) == Providers[Value(text, TableOf(m), "provider")[1]].client
ValidModel(text, m) ==
  LET of(key) == Value(text, TableOf(m), key) IN
  /\ of("provider") # Absent /\ of("provider")[1] \in DOMAIN Providers
  /\ IF Client(text, m) = "cli_agent"
     THEN of("template") # Absent \/ of("command") # Absent
     ELSE of("model") # Absent
  /\ KeyOf(text, m) # Absent => KeyOf(text, m)[1] \in KeyForms
  /\ of("tier") # Absent => of("tier")[1] \in Tiers
  /\ of("timeout") # Absent => of("timeout")[1] \in Units

ModelSpec(text, m) ==
  LET of(key) == Value(text, TableOf(m), key)
      known == Providers[of("provider")[1]]
      agent == known.client = "cli_agent"
      key   == Given(KeyOf(text, m), known.key)
  IN  [client  |-> known.client,
       model   |-> IF ~agent THEN of("model")
                   ELSE Given(of("template"), Preset(of("command")[1])),
       url     |-> Given(of("base_url"), known.url),
       key     |-> IF key # Absent /\ key[1] = "keychain" THEN <<"keychain", m>> ELSE key,
       tier    |-> Given(of("tier"), IF agent THEN <<"agent">> ELSE <<"small">>),
       timeout |-> of("timeout")]

\* `rules-only` names no model.
ModelsIn(names) ==
  LET upTo[i \in 0 .. Len(names)] ==
        IF i = 0 THEN << >>
        ELSE upTo[i - 1] \o (IF names[i] = "rules-only" THEN << >> ELSE <<names[i]>>)
  IN  upTo[Len(names)]
Route(text, task) == ModelsIn(Value(text, <<"routing">>, task))
Valid(text) ==
  /\ \A m \in ModelNames(text) : ValidModel(text, m)
  /\ \A task \in Tasks : ToSet(Route(text, task)) \subseteq ModelNames(text)
  /\ \A o \in DOMAIN Accepted :
       LET word == Value(text, Under(o), o) IN word # Absent => word[1] \in DOMAIN Accepted[o]
  /\ ToSet(Value(text, <<"capture">>, "sources")) \subseteq Captures

Option(text, o) ==
  LET word == Value(text, Under(o), o) IN
  IF word = Absent THEN Default[o] ELSE Accepted[o][word[1]]
\* The shell's own copy of stderr is read first when it is made.
SourcesOf(text) ==
  LET given == Given(Value(text, <<"capture">>, "sources"),
                     <<"herdr", "tmux", "wezterm", "kitty", "iterm2">>)
  IN  IF Option(text, "stderr_tee") = "true" /\ ~Contains(given, "stderr")
      THEN <<"stderr">> \o given ELSE given

Refused == [ok |-> FALSE]
SettingsOf(text) ==
  IF ~(Parses(text) /\ Valid(text)) THEN Refused
  ELSE [ok      |-> TRUE,
        models  |-> [m \in ModelNames(text) |-> ModelSpec(text, m)],
        route   |-> [task \in Tasks |-> Route(text, task)],
        option  |-> [o \in DOMAIN Accepted |-> Option(text, o)],
        sources |-> SourcesOf(text)]

\* Settings::default, and what no file or an empty one means.
Defaults == SettingsOf(<< >>)
-----------------------------------------------------------------------------
(***************************************************************************)
(* setup: three answers, what they compose, and the text that is written.  *)
(***************************************************************************)
Agents == <<"claude", "codex", "opencode", "aider", "gemini", "copilot">>
Clouds == [
  claude |-> [client |-> "anthropic", url |-> <<"anthropic">>, var |-> "ANTHROPIC_API_KEY"],
  openai |-> [client |-> "openai_compatible", url |-> <<"openai">>, var |-> "OPENAI_API_KEY"],
  gemini |-> [client |-> "openai_compatible", url |-> <<"google">>, var |-> "GEMINI_API_KEY"]]

\* What a machine with these programs may be asked and answered; `--yes` answers first.
Answers(programs) ==
  LET agents == ToSet(Agents) \intersect programs IN
  {a \in [local : IF "ollama" \in programs THEN {"", "qwen"} ELSE {""},
          cloud : {""} \union DOMAIN Clouds,
          where : {"env", "keychain"},
          agent : {""} \union agents] : a.cloud = "" => a.where = "env"}
Unasked(programs) ==
  [local |-> IF "ollama" \in programs THEN "qwen" ELSE "", cloud |-> "", where |-> "env",
   agent |-> LET found == {i \in DOMAIN Agents : Agents[i] \in programs}
             IN  IF found = {} THEN "" ELSE Agents[Min(found)]]

If(condition, seq) == IF condition THEN seq ELSE << >>
KeyGiven(a) ==
  IF a.where = "env" THEN <<"env", Clouds[a.cloud].var>> ELSE <<"keychain", a.cloud>>
AgentName == [claude |-> "claude-cli", codex |-> "codex-cli", opencode |-> "opencode-cli",
              aider |-> "aider-cli", gemini |-> "gemini-cli", copilot |-> "copilot-cli"]
LocalSpec(a) == [name |-> "local", client |-> "ollama", model |-> <<a.local>>,
                 url |-> <<"localhost">>, key |-> Absent, tier |-> <<"large">>]
CloudSpec(a) == [name |-> a.cloud, client |-> Clouds[a.cloud].client, model |-> <<"default">>,
                 url |-> Clouds[a.cloud].url, key |-> KeyGiven(a), tier |-> <<"small">>]
AgentSpec(a) == [name |-> AgentName[a.agent], client |-> "cli_agent", model |-> <<a.agent>>,
                 url |-> Absent, key |-> Absent, tier |-> <<"agent">>]

LocalNames(a) == If(a.local # "", <<"local">>)
CloudNames(a) == If(a.cloud # "", <<a.cloud>>)
LocalFirst(a) == LocalNames(a) \o CloudNames(a)
ExplainOf(a)  == CloudNames(a) \o LocalNames(a)
Compose(a) ==
  [models |-> If(a.local # "", <<LocalSpec(a)>>) \o If(a.cloud # "", <<CloudSpec(a)>>)
              \o If(a.agent # "", <<AgentSpec(a)>>),
   route  |-> [quick_fix   |-> LocalNames(a) \o CloudNames(a),
               explain     |-> ExplainOf(a),
               investigate |-> If(a.agent # "", <<AgentName[a.agent]>>)],
   option |-> Default]

ServedBy(spec) ==
  IF spec.client = "cli_agent"
  THEN <<Field(IF spec.model[1] \in ToSet(Agents) THEN "command" ELSE "template", spec.model)>>
  ELSE <<Field("model", spec.model)>> \o If(spec.url # Absent, <<Field("base_url", spec.url)>>)
       \o If(spec.key # Absent, <<Field("key", spec.key)>>)
RenderModel(spec) ==
  <<Header(TableOf(spec.name)), Field("provider", <<spec.client>>)>> \o ServedBy(spec)
  \o <<Field("tier", spec.tier), Blank>>
OptionLine(settings, o) == Field(o, <<settings.option[o]>>)

RenderRouting(settings) ==
  LET route(task) == Field(task, settings.route[task]) IN
  <<Header(<<"routing">>), route("quick_fix"), route("explain"), route("investigate"), Blank>>
RenderConstraints(settings) ==
  <<Header(<<"routing", "constraints">>), OptionLine(settings, "sensitive_output")>>
  \o If(settings.option.max_daily_cost # "", <<OptionLine(settings, "max_daily_cost")>>)
  \o <<Blank>>
RenderUi(settings) ==
  LET line(o) == OptionLine(settings, o) IN
  <<Header(<<"ui">>), line("mode"), line("hotkey"), line("language"),
    line("ascii"), line("links"), line("eager_fix")>>
Render(settings) ==
  LET models == [i \in DOMAIN settings.models |-> RenderModel(settings.models[i])] IN
  FlattenSeq(models) \o RenderRouting(settings) \o RenderConstraints(settings)
  \o RenderUi(settings)
-----------------------------------------------------------------------------
(***************************************************************************)
(* login: with_keychain_key, one line of the model's table.                *)
(***************************************************************************)
Keychained == Field("key", <<"keychain">>)
\* The header must be spelled `[models.name]`: one with a comment is not found.
PlainHeaders(text, m) ==
  {i \in Headers(text) : text[i].head = TableOf(m) /\ text[i].is = Absent}
ToTheEnd(text, start) == Len(text) + 1
EndOf(text, start) ==
  LET after == {i \in Headers(text) : i > start} IN
  IF after = {} THEN Len(text) + 1 ELSE Min(after)
EditedIn(text, start, end) ==
  LET within == (start + 1)..(end - 1)
      keys   == {i \in within : text[i].key = "key"}
      blanks == {i \in within : text[i] = Blank}
  IN  IF keys # {} THEN ReplaceAt(text, Min(keys), Keychained)
      ELSE InsertAt(text, IF blanks = {} THEN end ELSE Min(blanks), Keychained)
WithKeychainKey(text, m) ==
  LET start == Min(PlainHeaders(text, m)) IN EditedIn(text, start, EndOf(text, start))
-----------------------------------------------------------------------------
(***************************************************************************)
(* doctor, models and models test, on a machine: the variables set, the    *)
(* entries of the keychain, the local servers up, the programs on PATH.    *)
(***************************************************************************)
\* A key written in the file or got from a command is there.
Lookup(key, machine) ==
  /\ key # Absent
  /\ key[1] = "env" => key[2] \in machine.vars
  /\ key[1] = "keychain" => key[2] \in machine.chain
IsLocal(spec) ==
  \/ spec.client = "ollama"
  \/ spec.client = "openai_compatible" /\ spec.url = <<"localhost">>
Launched(spec, machine) == spec.model[1] \in machine.programs

\* Diagnose: what `kintsu doctor` says of a model.
Keyless(spec, machine) ==
  IF ~IsLocal(spec) THEN "problem" ELSE IF machine.server THEN "ok" ELSE "warning"
HealthByProgram(spec, machine) ==
  IF spec.client = "cli_agent" THEN IF Launched(spec, machine) THEN "ok" ELSE "problem"
  ELSE IF spec.key = Absent THEN Keyless(spec, machine)
  ELSE IF spec.key[1] = "literal" THEN "warning" ELSE "ok"
Health(spec, machine) ==
  IF spec.client = "cli_agent" THEN IF Launched(spec, machine) THEN "ok" ELSE "problem"
  ELSE IF spec.key = Absent THEN Keyless(spec, machine)
  ELSE IF spec.key[1] = "literal" THEN "warning"
  ELSE IF Lookup(spec.key, machine) THEN "ok" ELSE "problem"

\* ListModels: the key column of `kintsu models`.
KeyStatus(spec, machine) ==
  IF spec.key = Absent
  THEN IF spec.client = "cli_agent" \/ IsLocal(spec) THEN "not needed" ELSE "missing"
  ELSE IF spec.key[1] = "literal" THEN "written in config"
  ELSE IF Lookup(spec.key, machine) THEN "found" ELSE "missing"

\* ProbeModels: what stops the question, before anything is sent.
Probe(spec, machine) ==
  IF spec.client = "cli_agent" THEN "not asked"
  ELSE IF ~Lookup(spec.key, machine) /\ ~IsLocal(spec) THEN "no key"
  ELSE "asked"
=============================================================================
