------------------------------- MODULE Config -------------------------------
(***************************************************************************)
(* One configuration file and everybody who uses it: the user's editor,    *)
(* `kintsu setup` and `kintsu login --write-config`, which truncate the    *)
(* file and then fill it, and the threads of the daemon, which reread it   *)
(* when its modification time is not the one they cached.                  *)
(*                                                                         *)
(* src/app/setup.rs, app/models.rs, use_cases/login.rs and                 *)
(* Daemon::settings in src/daemon.rs, over Settings.tla.                   *)
(***************************************************************************)
EXTENDS Settings

CONSTANTS
  Threads,   \* of the daemon
  Texts,     \* what the user's editor may save
  Installed, \* the programs on the PATH
  Vars,      \* variables the user may have exported
  MaxTime,   \* bound: the ticks of the clock that stamps files
  MaxWrites  \* bound: saves, setups and logins

ASSUME ConfigAssumption ==
  \A text \in Texts :
    /\ text \in Seq([head : Seq(STRING), key : STRING, is : Seq(STRING)])
    /\ \A i \in Headers(text) : text[i].key = ""

VARIABLES
  now,     \* the file clock
  file,    \* its text and modification time; `by` is what wrote it last
  chain,   \* the keychain's entries
  writes,  \* saves, setups and logins begun
  setup,   \* a `kintsu setup`
  login,   \* a `kintsu login`
  thread,  \* thread[t]: a reading of the settings
  lock,    \* the thread that holds the daemon's settings, "" when none does
  cache    \* the daemon's settings, the time they go by, and when they were read

vars == <<now, file, chain, writes, setup, login, thread, lock, cache>>

NoAnswers == [local |-> "", cloud |-> "", where |-> "env", agent |-> ""]
NoLogin   == [stage |-> "idle", model |-> "", told |-> FALSE, before |-> << >>, after |-> << >>]
Holds(stage, mtime, at, text) == [stage |-> stage, mtime |-> mtime, at |-> at, text |-> text]
Reading   == Holds("idle", 0, 0, << >>)

Init ==
  /\ now = 1
  /\ file = [text |-> << >>, mtime |-> 0, by |-> "nobody"]
  /\ chain = {}
  /\ writes = 0
  /\ setup = [stage |-> "idle", answers |-> NoAnswers]
  /\ login = NoLogin
  /\ thread = [t \in Threads |-> Reading]
  /\ lock = ""
  /\ cache = [settings |-> Defaults, seen |-> -1, at |-> 0]

Writes(text, who) == file' = [text |-> text, mtime |-> now, by |-> who]
-----------------------------------------------------------------------------
(***************************************************************************)
(* The user's editor and the clock.                                    *)
(***************************************************************************)
Tick == /\ now < MaxTime
        /\ now' = now + 1
        /\ UNCHANGED <<file, chain, writes, setup, login, thread, lock, cache>>

\* An editor that saves to another file and renames it.
Edit(text) ==
  /\ writes < MaxWrites
  /\ writes' = writes + 1
  /\ Writes(text, "editor")
  /\ UNCHANGED <<now, chain, setup, login, thread, lock, cache>>
-----------------------------------------------------------------------------
(***************************************************************************)
(* kintsu setup.                                                           *)
(***************************************************************************)
\* Asked whether to replace a file that is there, the user may keep it.
SetupAnswered(a) ==
  /\ setup.stage = "idle" /\ writes < MaxWrites
  /\ writes' = writes + 1
  /\ setup' = [stage |-> "answered", answers |-> a]
  /\ UNCHANGED <<now, file, chain, login, thread, lock, cache>>

SetupKeeps ==
  /\ setup.stage = "idle" /\ file.by # "nobody" /\ writes < MaxWrites
  /\ writes' = writes + 1
  /\ UNCHANGED <<now, file, chain, setup, login, thread, lock, cache>>

\* fs::write: the file is empty until it is filled, and for good if setup dies.
SetupTruncates ==
  /\ setup.stage = "answered"
  /\ Writes(<< >>, "cut")
  /\ setup' = [setup EXCEPT !.stage = "cut"]
  /\ UNCHANGED <<now, chain, writes, login, thread, lock, cache>>

SetupFills ==
  /\ setup.stage = "cut"
  /\ Writes(Render(Compose(setup.answers)), "setup")
  /\ setup' = [setup EXCEPT !.stage = "done"]
  /\ UNCHANGED <<now, chain, writes, login, thread, lock, cache>>

SetupDies ==
  /\ setup.stage \in {"answered", "cut"}
  /\ setup' = [setup EXCEPT !.stage = "dead"]
  /\ UNCHANGED <<now, file, chain, writes, login, thread, lock, cache>>
-----------------------------------------------------------------------------
(***************************************************************************)
(* kintsu login <model> --write-config.                                    *)
(***************************************************************************)
\* Login::check: a model of the settings that takes a key.
LoginChecks(m) ==
  LET settings == SettingsOf(file.text) IN
  /\ login.stage = "idle" /\ writes < MaxWrites
  /\ settings.ok
  /\ m \in DOMAIN settings.models
  /\ settings.models[m].client \in {"openai_compatible", "anthropic"}
  /\ writes' = writes + 1
  /\ login' = [NoLogin EXCEPT !.stage = "checked", !.model = m,
                              !.told = settings.models[m].key = <<"keychain", m>>]
  /\ UNCHANGED <<now, file, chain, setup, thread, lock, cache>>

\* The keychain takes the key; a file that reads it there already is left alone.
LoginStores ==
  /\ login.stage = "checked"
  /\ chain' = chain \union {login.model}
  /\ login' = [login EXCEPT !.stage = IF login.told THEN "told" ELSE "stored"]
  /\ UNCHANGED <<now, file, writes, setup, thread, lock, cache>>

\* No key typed, no such program, or the keychain refused.
LoginRefused ==
  /\ login.stage = "checked"
  /\ login' = [login EXCEPT !.stage = "failed"]
  /\ UNCHANGED <<now, file, chain, writes, setup, thread, lock, cache>>

LoginReads ==
  /\ login.stage = "stored"
  /\ login' = IF PlainHeaders(file.text, login.model) = {} THEN [login EXCEPT !.stage = "failed"]
              ELSE [login EXCEPT !.stage = "edited", !.before = file.text,
                                 !.after = WithKeychainKey(file.text, login.model)]
  /\ UNCHANGED <<now, file, chain, writes, setup, thread, lock, cache>>

LoginTruncates ==
  /\ login.stage = "edited"
  /\ Writes(<< >>, "cut")
  /\ login' = [login EXCEPT !.stage = "cut"]
  /\ UNCHANGED <<now, chain, writes, setup, thread, lock, cache>>

LoginFills ==
  /\ login.stage = "cut"
  /\ Writes(login.after, "login")
  /\ login' = [login EXCEPT !.stage = "told"]
  /\ UNCHANGED <<now, chain, writes, setup, thread, lock, cache>>

LoginDies ==
  /\ login.stage \in {"checked", "stored", "edited", "cut"}
  /\ login' = [login EXCEPT !.stage = "dead"]
  /\ UNCHANGED <<now, file, chain, writes, setup, thread, lock, cache>>
-----------------------------------------------------------------------------
(***************************************************************************)
(* Daemon::settings: the time is read first, then the lock is taken.       *)
(***************************************************************************)
Stats(t) ==
  /\ thread[t].stage = "idle"
  /\ thread' = [thread EXCEPT ![t] = Holds("stated", file.mtime, 0, << >>)]
  /\ UNCHANGED <<now, file, chain, writes, setup, login, lock, cache>>

ServesCached(t) ==
  /\ thread[t].stage = "stated" /\ lock = ""
  /\ cache.seen = thread[t].mtime
  /\ thread' = [thread EXCEPT ![t] = Reading]
  /\ UNCHANGED <<now, file, chain, writes, setup, login, lock, cache>>

Reads(t) ==
  /\ thread[t].stage = "stated" /\ lock = ""
  /\ cache.seen # thread[t].mtime
  /\ lock' = t
  /\ thread' = [thread EXCEPT ![t] = Holds("read", thread[t].mtime, now, file.text)]
  /\ UNCHANGED <<now, file, chain, writes, setup, login, cache>>

\* A file that is refused means the defaults.
SettingsRead(text) == LET s == SettingsOf(text) IN IF s.ok THEN s ELSE Defaults
\* The cache goes by the time that was read before the text.
SeenLate(t) == file.mtime
Seen(t) == thread[t].mtime
Caches(t) ==
  /\ thread[t].stage = "read"
  /\ cache' = [settings |-> SettingsRead(thread[t].text), seen |-> Seen(t), at |-> thread[t].at]
  /\ lock' = ""
  /\ thread' = [thread EXCEPT ![t] = Reading]
  /\ UNCHANGED <<now, file, chain, writes, setup, login>>
-----------------------------------------------------------------------------
Setups == SetupKeeps \/ SetupTruncates \/ SetupFills \/ SetupDies
          \/ \E a \in Answers(Installed) \union {Unasked(Installed)} : SetupAnswered(a)
Logins == LoginStores \/ LoginRefused \/ LoginReads \/ LoginTruncates \/ LoginFills \/ LoginDies
          \/ \E m \in ModelNames(file.text) : LoginChecks(m)
Daemon == \E t \in Threads : Stats(t) \/ ServesCached(t) \/ Reads(t) \/ Caches(t)
User   == Tick \/ \E text \in Texts : Edit(text)
Next   == User \/ Setups \/ Logins \/ Daemon
Spec   == Init /\ [][Next]_vars
-----------------------------------------------------------------------------
(***************************************************************************)
(* Properties.                                                             *)
(***************************************************************************)
\* What the daemon serves is what the file says, once it has looked since the
\* last write: settings that differ from a file of the very time they were
\* cached for were read within the tick of that write (Daemon::settings reads
\* the time before the text; two writes in one tick carry one time).
StaleOnlyWithinTick ==
  cache.seen = file.mtime /\ cache.settings # SettingsRead(file.text) => cache.at = file.mtime

\* The answers, read back: the local model is asked first for fixes and the
\* cloud one for explanations, at its own address and with the key where the
\* user said; the agent is launched with the brief; nothing but a local model
\* is asked unasked.
MeansWhatWasAnswered(s, a) ==
  /\ s.ok
  /\ a.local # "" => /\ s.route.quick_fix[1] = "local"
                     /\ IsLocal(s.models["local"]) /\ s.models["local"].model = <<a.local>>
  /\ a.cloud # "" => /\ s.route.explain[1] = a.cloud
                     /\ Contains(s.route.quick_fix, a.cloud)
                     /\ s.models[a.cloud].url = Clouds[a.cloud].url
                     /\ s.models[a.cloud].key = KeyGiven(a)
  /\ IF a.agent = "" THEN s.route.investigate = << >>
     ELSE /\ s.route.investigate = <<AgentName[a.agent]>>
          /\ s.models[AgentName[a.agent]].model = Preset(a.agent)
  /\ s.option.eager_fix = "auto" /\ s.option.sensitive_output = "local_only"

\* Three answers reach the daemon through compose, the rendered file, the parser
\* and the cache: once the tick in which setup wrote is over, what the daemon
\* read for that file is what the user answered.
SetupIsServed ==
  file.by = "setup" /\ cache.seen = file.mtime /\ cache.at > file.mtime
    => MeansWhatWasAnswered(cache.settings, setup.answers)

\* `login --write-config` edits one line of a text it does not parse: the model
\* then reads its key from the keychain, where the key already is, and every
\* other setting is what it was.  Not so for a key given as `key.env = ...` or
\* as a table of its own: the edited file is refused by the parser.
KeyInOneLine(text, m) ==
  /\ FieldAt(text, TableOf(m), "key.env") = {}
  /\ TableOf(m) \o <<"key">> \notin Sections(text)
LoginPoints ==
  LET m == login.model  before == SettingsOf(login.before) IN
  login.stage = "told" =>
    /\ m \in chain
    /\ ~login.told /\ before.ok /\ KeyInOneLine(login.before, m)
         => SettingsOf(login.after) = [before EXCEPT !.models[m].key = <<"keychain", m>>]

\* Three commands judge a model and never contradict one another: what doctor
\* finds in order is not missing a key for `kintsu models` or `models test`,
\* what `models` misses is a problem for doctor, and the verdict setup ends
\* with is the one doctor gives on the file setup wrote.  Not so for an agent
\* given a key: `models` misses it, and doctor looks for the program alone.
Machines == [vars : SUBSET Vars, chain : {chain}, server : BOOLEAN, programs : {Installed}]
Agreed(spec, machine) ==
  spec.client # "cli_agent" =>
    /\ Health(spec, machine) = "ok" =>
         Probe(spec, machine) # "no key" /\ KeyStatus(spec, machine) \in {"found", "not needed"}
    /\ KeyStatus(spec, machine) = "missing" => Health(spec, machine) = "problem"
DoctorAgrees ==
  LET s == SettingsOf(file.text)  composed == ToSet(Compose(setup.answers).models) IN
  \A machine \in Machines :
    /\ s.ok => \A m \in DOMAIN s.models : Agreed(s.models[m], machine)
    /\ file.by = "setup" => \A c \in composed :
         Health(c, machine) = Health(s.models[c.name], machine)
=============================================================================
