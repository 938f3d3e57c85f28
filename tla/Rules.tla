------------------------------- MODULE Rules -------------------------------
(***************************************************************************)
(* The instant rules: what src/entities/rules.rs proposes for a command    *)
(* that failed from its line, its status and a few facts, and where those  *)
(* facts come from (use_cases/facts.rs, gateways/fs_environment.rs,        *)
(* entities/shell_commands.rs).                                            *)
(*                                                                         *)
(* An outcome is a line, a status and whether a no-break space was typed   *)
(* between two of its words.  A rule is the set of the fixes it offers,    *)
(* none or one.                                                            *)
(***************************************************************************)
EXTENDS Words, Subcommands

\* `sure` in hundredths; `rule` names the rule.
Fix(line, sure, rule) == [line |-> line, sure |-> sure, rule |-> rule]

Failed(o) == o.status # 0
NotFound(o) == o.status = 127
NotExecutable(o) == o.status = 126

\* Facts::has_program, entry, is_dir_here, is_file_here
Known(f, name) == Contains(f.executables, name)
Here(f, name) == name \in DOMAIN f.entries
WithoutSlash(name) == IF EndsWith(name, "/") THEN SubSeq(name, 1, Len(name) - 1) ELSE name
IsDirHere(f, name) == Here(f, WithoutSlash(name)) /\ f.entries[WithoutSlash(name)].dir
IsFileHere(f, name) == Here(f, name) /\ ~f.entries[name].dir
-----------------------------------------------------------------------------
(***************************************************************************)
(* The facts.                                                              *)
(***************************************************************************)
\* Alias::target
RunPrefixes == {"command", "builtin", "exec", "noglob", "nocorrect", "sudo", "doas",
                "env", "nice", "time"}
Target(expansion) ==
  First(expansion, LAMBDA word : word \notin RunPrefixes /\ ~Within(word, "="))

\* ShellCommands::new keeps plain names, FsEnvironment::executables adds them
\* to the PATH and the builtins, each once.
PlainName(name) == name # "" /\ ~StartsWith(name, "_")
ShellNames(env) == {name \in env.functions \union DOMAIN env.aliases : PlainName(name)}
Executables(env) == InOrder(env.programs \union ShellNames(env))

\* FsEnvironment::aliases, target_found
TargetFound(env, target) ==
  target \in IF Within(target, "/") THEN env.paths ELSE env.programs \union ShellNames(env)
AliasFacts(env) ==
  UNION {{[name |-> name, target |-> target, found |-> TargetFound(env, target)] :
            target \in Target(env.aliases[name])} :
           name \in ShellNames(env) \intersect DOMAIN env.aliases}

\* gather_facts: the PATH only when the status speaks of it.
Facts(env, executables, aliases) ==
  [os |-> env.os, entries |-> env.entries, docker |-> FALSE,
   executables |-> executables, aliases |-> aliases]
GatherFacts(env, o) ==
  IF NotFound(o) \/ NotExecutable(o) THEN Facts(env, Executables(env), AliasFacts(env))
  ELSE Facts(env, << >>, {})
-----------------------------------------------------------------------------
(***************************************************************************)
(* The shape of the line.                                                  *)
(***************************************************************************)
PastedPrompt(o, f) ==
  IF NotFound(o) /\ Program(o.line) = "$" /\ Len(o.line) > 1
  THEN {Fix(Tail(o.line), 95, "pasted prompt")} ELSE {}

\* The words are the same: only what stands between them changes.
NoBreakSpace(o, f) ==
  IF Failed(o) /\ o.unbroken THEN {Fix(o.line, 90, "no-break space")} ELSE {}

\* A letter that stands for the cedilla, whose key is next to Enter.
Cedilla == "%"
Trimmed(word) ==
  LET kept == {n \in 0 .. Len(word) : \A i \in n + 1 .. Len(word) : Letter(word, i) = Cedilla}
  IN  SubSeq(word, 1, Min(kept))
TrailingCedilla(o, f) ==
  IF Failed(o) /\ EndsWith(Last(o.line), Cedilla)
  THEN {Fix(Append(Front(o.line), Trimmed(Last(o.line))), 90, "trailing cedilla")} ELSE {}

CdWithoutSpace(o, f) ==
  IF NotFound(o) /\ Program(o.line) = "cd.."
  THEN {Fix(WithProgram(o.line, <<"cd", "..">>), 95, "cd without a space")} ELSE {}

\* The first way to cut the program into a known one and its subcommand.
Taken(o, f, cuts, sure, rule) ==
  IF ~NotFound(o) THEN {}
  ELSE {Fix(WithProgram(o.line, cut), sure, rule) :
          cut \in First(cuts, LAMBDA c : /\ Known(f, c[1])
                                         /\ Contains(SubcommandsOf(c[1]), c[2]))}

HyphenBeforeSubcommand(o, f) ==
  IF Flag(Program(o.line)) THEN {}
  ELSE Taken(o, f, Cuts(Program(o.line), "-"), 90, "hyphen before subcommand")

Heads(word) == SelectSeq(Programs, LAMBDA entry : /\ StartsWith(word, entry[1])
                                                  /\ Len(word) > Len(entry[1]))
MissingSpaceBeforeSubcommand(o, f) ==
  LET heads == Heads(Program(o.line)) IN
  Taken(o, f, [n \in DOMAIN heads |-> <<heads[n][1], After(Program(o.line), heads[n][1])>>],
        90, "missing space")

ManWithoutSpace(o, f) ==
  LET page == After(Program(o.line), "man") IN
  IF /\ NotFound(o) /\ StartsWith(Program(o.line), "man") /\ Len(page) >= 2
     /\ Known(f, page) /\ Known(f, "man")
  THEN {Fix(WithProgram(o.line, <<"man", page>>), 85, "man without a space")} ELSE {}
-----------------------------------------------------------------------------
(***************************************************************************)
(* What is here and not on the PATH.                                       *)
(***************************************************************************)
GradleWrapper(o, f) ==
  IF /\ NotFound(o) /\ Program(o.line) = "gradle"
     /\ IsFileHere(f, "gradlew") /\ f.entries["gradlew"].exec
  THEN {Fix(WithProgram(o.line, <<"./gradlew">>), 90, "gradle wrapper")} ELSE {}

MissingDotSlash(o, f) ==
  LET program == Program(o.line) IN
  IF NotFound(o) /\ ~Within(program, "/") /\ IsFileHere(f, program) /\ f.entries[program].exec
  THEN {Fix(WithProgram(o.line, <<"./" \o program>>), 90, "missing ./")} ELSE {}

Interpreters ==
  <<<<"py", <<"python3", "python">>>>, <<"js", <<"node">>>>, <<"rb", <<"ruby">>>>,
    <<"pl", <<"perl">>>>, <<"sh", <<"bash", "sh">>>>>>
ScriptWithoutInterpreter(o, f) ==
  LET program == Program(o.line)  dots == Cuts(program, ".") IN
  IF ~NotFound(o) \/ dots = << >> \/ Within(program, "/") \/ ~IsFileHere(f, program) THEN {}
  ELSE {Fix(<<interpreter>> \o o.line, 90, "script without interpreter") :
          interpreter \in UNION {First(entry[2], LAMBDA i : Known(f, i)) :
                   entry \in First(Interpreters, LAMBDA e : e[1] = Last(dots)[2])}}

VenvTools == {
  "alembic", "black", "celery", "coverage", "django-admin", "flake8", "flask", "gunicorn",
  "ipython", "isort", "jupyter", "mkdocs", "mypy", "pip", "pip3", "pre-commit", "pylint",
  "pytest", "python", "python3", "ruff", "sphinx-build", "tox", "uvicorn"}
VenvHere(o, f) ==
  IF NotFound(o) /\ Program(o.line) \in VenvTools /\ IsDirHere(f, ".venv")
  THEN {Fix(WithProgram(o.line, <<".venv/bin/" \o Program(o.line)>>), 70, "venv here")} ELSE {}

NotExecutableYet(o, f) ==
  LET name == After(Program(o.line), "./") IN
  IF /\ NotExecutable(o) /\ StartsWith(Program(o.line), "./") /\ ~Within(name, "/")
     /\ IsFileHere(f, name) /\ ~f.entries[name].exec
  THEN {Fix(<<"chmod", "+x", name, "&&">> \o o.line, 85, "not executable")} ELSE {}
-----------------------------------------------------------------------------
(***************************************************************************)
(* Typos.                                                                  *)
(***************************************************************************)
CommandTypo(o, f) ==
  LET program == Program(o.line)  max == IF Len(program) <= 4 THEN 1 ELSE 2 IN
  IF ~NotFound(o) \/ Len(program) < 2 \/ Known(f, program) THEN {}
  ELSE {Fix(WithProgram(o.line, <<found>>), IF max = 1 THEN 90 ELSE 85, "command typo") :
          found \in Closest(program, f.executables, max)}

RepeatedProgram(o, f) ==
  IF /\ Failed(o) /\ Len(o.line) > 1 /\ o.line[1] = o.line[2]
     /\ Known(f, o.line[1]) \/ SubcommandsOf(o.line[1]) # << >>
  THEN {Fix(Tail(o.line), 90, "repeated program")} ELSE {}

SubcommandTypo(o, f) ==
  LET known == SubcommandsOf(o.line[1])  sub == o.line[2] IN
  IF \/ ~Failed(o) \/ NotFound(o) \/ Len(o.line) < 2 \/ known = << >>
     \/ Flag(sub) \/ Within(sub, "/") \/ Contains(known, sub)
  THEN {}
  ELSE {Fix(ReplaceWord(o.line, 2, found), 85, "subcommand typo") :
          found \in Closest(sub, known, IF Len(sub) <= 3 THEN 1 ELSE 2)}

GitOptionWithOneDash(o, f) ==
  LET Short(word) == /\ Flag(word) /\ Len(word) > 3
                     /\ Contains(GitLongOptions, After(word, "-"))
      index == SelectInSubSeq(o.line, 3, Len(o.line), Short)
  IN  IF Failed(o) /\ Program(o.line) = "git" /\ index # 0
      THEN {Fix(ReplaceWord(o.line, index, "-" \o o.line[index]), 75, "one dash")} ELSE {}

\* The word that names a source, and the extension it lacks.
SourceAt(line) ==
  CASE Len(line) > 1 /\ line[1] \in {"python", "python3"} -> {<<2, ".py">>}
    [] Len(line) > 1 /\ line[1] = "ruby" -> {<<2, ".rb">>}
    [] Len(line) > 2 /\ line[1] = "go" /\ line[2] = "run" -> {<<3, ".go">>}
    [] OTHER -> {}
SourceWithoutExtension(o, f) ==
  IF ~Failed(o) \/ NotFound(o) THEN {}
  ELSE {Fix(ReplaceWord(o.line, at[1], o.line[at[1]] \o at[2]), 85, "missing extension") :
          at \in {a \in SourceAt(o.line) : LET target == o.line[a[1]] IN
                    /\ ~Flag(target) /\ ~Within(target, "/") /\ ~Within(target, ".")
                    /\ ~Here(f, target) /\ IsFileHere(f, target \o a[2])}}
-----------------------------------------------------------------------------
(***************************************************************************)
(* Files, directories and the machine.                                     *)
(***************************************************************************)
\* The operand names a directory here, with or without a slash at its end.
DirOperand(line, f) ==
  {t \in FirstOperand(line) : (~Within(t, "/") \/ EndsWith(t, "/")) /\ IsDirHere(f, t)}

CatOnADirectory(o, f) ==
  IF Failed(o) /\ Program(o.line) = "cat" /\ DirOperand(o.line, f) # {}
  THEN {Fix(WithProgram(o.line, <<"ls">>), 85, "cat on a directory")} ELSE {}

Recursive(line) ==
  \E w \in ToSet(Tail(line)) :
    Flag(w) /\ ~StartsWith(w, "--") /\ (Within(w, "r") \/ Within(w, "R"))
RmOnADirectory(o, f) ==
  IF /\ Failed(o) /\ Program(o.line) = "rm" /\ ~Recursive(o.line)
     /\ DirOperand(o.line, f) # {}
  THEN {Fix(<<"rm", "-r">> \o Tail(o.line), 80, "rm on a directory")} ELSE {}

MkdirWithoutParent(o, f) ==
  IF \/ ~Failed(o) \/ Program(o.line) # "mkdir"
     \/ {"-p", "--parents"} \intersect ToSet(o.line) # {}
  THEN {}
  ELSE {Fix(<<"mkdir", "-p">> \o Tail(o.line), 90, "mkdir without -p") :
          target \in {t \in FirstOperand(o.line) : Within(t, "/") /\
                        LET parent == Cuts(t, "/")[1][1] IN
                        parent \notin {"", ".", "..", "~"} /\ ~IsDirHere(f, parent)}}

DirsHere(f) == {name \in DOMAIN f.entries : f.entries[name].dir}
CdIntoFile(o, f) ==
  LET target == o.line[2] IN
  IF \/ ~Failed(o) \/ Program(o.line) # "cd" \/ Len(o.line) < 2
     \/ Within(target, "/") \/ Flag(target) \/ target \in DirsHere(f)
  THEN {}
  ELSE {Fix(<<"cd", found>>, 80, "directory typo") :
          found \in Closest(target, InOrder(DirsHere(f)), 2)}

\* The verb of another system's package manager, in Homebrew's words.
BrewVerb(program, verb) ==
  CASE program = "pacman" /\ verb = "-S" -> "install"
    [] verb \in {"remove", "purge"} \/ (program = "pacman" /\ verb = "-R") -> "uninstall"
    [] verb \in {"update", "upgrade"} -> "upgrade"
    [] OTHER -> verb
PackageManager(o, f) ==
  LET rest == SelectSeq(Tail(o.line), LAMBDA w : w # "-y")
      verb == IF rest = << >> THEN "install" ELSE Head(rest)
  IN  IF /\ NotFound(o) /\ f.os = "mac" /\ Known(f, "brew")
         /\ Program(o.line) \in {"apt", "apt-get", "dnf", "yum", "pacman"}
      THEN {Fix(<<"brew", BrewVerb(Program(o.line), verb)>>
                  \o (IF rest = << >> THEN rest ELSE Tail(rest)), 80, "package manager")}
      ELSE {}
-----------------------------------------------------------------------------
\* The first of the rules that has a fix.
FirstOf(offers) ==
  LET i == SelectInSeq(offers, LAMBDA offer : offer # {}) IN IF i = 0 THEN {} ELSE offers[i]

\* suggest_fix
SuggestFix(o, f) ==
  FirstOf(<<PastedPrompt(o, f), NoBreakSpace(o, f), TrailingCedilla(o, f),
            CdWithoutSpace(o, f), HyphenBeforeSubcommand(o, f),
            MissingSpaceBeforeSubcommand(o, f), ManWithoutSpace(o, f), GradleWrapper(o, f),
            VenvHere(o, f), CommandTypo(o, f), MissingDotSlash(o, f),
            ScriptWithoutInterpreter(o, f), RepeatedProgram(o, f), SubcommandTypo(o, f),
            GitOptionWithOneDash(o, f), SourceWithoutExtension(o, f), NotExecutableYet(o, f),
            CatOnADirectory(o, f), RmOnADirectory(o, f), MkdirWithoutParent(o, f),
            CdIntoFile(o, f), PackageManager(o, f)>>)

\* suggest_explanation, alias_without_its_program: the absent target of an alias.
SuggestExplanation(o, f) ==
  {alias.target : alias \in {a \in f.aliases : /\ NotFound(o) /\ a.name = Program(o.line)
                                               /\ ~a.found}}
=============================================================================
