---------------------------- MODULE OutputRules ----------------------------
(***************************************************************************)
(* The rules that read what a command printed                              *)
(* (src/entities/output_rules.rs), once the terminal gave it.              *)
(*                                                                         *)
(* An output is a set of remarks: what a tool says, by the words the code  *)
(* looks for, the names it says it about, in the order they stand in the   *)
(* text, and the command lines it proposes.                                *)
(***************************************************************************)
EXTENDS Rules

Says(output, what) == \E remark \in output : remark.say = what
About(output, what) == UNION {ToSet(remark.names) : remark \in {r \in output : r.say = what}}

\* between, and the split_once of a marker: the n-th name of the remark.
Named(output, what, n) ==
  {remark.names[n] : remark \in {r \in output : r.say = what /\ Len(r.names) >= n}}

\* safe_token: nothing the shell would read as syntax.
Syntax == {";", "$", "|", "&", "<", ">", "(", ")", "*", "?", "`", "'", " ", "!"}
SafeToken(token) ==
  token # "" /\ Len(token) <= 200 /\ ~Flag(token) /\ \A s \in Syntax : ~Within(token, s)
Safe(tokens) == {token \in tokens : SafeToken(token)}

IsGit(o) == Program(o.line) = "git"
GitSays(o, output, what) == IsGit(o) /\ Says(output, what)
Then(step, line) == step \o <<"&&">> \o line
\* The word after the program, when there is one.
SubcommandOf(line) == IF Len(line) > 1 THEN line[2] ELSE ""
-----------------------------------------------------------------------------
(***************************************************************************)
(* What git says.                                                          *)
(***************************************************************************)
GitOptionSaidWithTwoDashes(o, f, output) ==
  {Fix(ReplaceWord(o.line, PositionIn(o.line, After(long, "-")), long), 90, "one dash") :
     long \in {l \in Named(output, "with two dashes", 1) :
                 IsGit(o) /\ Flag(l) /\ Contains(o.line, After(l, "-"))}}

GitPushSetsUpstream(o, f, output) ==
  LET push == PositionIn(o.line, "push")
      flags == SelectSeq(SubSeq(o.line, push + 1, Len(o.line)),
                         LAMBDA w : Flag(w) /\ w \notin {"-u", "--set-upstream"})
  IN  IF ~IsGit(o) \/ push = 0 THEN {}
      ELSE {Fix(SubSeq(o.line, 1, push) \o <<"--set-upstream", at[1], at[2]>> \o flags,
                90, "push upstream") :
              at \in Safe(Named(output, "git push --set-upstream", 1))
                     \X Safe(Named(output, "git push --set-upstream", 2))}

GitPullSetsUpstream(o, f, output) ==
  IF ~GitSays(o, output, "no tracking information") THEN {}
  ELSE {Fix(Then(<<"git", "branch", "--set-upstream-to=origin/" \o branch, branch>>, o.line),
            80, "pull upstream") :
          branch \in Safe(Named(output, "no tracking information", 1))}

GitPushRejectedPullsFirst(o, f, output) ==
  IF GitSays(o, output, "rejected") /\ Contains(o.line, "push")
  THEN {Fix(Then(<<"git", "pull">>, o.line), 75, "pull first")} ELSE {}

GitStashesFirst(o, f, output) ==
  IF GitSays(o, output, "commit or stash")
  THEN {Fix(Then(<<"git", "stash">>, o.line) \o <<"&&", "git", "stash", "pop">>,
            80, "stash first")} ELSE {}

GitBranchExists(o, f, output) ==
  LET switch == CASE SubcommandOf(o.line) = "switch" -> {"switch"}
                  [] SubcommandOf(o.line) \in {"checkout", "branch"} -> {"checkout"}
                  [] OTHER -> {}
  IN  IF ~IsGit(o) THEN {}
      ELSE {Fix(<<"git", to[1], to[2]>>, 80, "branch exists") :
              to \in switch \X Safe(Named(output, "branch already exists", 1))}

\* git does not know a name; the first word that is one of the two is wrong when
\* the output has it, in quotes or as the beginning of a ref, whatever is said
\* of it there.
NotKnownToGit == {"pathspec", "invalid reference", "no remote ref", "unknown revision"}
InQuotes == {"pathspec", "unknown revision", "branch already exists", "dubious ownership",
             "unknown command"}
AsRef == {"invalid reference", "no remote ref"}
SaidName(output, branch) ==
  \/ \E what \in InQuotes : branch \in About(output, what)
  \/ \E what \in AsRef : \E name \in About(output, what) : StartsWith(name, branch)
Other(branch) == IF branch = "main" THEN "master" ELSE "main"
GitMainOrMaster(o, f, output) ==
  LET Wrong(w) == w \in {"main", "master"} /\ SaidName(output, w)
      index == SelectInSubSeq(o.line, 2, Len(o.line), Wrong)
  IN  IF IsGit(o) /\ (\E what \in NotKnownToGit : Says(output, what)) /\ index # 0
      THEN {Fix(ReplaceWord(o.line, index, Other(o.line[index])), 85, "main or master")} ELSE {}

GitUntrackedFile(o, f, output) ==
  IF ~IsGit(o) \/ SubcommandOf(o.line) \in {"rm", "checkout", "switch", "restore"} THEN {}
  ELSE {Fix(Then(<<"git", "add", "--", file>>, o.line), 70, "untracked file") :
          file \in Safe(Named(output, "forgot to add", 1))}

GitNewBranch(o, f, output) ==
  LET create == CASE SubcommandOf(o.line) = "checkout" -> {<<"checkout", "-b">>}
                  [] SubcommandOf(o.line) = "switch" -> {<<"switch", "-c">>}
                  [] OTHER -> {}
  IN  IF ~IsGit(o) \/ Len(o.line) # 3 THEN {}
      ELSE {Fix(<<"git">> \o to[1] \o <<to[2]>>, 60, "new branch") :
              to \in create \X (Safe(Named(output, "pathspec", 1)) \intersect {o.line[3]})}

GitCommitNothingStaged(o, f, output) ==
  LET commit == PositionIn(o.line, "commit") IN
  IF GitSays(o, output, "nothing staged") /\ commit # 0 /\ ~HasFlag(o.line, "a", "--all")
  THEN {Fix(InsertAfter(o.line, commit, "-a"), 70, "nothing staged")} ELSE {}

GitMergeUnrelatedHistories(o, f, output) ==
  IF GitSays(o, output, "unrelated histories")
  THEN {Fix(Append(o.line, "--allow-unrelated-histories"), 85, "unrelated histories")} ELSE {}

GitRebaseSkips(o, f, output) ==
  LET index == PositionIn(o.line, "--continue") IN
  IF GitSays(o, output, "nothing left to stage") /\ index # 0
  THEN {Fix(ReplaceWord(o.line, index, "--skip"), 80, "rebase skip")} ELSE {}

GitRmRecursive(o, f, output) ==
  LET rm == PositionIn(o.line, "rm") IN
  IF GitSays(o, output, "recursively without -r") /\ rm # 0
  THEN {Fix(InsertAfter(o.line, rm, "-r"), 90, "git rm -r")} ELSE {}

GitRmKeepsTheFile(o, f, output) ==
  LET rm == PositionIn(o.line, "rm") IN
  IF GitSays(o, output, "use --cached") /\ rm # 0 /\ ~Contains(o.line, "--cached")
  THEN {Fix(InsertAfter(o.line, rm, "--cached"), 75, "keep the file")} ELSE {}
-----------------------------------------------------------------------------
(***************************************************************************)
(* What a tool suggests itself.                                            *)
(***************************************************************************)
\* pick: the one candidate, or the one closest to the word typed; a candidate
\* is a sequence of words, and of several each is one.
Pick(wrong, said) ==
  IF Len(said) = 1 THEN {said[1]}
  ELSE {<<word>> : word \in Closest(wrong, [n \in DOMAIN said |-> Head(said[n])], 3)}

\* The word the output quotes, or else the subcommand.
WrongAt(line, output) ==
  LET Quoted(w) == ~Flag(w) /\ w \in About(output, "unknown command")
      index == SelectInSubSeq(line, 2, Len(line), Quoted)
  IN  CASE index # 0 -> {index}
        [] index = 0 /\ Len(line) > 1 /\ ~Flag(SubcommandOf(line)) -> {2}
        [] OTHER -> {}

\* suggested_in and the words it is made of; the words already typed are no help.
Suggested(output, wrong) ==
  UNION {Pick(wrong, remark.meant) : remark \in {r \in output : r.say = "did you mean"}}
Meant(output, wrong) ==
  {said \in Suggested(output, wrong) :
     said # << >> /\ said # <<wrong>> /\ \A word \in ToSet(said) : SafeToken(word)}

DidYouMean(o, f, output) ==
  IF ~Says(output, "unknown command") THEN {}
  ELSE UNION {
    {Fix(said \o SubSeq(o.line, at + 1, Len(o.line)), 85, "did you mean") :
       said \in {s \in Meant(output, o.line[at]) : Head(s) = Program(o.line)}}
    \union
    {Fix(ReplaceWord(o.line, at, said[1]), 85, "did you mean") :
       said \in {s \in Meant(output, o.line[at]) : Len(s) = 1 /\ Head(s) # Program(o.line)}}
    : at \in WrongAt(o.line, output)}
-----------------------------------------------------------------------------
(***************************************************************************)
(* Other tools.                                                            *)
(***************************************************************************)
IsPip(line) == Program(line) \in {"pip", "pip3"} /\ Contains(line, "install")
Packages(line) == SubSeq(line, PositionIn(line, "install") + 1, Len(line))
PipExternallyManaged(o, f, output) ==
  LET install == <<".venv/bin/pip", "install">> \o Packages(o.line) IN
  IF ~Says(output, "externally managed") \/ ~IsPip(o.line) \/ Packages(o.line) = << >> THEN {}
  ELSE {Fix(IF IsDirHere(f, ".venv") THEN install
            ELSE Then(<<"python3", "-m", "venv", ".venv">>, install), 70, "externally managed")}

PipInstallsForTheUser(o, f, output) ==
  IF IsPip(o.line) /\ ~Contains(o.line, "--user") /\ Says(output, "permission denied")
  THEN {Fix(InsertAfter(o.line, PositionIn(o.line, "install"), "--user"), 80, "pip --user")}
  ELSE {}

\* PYPI_NAMES: modules whose package has another name.
PypiNames == {
  <<"Crypto", "pycryptodome">>, <<"MySQLdb", "mysqlclient">>, <<"OpenSSL", "pyOpenSSL">>,
  <<"PIL", "pillow">>, <<"attr", "attrs">>, <<"bs4", "beautifulsoup4">>,
  <<"cv2", "opencv-python">>, <<"dateutil", "python-dateutil">>, <<"dotenv", "python-dotenv">>,
  <<"git", "GitPython">>, <<"gi", "PyGObject">>, <<"jwt", "PyJWT">>,
  <<"psycopg2", "psycopg2-binary">>, <<"serial", "pyserial">>, <<"sklearn", "scikit-learn">>,
  <<"usb", "pyusb">>, <<"yaml", "pyyaml">>}
PackageOf(module) ==
  IF \E entry \in PypiNames : entry[1] = module
  THEN (CHOOSE entry \in PypiNames : entry[1] = module)[2] ELSE module
PythonModuleMissing(o, f, output) ==
  LET pip == IF Program(o.line) \in {"python", "python3"}
             THEN <<Program(o.line), "-m", "pip", "install">> ELSE <<"pip", "install">>
  IN  {Fix(Then(Append(pip, PackageOf(module)), o.line), 70, "missing module") :
         module \in Safe(Named(output, "no module", 1))}

DockerDaemonDown(o, f, output) ==
  LET start == CASE f.os = "mac" /\ f.docker -> {<<"open", "-a", "Docker">>}
                 [] ~(f.os = "mac" /\ f.docker) /\ Known(f, "colima") ->
                      {Then(<<"colima", "start">>, o.line)}
                 [] f.os = "linux" /\ ~Known(f, "colima") ->
                      {Then(<<"sudo", "systemctl", "start", "docker">>, o.line)}
                 [] OTHER -> {}
  IN  IF ~Says(output, "docker daemon") THEN {}
      ELSE {Fix(line, 75, "docker daemon") : line \in start}

GitDubiousOwnership(o, f, output) ==
  {Fix(Then(<<"git", "config", "--global", "--add", "safe.directory", dir>>, o.line),
       75, "dubious ownership") :
     dir \in Safe(Named(output, "dubious ownership", 1))}

SshKeyNotTaken(o, f, output) ==
  LET add == IF f.os = "mac" THEN <<"ssh-add", "--apple-use-keychain">> ELSE <<"ssh-add">> IN
  IF Says(output, "publickey") THEN {Fix(Then(add, o.line), 60, "ssh key")} ELSE {}

LinkerCcMissing(o, f, output) ==
  LET install == CASE f.os = "mac" -> {<<"xcode-select", "--install">>}
                   [] f.os # "mac" /\ (Known(f, "apt") \/ Known(f, "apt-get")) ->
                        {Then(<<"sudo", "apt", "install", "build-essential">>, o.line)}
                   [] f.os # "mac" /\ ~Known(f, "apt") /\ ~Known(f, "apt-get") /\ Known(f, "dnf") ->
                        {Then(<<"sudo", "dnf", "groupinstall", "Development Tools">>, o.line)}
                   [] OTHER -> {}
  IN  IF ~Says(output, "no linker") THEN {}
      ELSE {Fix(line, 75, "no linker") : line \in install}
-----------------------------------------------------------------------------
(***************************************************************************)
(* Files and directories.                                                  *)
(***************************************************************************)
MkdirMissingParent(o, f, output) ==
  IF /\ Program(o.line) = "mkdir" /\ {"-p", "--parents"} \intersect ToSet(o.line) = {}
     /\ Says(output, "no such file")
  THEN {Fix(<<"mkdir", "-p">> \o Tail(o.line), 90, "mkdir without -p")} ELSE {}

\* The source of a copy is here, as far as the working directory is known; the
\* directory of the destination is not, and the output names it.
DestinationDirectoryMissing(o, f, output) ==
  LET operands == SelectSeq(Tail(o.line), LAMBDA w : ~Flag(w))
      noSource == /\ Len(operands) > 1 /\ ~Within(operands[1], "/")
                  /\ DOMAIN f.entries # {} /\ ~Here(f, operands[1])
      dirs == LET cuts == Cuts(Last(operands), "/") IN
              IF cuts = << >> THEN {} ELSE {Last(cuts)[1]}
  IN  IF \/ Program(o.line) \notin {"cp", "mv", "touch"} \/ Says(output, "cannot stat")
         \/ ~Says(output, "no such file") \/ operands = << >> \/ noSource
      THEN {}
      ELSE {Fix(Then(<<"mkdir", "-p", dir>>, o.line), 75, "missing directory") :
              dir \in {d \in Safe(dirs) :
                         \E name \in About(output, "no such file") : Within(name, d)}}

RmSaysDirectory(o, f, output) ==
  IF /\ Program(o.line) = "rm" /\ Says(output, "is a directory")
     /\ ~HasFlag(o.line, "r", "--recursive") /\ ~HasFlag(o.line, "R", "")
  THEN {Fix(<<"rm", "-r">> \o Tail(o.line), 80, "rm on a directory")} ELSE {}

GrepOnADirectory(o, f, output) ==
  IF /\ Program(o.line) \in {"grep", "egrep", "fgrep"} /\ Says(output, "is a directory")
     /\ ~HasFlag(o.line, "r", "--recursive")
     /\ ~HasFlag(o.line, "R", "--dereference-recursive")
  THEN {Fix(InsertAfter(o.line, 1, "-r"), 85, "grep -r")} ELSE {}

CpOnADirectory(o, f, output) ==
  IF /\ Program(o.line) = "cp" /\ Says(output, "omitting directory")
     /\ ~HasFlag(o.line, "r", "--recursive") /\ ~HasFlag(o.line, "R", "")
     /\ ~HasFlag(o.line, "a", "--archive")
  THEN {Fix(InsertAfter(o.line, 1, "-r"), 90, "cp -r")} ELSE {}

SshHostKeyChanged(o, f, output) ==
  {Fix(Then(<<"ssh-keygen", "-R", host>>, o.line), 70, "host key changed") :
     host \in Safe(Named(output, "host key changed", 1))}

LongHelp(o, f, output) ==
  LET index == PositionIn(o.line, "-h") IN
  IF index # 0 /\ Says(output, "unknown option")
  THEN {Fix(ReplaceWord(o.line, index, "--help"), 80, "long help")} ELSE {}

WithoutSudo(o, f, output) ==
  IF Program(o.line) = "sudo" /\ Len(o.line) > 1 /\ Says(output, "not as root")
  THEN {Fix(Tail(o.line), 85, "not as root")} ELSE {}

NeverWithSudo == {"sudo", "doas", "cd", "git", "ssh", "scp"}
WithSudo(o, f, output) ==
  IF /\ Program(o.line) \notin NeverWithSudo /\ ~NotExecutable(o)
     /\ ~Says(output, "publickey")
     /\ Says(output, "permission denied") \/ Says(output, "needs root")
  THEN {Fix(<<"sudo">> \o o.line, 80, "needs root")} ELSE {}
-----------------------------------------------------------------------------
\* suggest_fix_from_output
SuggestFixFromOutput(o, f, output) ==
  IF ~Failed(o) \/ output = {} THEN {}
  ELSE FirstOf(<<
    GitOptionSaidWithTwoDashes(o, f, output), GitPushSetsUpstream(o, f, output),
    GitPullSetsUpstream(o, f, output), GitPushRejectedPullsFirst(o, f, output),
    GitStashesFirst(o, f, output), GitBranchExists(o, f, output),
    GitMainOrMaster(o, f, output), GitUntrackedFile(o, f, output),
    GitNewBranch(o, f, output), GitCommitNothingStaged(o, f, output),
    GitMergeUnrelatedHistories(o, f, output), GitRebaseSkips(o, f, output),
    GitRmRecursive(o, f, output), GitRmKeepsTheFile(o, f, output), DidYouMean(o, f, output),
    PipExternallyManaged(o, f, output), PipInstallsForTheUser(o, f, output),
    PythonModuleMissing(o, f, output), DockerDaemonDown(o, f, output),
    GitDubiousOwnership(o, f, output), SshKeyNotTaken(o, f, output),
    LinkerCcMissing(o, f, output), MkdirMissingParent(o, f, output),
    DestinationDirectoryMissing(o, f, output), RmSaysDirectory(o, f, output),
    GrepOnADirectory(o, f, output), CpOnADirectory(o, f, output),
    SshHostKeyChanged(o, f, output), LongHelp(o, f, output), WithoutSudo(o, f, output),
    WithSudo(o, f, output)>>)

\* gather_output_facts: the PATH whatever the status, Docker Desktop when the
\* output speaks of it.
GatherOutputFacts(env, o, output) ==
  [GatherFacts(env, o) EXCEPT !.executables = Executables(env),
                              !.docker = Says(output, "docker daemon") /\ env.docker]

\* The output first.
OutputFirst(env, o, output, learned) ==
  FirstOf(<<SuggestFixFromOutput(o, GatherOutputFacts(env, o, output), output),
            SuggestFix(o, GatherFacts(env, o)), learned>>)

\* rule_fix: the line first, then its output when there is one, then what the
\* user taught.
RuleFix(env, o, output, learned) ==
  FirstOf(<<SuggestFix(o, GatherFacts(env, o)),
            SuggestFixFromOutput(o, GatherOutputFacts(env, o, output), output),
            learned>>)
=============================================================================
