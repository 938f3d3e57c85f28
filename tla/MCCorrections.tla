--------------------------- MODULE MCCorrections ---------------------------
(***************************************************************************)
(* A Mac and three Linux machines, and a repository in each; lines that    *)
(* meet every rule, some of them more than one.                            *)
(***************************************************************************)
EXTENDS Corrections, TLC

File(exec) == [dir |-> FALSE, exec |-> exec]
Dir == [dir |-> TRUE, exec |-> TRUE]

Mac == [
  os |-> "mac", docker |-> TRUE, refuses |-> {"user"}, branches |-> {"main"},
  programs |-> {"git", "gat", "man", "diff", "brew", "npm", "node", "docker", "cargo", "cat",
                "ls", "rm", "mkdir", "cd", "cp", "ssh", "sudo", "python3", "chmod", "open"},
  functions |-> {"gst", "_hid"}, aliases |-> "hmz" :> <<"sudo", "/opt/hmz">>,
  paths |-> {}, taught |-> {[line |-> <<"cargo", "test">>,
                             fix |-> Fix(<<"cargo", "test", "--all">>, 80, "learned")]},
  entries |-> "gradlew" :> File(TRUE) @@ "run.sh" :> File(TRUE) @@ "go.sh" :> File(FALSE)
           @@ "app.py" :> File(FALSE) @@ "src" :> Dir @@ ".venv" :> Dir,
  sources |-> <<"tmux", "stderr">>, panes |-> {"tmux"}]
Linux == [
  Mac EXCEPT !.os = "linux", !.docker = FALSE, !.refuses = {"root"}, !.branches = {"master", "topic"},
             !.programs = {"git", "colima", "grep", "docker", "cargo", "apt", "rm", "mkdir", "cp",
                           "touch", "cat", "cd", "pip", "sudo", "python3", "pytest", "bash",
                           "ruby", "go", "gti2"},
             !.aliases = << >>, !.sources = <<"herdr", "stderr">>, !.panes = {"stderr"}]
Trunk == [
  Linux EXCEPT !.branches = {"trunk"}, !.refuses = {}, !.programs = (@ \ {"colima", "apt"}) \union {"dnf"},
               !.entries = "srd" :> Dir @@ "src" :> Dir @@ "build" :> Dir]
Locked == [Linux EXCEPT !.refuses = {"user", "root"}]
Machines == {Mac, Linux, Trunk, Locked}

Lines == {
  <<"$", "git", "status">>, <<"cd.."  >>, <<"git-log">>, <<"npminstall", "x">>, <<"mandiff">>,
  <<"gradle", "build">>, <<"pytest">>, <<"gti", "push">>, <<"gut", "log">>, <<"hmz">>,
  <<"run.sh", "now">>, <<"app.py">>, <<"go.sh">>, <<"./go.sh">>, <<"git", "git", "push">>,
  <<"git", "stauts">>, <<"git", "commit", "-amend">>, <<"python3", "app">>, <<"go", "run", "app">>,
  <<"cat", "-n", "src">>, <<"rm", "src/">>, <<"rm", "-f", "build">>, <<"mkdir", "a/b">>,
  <<"cd", "sr">>, <<"cd", "scr">>, <<"apt", "-y", "remove", "jq">>, <<"pacman", "-S", "jq">>,
  <<"ls%">>, <<"git", "push", "-u">>, <<"git", "pull">>, <<"git", "checkout", "main">>,
  <<"git", "checkout", "topic">>, <<"git", "switch", "master">>, <<"git", "switch", "-c", "topic">>,
  <<"git", "commit", "notes">>, <<"git", "rebase", "--continue">>, <<"git", "rm", "src">>,
  <<"git", "foo">>, <<"npm", "run", "tset">>, <<"pip", "install", "yaml">>, <<"docker", "ps">>,
  <<"cargo", "test">>, <<"cp", "run.sh", "out/run.sh">>, <<"cp", "src", "dst">>,
  <<"grep", "x", "src">>, <<"ssh", "web">>, <<"cargo", "-h">>, <<"sudo", "docker", "ps">>,
  <<"touch", "out/x">>, <<"bash", "x">>, <<"kubectl", "kubectl", "get">>,
  <<"git", "pull", "origin", "main">>, <<"git", "log", "master">>}
=============================================================================
