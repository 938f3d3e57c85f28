------------------------------ MODULE Spending ------------------------------
(***************************************************************************)
(* Asking models and paying for it.  Threads of the daemon and commands of *)
(* their own read the ledger, pick the models that may see the case, ask   *)
(* them in order over HTTP until one answers, and append what it cost to a *)
(* file they all share.                                                    *)
(*                                                                         *)
(* src/use_cases/routing.rs, hand_off.rs, entities/cost.rs, adapters/      *)
(* gateways/http_models.rs and jsonl_ledger.rs, and the note on the spent  *)
(* budget of use_cases/messages.rs.  A line is written by `writeln!` on an *)
(* unbuffered file, one write(2) per piece of it: two pieces stand for     *)
(* them.                                                                   *)
(***************************************************************************)
EXTENDS Brief, Naturals, Sequences, FiniteSets, SequencesExt

CONSTANTS
  Workers,   \* threads that ask
  Routed,    \* Routed[task]: the models named for a task, in order
  Server,    \* Server[name]: what the endpoint of a model accepts and counts
  Cap,       \* max_daily_cost
  MaxDay,    \* bound: days
  MaxAsks,   \* bound: questions put
  LocalOnly, \* sensitive_local_only
  Cases,     \* the failures there are to ask about
  Models,    \* the models configured, in order
  Investigate \* the names routed for investigations

\* A model as it is configured, and the names under which its protocol knows the
\* limit of an answer.
Endpoint == [name : STRING, provider : {"ollama", "openai", "anthropic", "agent"},
             local : BOOLEAN, price : Nat, address : BOOLEAN, key : BOOLEAN, official : BOOLEAN]
LimitNames(m) ==
  IF m.provider = "ollama" THEN {"num_predict"} ELSE {"max_tokens", "max_completion_tokens"}
Texts == Seq(Tokens \ {Mask})

\* Nobody types the mask.  A server that takes structured answers takes a limit
\* by a name of its protocol, or any.
ASSUME SpendingAssumption ==
  /\ IsFiniteSet(DOMAIN Routed)
  /\ \A task \in DOMAIN Routed : Routed[task] \in Seq(Endpoint)
  /\ \A task \in DOMAIN Routed : \A m \in ToSet(Routed[task]) :
       m.provider # "agent" /\ Server[m.name].structure =>
         Server[m.name].limit \in {"any"} \union LimitNames(m)
  /\ \A case \in Cases :
       case.command \in Texts /\ case.output \in Texts /\ case.recent \in Seq(Texts)
  /\ Cap \in Nat \ {0} /\ {MaxDay, MaxAsks} \subseteq Nat
  /\ LocalOnly \in BOOLEAN

VARIABLES
  today,
  file,    \* the ledger: pieces of lines in the order they were written
  lines,   \* lines begun so far
  asks,    \* questions put so far
  at,      \* at[w]: how far the worker is
  job,     \* job[w]: what it asks, and what it found out
  said,    \* said[d]: notes sent on day d
  stuck    \* refusals about the form of a request that ended a call

ledgerVars == <<today, file, lines, asks, at, job, said, stuck>>
Days == 0 .. MaxDay
-----------------------------------------------------------------------------
(***************************************************************************)
(* The ledger.                                                             *)
(***************************************************************************)
Piece(id, half, line, by) == [id |-> id, half |-> half, line |-> line, by |-> by]

\* JsonlLedger::lines: a line parses when its pieces stand alone between two
\* line ends; others are skipped.
Parses(i) ==
  /\ file[i].half = 2
  /\ i > 1 /\ file[i - 1].half = 1 /\ file[i - 1].id = file[i].id
  /\ i > 2 => file[i - 2].half = 2
Lines == {i \in DOMAIN file : Parses(i)}
Entries(kind) == {i \in Lines : file[i].line.kind = kind}

\* entry_from, CostLedger::since, spent: a sum over the lines that parse.
CallsSince(d) == {i \in Entries("call") : file[i].line.day >= d}
Priced(i) == IF file[i].line.unpriced THEN 0 ELSE file[i].line.cost
SpentSince(d) == Total([i \in DOMAIN file |-> IF i \in CallsSince(d) THEN Priced(i) ELSE 0])
SpentTomorrow(d) == SpentSince(d + 1)
SpentToday(d) == SpentSince(d)

\* over_budget
OverBudget == SpentToday(today) >= Cap

\* budget_noted
AnyCall(d) == \E i \in Entries("call") : file[i].line.day = d /\ file[i].line.unpriced
BudgetNoted(d) == \E i \in Entries("budget_noted") : file[i].line.day = d
-----------------------------------------------------------------------------
(***************************************************************************)
(* Who may be asked, and the request.                                      *)
(***************************************************************************)
\* model_candidates
May(m, onlyLocal) == m.provider # "agent" /\ (onlyLocal => m.local)
Filtered(models, onlyLocal) ==
  FoldLeft(LAMBDA out, m : IF May(m, onlyLocal) THEN Append(out, m) ELSE out, << >>, models)
Candidates(task, case, over) ==
  Filtered(Routed[task], (LocalOnly /\ IsSensitive(case)) \/ over)
\* excluded_for_budget
ExcludedForBudget(task, over) ==
  over /\ \E m \in ToSet(Routed[task]) : m.provider # "agent" /\ ~m.local

\* build_request_with: a request needs an address, and a key unless it is
\* Ollama's or local; a fix is asked for as an object, unless it is streamed.
Unbuildable(m) ==
  \/ ~m.address \/ m.provider = "agent"
  \/ m.provider = "anthropic" /\ ~m.key
  \/ m.provider = "openai" /\ ~m.key /\ ~m.local
\* output_limit_field
LimitField(m) ==
  CASE m.provider = "ollama" -> "num_predict"
    [] m.provider = "openai" /\ m.official -> "max_completion_tokens"
    [] OTHER -> "max_tokens"
Request(m, task) == [limit |-> LimitField(m), structured |-> task = "fix", again |-> FALSE]

\* renamed_output_limit, or without_structure: asked once more, changed in what
\* the refusal is about, when there is something to change.
Renamed(req) ==
  [req EXCEPT !.again = TRUE, !.limit = IF @ = "max_tokens" THEN "max_completion_tokens"
                                        ELSE "max_tokens"]
Plain(req) == [req EXCEPT !.again = TRUE, !.structured = FALSE]
NoSecondTry(req, refusal, task) == {}
SecondTry(req, refusal, task) ==
  CASE ~req.again /\ refusal = "limit" /\ req.limit # "num_predict" -> {Renamed(req)}
    [] ~req.again /\ refusal = "structure" /\ req.structured /\ task # "stream" -> {Plain(req)}
    [] OTHER -> {}

\* What a server has to say about a request: it refuses what it does not know,
\* and otherwise answers, says nothing, fails, or refuses for its own reasons.
Objections(m, req) ==
  {r \in {"limit", "structure"} :
     \/ r = "limit" /\ Server[m.name].limit \notin {"any", req.limit}
     \/ r = "structure" /\ req.structured /\ ~Server[m.name].structure}
Replies(m, req) ==
  IF Objections(m, req) # {} THEN Objections(m, req)
  ELSE {"text", "empty", "unreachable", "refused"}

\* metered: nothing for a local model, unknown for a stream, for a model without
\* a list price, and when no tokens were counted.
Entry(m, task, started) ==
  [kind |-> "call", model |-> m.name, day |-> started,
   cost |-> IF m.local THEN 0 ELSE m.price,
   unpriced |-> ~m.local /\ (task = "stream" \/ m.price = 0 \/ ~Server[m.name].counts)]
Note(d) == [kind |-> "budget_noted", model |-> "", day |-> d, cost |-> 0, unpriced |-> FALSE]
-----------------------------------------------------------------------------
(***************************************************************************)
(* The workers.                                                            *)
(***************************************************************************)
NoRequest == [limit |-> "none", structured |-> FALSE, again |-> FALSE]
NoPrompt == [system |-> "none", user |-> Document([command |-> << >>, output |-> << >>,
                                                  recent |-> << >>])]
NoJob == [task |-> "fix", over |-> FALSE, models |-> << >>, prompt |-> NoPrompt,
          req |-> NoRequest, started |-> 0, line |-> Note(0), id |-> 0]

SpendInit ==
  /\ today = 0 /\ file = << >> /\ lines = 0 /\ asks = 0
  /\ at = [w \in Workers |-> "idle"] /\ job = [w \in Workers |-> NoJob]
  /\ said = [d \in Days |-> 0] /\ stuck = {}

Goes(w, step) == at' = [at EXCEPT ![w] = step]
Ends(w) == Goes(w, "idle") /\ job' = [job EXCEPT ![w] = NoJob]
Kept == UNCHANGED <<today, file, lines, asks, said, stuck>>

\* A fix asked for by the daemon, an explanation whole or streamed to the panel:
\* over_budget, then model_candidates; with nobody left a fix may be noted.
Question(w, task, case) ==
  LET over == OverBudget  models == Candidates(task, case, over) IN
  /\ at[w] = "idle" /\ asks < MaxAsks /\ asks' = asks + 1
  /\ CASE models # << >> ->
            /\ job' = [job EXCEPT ![w] = [NoJob EXCEPT !.task = task, !.over = over, !.models = models,
                                   !.prompt = PromptFor(task, case)]]
            /\ Goes(w, "build")
       [] models = << >> /\ task = "fix" /\ ExcludedForBudget(task, over) ->
            Goes(w, "noted?") /\ UNCHANGED job
       [] OTHER -> UNCHANGED <<at, job>>
  /\ UNCHANGED <<today, file, lines, said, stuck>>

\* ask_in_order: the next model, or every one failed.
FailsOver(w) ==
  IF Len(job[w].models) = 1 THEN Ends(w)
  ELSE job' = [job EXCEPT ![w].models = Tail(@)] /\ Goes(w, "build")

Build(w) ==
  LET m == Head(job[w].models) IN
  /\ at[w] = "build"
  /\ IF Unbuildable(m) THEN FailsOver(w)
     ELSE /\ job' = [job EXCEPT ![w].req = Request(m, job[w].task), ![w].started = today]
          /\ Goes(w, "post")
  /\ Kept

\* post, parse_answer: an answer with text is metered, a refusal may be tried
\* again, anything else leaves it to the next model.
Post(w) ==
  LET m == Head(job[w].models)  req == job[w].req IN
  /\ at[w] = "post"
  /\ \E reply \in Replies(m, req) :
       CASE reply = "text" ->
              /\ job' = [job EXCEPT ![w] = [NoJob EXCEPT !.over = job[w].over,
                           !.line = Entry(m, job[w].task, job[w].started)]]
              /\ Goes(w, "meter") /\ UNCHANGED stuck
         [] reply # "text" /\ SecondTry(req, reply, job[w].task) # {} ->
              /\ job' = [job EXCEPT ![w].req =
                           CHOOSE r \in SecondTry(req, reply, job[w].task) : TRUE]
              /\ UNCHANGED <<at, stuck>>
         [] OTHER ->
              /\ FailsOver(w)
              /\ stuck' = stuck \union ({reply} \intersect {"limit", "structure"}) \X {m.name}
  /\ UNCHANGED <<today, file, lines, asks, said>>

\* JsonlLedger::append: the pieces of the line, one write each.
FirstHalf(w) ==
  /\ at[w] \in {"meter", "note"}
  /\ lines' = lines + 1
  /\ file' = Append(file, Piece(lines', 1, job[w].line, w))
  /\ job' = [job EXCEPT ![w].id = lines']
  /\ Goes(w, "half")
  /\ UNCHANGED <<today, asks, said, stuck>>
SecondHalf(w) ==
  /\ at[w] = "half"
  /\ file' = Append(file, Piece(job[w].id, 2, job[w].line, w))
  /\ Ends(w)
  /\ UNCHANGED <<today, lines, asks, said, stuck>>

\* `kintsu agent`: the brief goes to a private file, the agent takes the terminal,
\* and the file goes when it ends.  The routing of models does not concern it.
HandOff(w, case, name) ==
  LET agent == PickAgent(name, Models, Investigate) IN
  /\ at[w] = "idle" /\ asks < MaxAsks /\ asks' = asks + 1
  /\ IF agent = << >> THEN UNCHANGED <<at, job>>
     ELSE /\ job' = [job EXCEPT ![w] = [NoJob EXCEPT !.models = agent, !.over = TRUE,
                                                     !.prompt = HandOffBrief(case)]]
          /\ Goes(w, "agent")
  /\ UNCHANGED <<today, file, lines, said, stuck>>
AgentEnds(w) == at[w] = "agent" /\ Ends(w) /\ Kept

\* A ledger that cannot be written costs no answer; a process that ends takes
\* its worker along, between the two halves too.
Lost(w) ==
  /\ at[w] \in {"meter", "note", "half", "post"}
  /\ Ends(w) /\ Kept

\* say_budget_is_spent_once: the ledger is read, the shell is told unless the
\* store fails, and the ledger is told.
ReadNoted(w) ==
  /\ at[w] = "noted?"
  /\ IF BudgetNoted(today) THEN Ends(w)
     ELSE job' = [job EXCEPT ![w] = [NoJob EXCEPT !.line = Note(today)]] /\ Goes(w, "say")
  /\ Kept
Say(w) ==
  /\ at[w] = "say"
  /\ \/ /\ said' = [said EXCEPT ![job[w].line.day] = @ + 1]
        /\ Goes(w, "note") /\ UNCHANGED job
     \/ Ends(w) /\ UNCHANGED said
  /\ UNCHANGED <<today, file, lines, asks, stuck>>

Midnight ==
  /\ today < MaxDay /\ today' = today + 1
  /\ UNCHANGED <<file, lines, asks, at, job, said, stuck>>

\* What the user may name: nothing, a configured model, or something else.
AgentNames == {"", "nobody"} \union {m.name : m \in ToSet(Models)}

Worker(w) ==
  \/ \E task \in DOMAIN Routed, case \in Cases : Question(w, task, case)
  \/ \E case \in Cases, name \in AgentNames : HandOff(w, case, name)
  \/ AgentEnds(w)
  \/ Build(w) \/ Post(w)
  \/ FirstHalf(w) \/ SecondHalf(w) \/ Lost(w) \/ ReadNoted(w) \/ Say(w)

SpendNext == Midnight \/ \E w \in Workers : Worker(w)
SpendSpec == SpendInit /\ [][SpendNext]_ledgerVars
-----------------------------------------------------------------------------
(***************************************************************************)
(* Properties.                                                             *)
(***************************************************************************)
Prices == {0} \union UNION {{m.price : m \in ToSet(Routed[task])} : task \in DOMAIN Routed}

\* The ledger, its readers and the callers keep the promise of Budget: a day's
\* spend passes the cap only by calls cleared before it was reached (over_budget
\* of routing.rs read before ask_in_order, metered after it).
Cleared(w) ==
  /\ at[w] \in {"build", "post", "meter"} \/ (at[w] = "half" /\ job[w].line.kind = "call")
  /\ ~job[w].over
MaxPrice == CHOOSE p \in Prices : \A q \in Prices : q <= p
Turn ==
  [w \in Workers |-> IF ~Cleared(w) THEN "idle"
                     ELSE IF at[w] = "build" /\ job[w].req = NoRequest THEN "cleared"
                     ELSE "calling"]
Began ==
  [w \in Workers |-> IF ~Cleared(w) THEN 0
                     ELSE IF at[w] \in {"meter", "half"} THEN job[w].line.day
                     ELSE job[w].started]
Spent == [d \in Days |-> SpentSince(d) - SpentSince(d + 1)]
Promise == INSTANCE Budget WITH
  Callers <- Workers, Limit <- Cap, MaxCost <- MaxPrice, LastDay <- MaxDay, day <- today,
  spent <- Spent, turn <- Turn, began <- Began
BudgetSpec == Promise!CapSpec

\* A day's budget is noted once by each caller at most: only those who read the
\* ledger before the first note stood in it write another, whatever was torn
\* (Messages::say_budget_is_spent_once reads, then tells, then writes).
NotedOnceEach ==
  \A i, j \in Entries("budget_noted") :
    i # j /\ file[i].line.day = file[j].line.day => file[i].by # file[j].by

\* No text on its way to a model or an agent holds a secret that the patterns know,
\* and a case in which one was masked is not on its way to a model elsewhere, not
\* when the ones before it failed either (model_candidates, case_document; docs/
\* MODELS.md:92).  Agents are not models of the routing.
SecretsStay ==
  \A w \in Workers : at[w] \in {"post", "agent"} =>
    /\ NothingSecret(job[w].prompt.user)
    /\ at[w] = "post" /\ LocalOnly /\ ~Head(job[w].models).local =>
         NothingMasked(job[w].prompt.user)

\* A server with one objection to the form of a request is answered in a form it
\* takes; only one with two objections is given up for them (HttpModels::answer
\* and stream send a request at most twice).
OneObjection ==
  \A refused \in stuck :
    /\ Server[refused[2]].limit # "any" /\ ~Server[refused[2]].structure
=============================================================================
