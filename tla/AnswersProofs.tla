---------------------------- MODULE AnswersProofs ----------------------------
(***************************************************************************)
(* Proofs about Answers, for any shells, commands, threads and cases and   *)
(* whatever calls of the store fail.                                       *)
(*                                                                         *)
(* That a thread says one thing at most is not inductive by itself.  A     *)
(* thread of an offer asks a model only when the bubble said so: on its    *)
(* way there (Promised) it must not take the way of `why` or of a click    *)
(* (Ways), and it has asked nobody before it started (Unasked).  Nothing   *)
(* but Deliver says something, after which the thread is over and starts   *)
(* no more.  FocusInv, below, is about what is said.                       *)
(***************************************************************************)
EXTENDS Answers, TLAPS

Functions ==
  /\ at = [w \in Workers |-> at[w]] /\ task = [w \in Workers |-> task[w]]
  /\ pending = [w \in Workers |-> pending[w]] /\ asked \in [Workers -> BOOLEAN]
  /\ waiting = [s \in Shells |-> waiting[s]] /\ told = [s \in Shells |-> told[s]]

\* Where only `why` and where only a click on a fix comes.
Explaining == {"label", "known", "prepare", "checkText", "saveText"}
OnItsWay(w) ==
  /\ at[w] \in Explaining => task[w] = "explain"
  /\ at[w] = "last" => task[w] = "fix"
Ways     == \A w \in Workers : OnItsWay(w)
Unasked  == \A w \in Workers : at[w] = "free" => ~asked[w]
Promised == \A w \in Workers : task[w] = "offer" /\ (asked[w] \/ at[w] = "ask") => pending[w]

\* The threads whose messages shell s was or will be told.
Senders(s) == {m.from : m \in waiting[s]} \union {b.msg.from : b \in told[s]}
SaidOnce == \A s \in Shells : \A w \in Senders(s) : w \in Workers => at[w] = "done"

OnceInv == Functions /\ Ways /\ Unasked /\ Promised /\ SaidOnce
-----------------------------------------------------------------------------
LEMMA OnceInit == Init => OnceInv
  BY DEF Init, OnceInv, Functions, Ways, OnItsWay, Explaining, Unasked, Promised, SaidOnce, Senders

\* A step of a thread that says nothing.
LEMMA OnceOwn ==
  ASSUME OnceInv, NEW w \in Workers, NEW pc, Goes(w, pc), at[w] \notin {"free", "done"},
         UNCHANGED <<task, pending, waiting, told>>,
         asked' = asked \/ asked' = [asked EXCEPT ![w] = TRUE],
         pc # "free", pc \in Explaining => task[w] = "explain", pc # "last",
         task[w] = "offer" /\ (asked'[w] \/ pc = "ask") => pending[w]
  PROVE  OnceInv'
<1> USE DEF OnceInv
<1>1. /\ at' = [v \in Workers |-> IF v = w THEN pc ELSE at[v]]
      /\ at'[w] = pc /\ \A v \in Workers \ {w} : at'[v] = at[v]
  BY DEF Functions, Goes
<1>2. /\ asked' \in [Workers -> BOOLEAN]
      /\ \A v \in Workers \ {w} : asked'[v] = asked[v]
  BY DEF Functions
<1>3. Functions'  BY <1>1, <1>2 DEF Functions
<1>4. Ways'       BY <1>1 DEF Ways, OnItsWay, Explaining
<1>5. Unasked'    BY <1>1, <1>2 DEF Unasked
<1>6. Promised'   BY <1>1, <1>2 DEF Promised
<1>7. SaidOnce'   BY <1>1 DEF SaidOnce, Senders
<1> QED BY <1>3, <1>4, <1>5, <1>6, <1>7

\* A thread that says nothing, by how far it is.
LEMMA OnceKeeping ==
  ASSUME OnceInv, NEW w \in Workers, Capture(w) \/ CheckLast(w) \/ Save(w) \/ Rules(w)
  PROVE  OnceInv'
<1> USE DEF Alone, copies, history
<1>1. task[w] = "offer" /\ asked[w] => pending[w]  BY DEF OnceInv, Promised
<1>2. CASE Capture(w)
  <2>1. PICK pc \in {"rules", "checkOutput"} : Goes(w, pc)  BY <1>2 DEF Capture
  <2> QED BY <1>1, <1>2, <2>1, OnceOwn DEF Capture, Explaining
<1>3. CASE CheckLast(w) \/ Save(w)
  <2>1. PICK pc \in {"saveOutput", "saveFix", "saveText", "rules", "deliver", "focus"} :
          /\ Goes(w, pc) /\ (pc = "saveText" => at[w] = "checkText")
          /\ at[w] \in {"checkOutput", "checkFix", "checkText", "saveOutput", "saveFix", "saveText"}
    BY <1>3 DEF CheckLast, Save, SaveStep, After
  <2>2. UNCHANGED <<task, pending, asked, waiting, told>>
    BY <1>3 DEF CheckLast, Save
  <2>3. pc = "saveText" => task[w] = "explain"
    BY <2>1 DEF OnceInv, Ways, OnItsWay, Explaining
  <2> QED BY <1>1, <2>1, <2>2, <2>3, OnceOwn DEF Explaining
<1>4. CASE Rules(w)
  <2>1. PICK pc \in {"done", "focus", "ask"} : Goes(w, pc) /\ (pc = "ask" => pending[w])
    BY <1>4 DEF Rules, ThenAsk
  <2> QED BY <1>1, <1>4, <2>1, OnceOwn DEF Rules, Explaining
<1> QED BY <1>2, <1>3, <1>4

LEMMA OnceAsking ==
  ASSUME OnceInv, NEW w \in Workers,
         NobodyToAsk(w) \/ HadNothing(w) \/ HadFix(w) \/ HadText(w)
  PROVE  OnceInv'
<1> USE DEF Alone, copies
<1>1. task[w] = "offer" => pending[w]
  BY DEF OnceInv, Promised, NobodyToAsk, HadNothing, HadFix, HadText
<1>2. PICK pc \in {"done", "deliver", "focus", "checkFix", "checkText"} :
        Goes(w, pc) /\ (pc = "checkText" => task[w] = "explain")
  BY DEF NobodyToAsk, HadNothing, HadFix, HadText
<1>3. /\ at[w] = "ask" /\ UNCHANGED <<task, pending, waiting, told>>
      /\ asked' = asked \/ asked' = [asked EXCEPT ![w] = TRUE]
  BY DEF NobodyToAsk, HadNothing, HadFix, HadText
<1> QED BY <1>1, <1>2, <1>3, OnceOwn DEF Explaining

LEMMA OnceReading ==
  ASSUME OnceInv, NEW w \in Workers,
         \/ FocusCase(w) \/ FocusCommand(w) \/ ReadLabel(w)
         \/ ReadKnown(w) \/ Prepare(w) \/ ReadLast(w)
  PROVE  OnceInv'
<1> USE DEF Alone
<1>1. task[w] = "offer" /\ asked[w] => pending[w]  BY DEF OnceInv, Promised
<1>2. /\ at[w] \in Reading /\ UNCHANGED <<task, pending, asked, waiting, told>>
  BY DEF FocusCase, FocusCommand, ReadLabel, ReadKnown, Prepare, ReadLast, Reading
<1>3. at[w] \in {"label", "known", "prepare", "last"} => task[w] # "offer"
  BY DEF OnceInv, Ways, OnItsWay, Explaining
<1>4. at[w] \in {"label", "known", "prepare"} => task[w] = "explain"
  BY DEF OnceInv, Ways, OnItsWay, Explaining
<1>5. PICK pc \in {"focusCommand", "checkFix", "deliver", "done", "known", "prepare", "ask", "focus"} :
        /\ Goes(w, pc)
        /\ pc \in {"known", "prepare"} => at[w] \in {"label", "known"}
        /\ pc = "ask" => at[w] \in {"prepare", "last"}
  BY DEF FocusCase, FocusCommand, Decides, AfterFocus, ReadLabel, ReadKnown, Prepare, ReadLast
<1> QED BY <1>1, <1>2, <1>3, <1>4, <1>5, OnceOwn DEF Explaining, Reading

LEMMA OnceError == ASSUME OnceInv, NEW w \in Workers, StoreError(w) PROVE OnceInv'
<1> USE DEF Alone
<1>1. task[w] = "offer" /\ asked[w] => pending[w]  BY DEF OnceInv, Promised
<1>2. PICK pc \in {"focus", "ask", "done"} : Goes(w, pc) /\ (pc = "ask" => pending[w])
  BY DEF StoreError, ThenAsk
<1> QED BY <1>1, <1>2, OnceOwn DEF StoreError, Reading, Keeping, Explaining
-----------------------------------------------------------------------------
\* A message comes from its thread, which is over.
LEMMA OnceDeliver == ASSUME OnceInv, NEW w \in Workers, Deliver(w) PROVE OnceInv'
<1> USE DEF OnceInv
<1>1. at' = [at EXCEPT ![w] = "done"] /\ UNCHANGED <<task, pending, asked, told>>
  BY DEF Deliver, Goes, AfterDelivery
<1>2. at'[w] = "done" /\ \A v \in Workers \ {w} : at'[v] = at[v]
  BY <1>1 DEF Functions
<1>3. waiting' = [s \in Shells |-> IF s = home[w] THEN waiting[s] \union {Message(w)} ELSE waiting[s]]
  BY DEF Deliver, Functions
<1>4. Message(w).from = w  BY DEF Message, Letter
<1>5. Functions'  BY <1>1, <1>3 DEF Functions
<1>6. Ways' /\ Unasked' /\ Promised'
  BY <1>1, <1>2, at[w] = "deliver" DEF Deliver, Ways, OnItsWay, Explaining, Unasked, Promised
<1>7. SaidOnce'
  <2>1. ASSUME NEW s \in Shells PROVE Senders(s)' \subseteq Senders(s) \union {w}
    BY <1>1, <1>3, <1>4 DEF Senders
  <2> QED BY <1>2, <2>1 DEF SaidOnce
<1> QED BY <1>5, <1>6, <1>7

\* What is printed was waiting, and a mark leaves the sender alone.
LEMMA OnceShown ==
  ASSUME OnceInv, NEW s \in Shells, NEW M, NEW marked,
         Shows(s, M, marked), waiting' = [waiting EXCEPT ![s] = {}],
         {m.from : m \in M} \subseteq {m.from : m \in waiting[s]}
  PROVE  /\ \A r \in Shells : Senders(r)' \subseteq Senders(r)
         /\ waiting' = [r \in Shells |-> waiting'[r]] /\ told' = [r \in Shells |-> told'[r]]
<1>1. /\ told' = [r \in Shells |-> IF r = s THEN told[r] \union {Bubble(s, m, marked) : m \in M}
                                    ELSE told[r]]
      /\ waiting' = [r \in Shells |-> IF r = s THEN {} ELSE waiting[r]]
  BY DEF Shows, OnceInv, Functions
<1>2. \A m : Bubble(s, m, marked).msg = m  BY DEF Bubble
<1>3. {b.msg.from : b \in {Bubble(s, m, marked) : m \in M}} \subseteq {m.from : m \in waiting[s]}
  BY <1>2
<1>4. \A r \in Shells : Senders(r)' \subseteq Senders(r)
  BY <1>1, <1>3 DEF Senders
<1> QED BY <1>1, <1>4

LEMMA MarkKeepsSenders ==
  ASSUME NEW s \in Shells PROVE {m.from : m \in MarkLate(s, waiting[s])} \subseteq {m.from : m \in waiting[s]}
  BY DEF MarkLate, Letter

LEMMA OncePoll == ASSUME OnceInv, NEW s \in Shells, Poll(s) PROVE OnceInv'
<1>1. /\ \A r \in Shells : Senders(r)' \subseteq Senders(r)
      /\ waiting' = [r \in Shells |-> waiting'[r]] /\ told' = [r \in Shells |-> told'[r]]
  BY OnceShown DEF Poll
<1>2. UNCHANGED <<at, task, pending, asked>>  BY DEF Poll, threads, copies
<1> QED BY <1>1, <1>2 DEF OnceInv, Functions, Ways, OnItsWay, Unasked, Promised, SaidOnce

\* A thread that starts was free: it has said and asked nothing.
LEMMA OnceStart ==
  ASSUME OnceInv, NEW w \in Workers, NEW s, NEW t, NEW pc, NEW c, Start(w, s, t, pc, c),
         pc \notin {"free", "ask"}, pc \in Explaining => t = "explain", pc = "last" => t = "fix",
         pending' = [v \in Workers |-> pending'[v]], \A v \in Workers \ {w} : pending'[v] = pending[v],
         \A r \in Shells : Senders(r)' \subseteq Senders(r),
         waiting' = [r \in Shells |-> waiting'[r]], told' = [r \in Shells |-> told'[r]]
  PROVE  OnceInv'
<1> USE DEF OnceInv
<1>1. /\ at[w] = "free" /\ asked' = asked
      /\ at' = [v \in Workers |-> IF v = w THEN pc ELSE at[v]]
      /\ task' = [v \in Workers |-> IF v = w THEN t ELSE task[v]]
  BY DEF Start, Functions
<1>2. ~asked[w]  BY <1>1 DEF Unasked
<1>3. Functions'  BY <1>1 DEF Functions
<1>4. Ways'       BY <1>1 DEF Ways, OnItsWay, Explaining
<1>5. Unasked'    BY <1>1 DEF Unasked
<1>6. Promised'   BY <1>1, <1>2 DEF Promised
<1>7. SaidOnce'   BY <1>1 DEF SaidOnce
<1> QED BY <1>3, <1>4, <1>5, <1>6, <1>7

\* The user asks: `kintsu why` or a click.
LEMMA OnceAsked ==
  ASSUME OnceInv, NEW w \in Workers,
         (\E s \in Shells : Why(w, s)) \/ (\E c \in DOMAIN facts : Click(w, c))
  PROVE  OnceInv'
<1>1. UNCHANGED <<pending, waiting, told>>  BY DEF Why, Click
<1>2. /\ pending' = [v \in Workers |-> pending'[v]] /\ \A v \in Workers \ {w} : pending'[v] = pending[v]
      /\ \A r \in Shells : Senders(r)' \subseteq Senders(r)
      /\ waiting' = [r \in Shells |-> waiting'[r]] /\ told' = [r \in Shells |-> told'[r]]
  BY <1>1 DEF OnceInv, Functions, Senders
<1>3. PICK s, c : \/ Start(w, s, "explain", "label", c) \/ Start(w, s, "fix", "last", c)
                 \/ Start(w, s, "note", "deliver", c)
  BY DEF Why, Click, FixNow, NoteOn
<1> QED BY <1>2, <1>3, OnceStart DEF Explaining

\* The hook's frame: what it drains was waiting, what it starts is an offer.
LEMMA OnceFrame == ASSUME OnceInv, NEW s \in Shells, Frame(s) PROVE OnceInv'
<1>1. CASE SaveOffer(s) \/ OfferFails(s)
  <2>1. UNCHANGED <<at, task, pending, asked, waiting, told>>
    BY <1>1 DEF SaveOffer, OfferFails, threads, copies
  <2> QED BY <2>1 DEF OnceInv, Functions, Ways, OnItsWay, Unasked, Promised, SaidOnce, Senders
<1>2. CASE Reply(s)
  <2>1. PICK M, marked : Shows(s, M, marked) /\ M \in {waiting[s], MarkLate(s, waiting[s])}
    BY <1>2 DEF Reply
  <2>2. {m.from : m \in M} \subseteq {m.from : m \in waiting[s]}
    BY <2>1, MarkKeepsSenders
  <2>3. /\ \A r \in Shells : Senders(r)' \subseteq Senders(r)
        /\ waiting' = [r \in Shells |-> waiting'[r]] /\ told' = [r \in Shells |-> told'[r]]
    BY <1>2, <2>1, <2>2, OnceShown DEF Reply
  <2>4. CASE offer[s].case = 0
    <3>1. UNCHANGED <<at, task, pending, asked>>  BY <1>2, <2>4 DEF Reply, threads, copies
    <3> QED BY <2>3, <3>1 DEF OnceInv, Functions, Ways, OnItsWay, Unasked, Promised, SaidOnce
  <2>5. CASE offer[s].case # 0
    <3>1. PICK w \in Workers : /\ Start(w, s, "offer", "capture", offer[s].case)
                              /\ pending' = [pending EXCEPT ![w] = offer[s].asking]
      BY <1>2, <2>5 DEF Reply
    <3>2. /\ pending' = [v \in Workers |-> pending'[v]]
          /\ \A v \in Workers \ {w} : pending'[v] = pending[v]
      BY <3>1 DEF OnceInv, Functions
    <3>3. PICK c : Start(w, s, "offer", "capture", c)  BY <3>1
    <3>4. "capture" \notin {"free", "ask"} /\ "capture" \notin Explaining /\ "capture" # "last"
      BY DEF Explaining
    <3> HIDE DEF Explaining
    <3> QED BY <2>3, <3>2, <3>3, <3>4, OnceStart
  <2> QED BY <2>4, <2>5
<1> QED BY <1>1, <1>2 DEF Frame

LEMMA OnceStep == ASSUME OnceInv, [Next]_vars PROVE OnceInv'
<1>1. CASE UNCHANGED vars \/ \E s \in Shells, what \in What : Quiet(s, what) \/ Fails(s, what)
  <2>1. UNCHANGED <<at, task, pending, asked, waiting, told>>
    BY <1>1 DEF vars, threads, copies, Quiet, Fails
  <2> QED BY <2>1 DEF OnceInv, Functions, Ways, OnItsWay, Unasked, Promised, SaidOnce, Senders
<1>2. CASE \E w \in Workers : Step(w)
  BY <1>2, OnceKeeping, OnceAsking, OnceReading, OnceError, OnceDeliver DEF Step
<1>3. CASE \E s \in Shells : Frame(s) \/ Poll(s)
  BY <1>3, OnceFrame, OncePoll
<1>4. CASE \E w \in Workers : \/ \E s \in Shells : Why(w, s)
                              \/ \E c \in DOMAIN facts : Click(w, c)
  BY <1>4, OnceAsked
<1> QED BY <1>1, <1>2, <1>3, <1>4 DEF Next

LEMMA OnceMeans == OnceInv => AnsweredOnce
  BY DEF OnceInv, SaidOnce, Senders, Promised, AnsweredOnce, Said, Messages, Bubbles

\* Whatever its store calls do, a thread of the daemon sends at most one message
\* and is over with it, and one that was started by an offer asks a model only if
\* the bubble said so (on_command_finished, Messages::fix).
THEOREM OneAnswer == Spec => []AnsweredOnce
<1>1. Init => OnceInv                      BY OnceInit
<1>2. OnceInv /\ [Next]_vars => OnceInv'  BY OnceStep
<1>3. OnceInv => AnsweredOnce              BY OnceMeans
<1> QED BY <1>1, <1>2, <1>3, PTL DEF Spec
-----------------------------------------------------------------------------
(***************************************************************************)
(* What is late, what is current and what is kept.                         *)
(*                                                                         *)
(* A case that its shell did not leave is the newest of the shell and was  *)
(* its last command (NotLeft), so a thread that finds it stale finds a     *)
(* case that was left, unless a save made an older one the last (Sound).   *)
(***************************************************************************)
Places ==
  {"free", "done", "capture", "rules", "focus", "focusCommand", "label", "known", "prepare",
   "last", "ask", "deliver", "checkOutput", "saveOutput", "checkFix", "saveFix", "checkText",
   "saveText"}
Tasks  == {"offer", "explain", "fix", "note"}
Bodies == {"fix", "explanation", "note", "none"}
Facts  == [shell : Shells, what : What]
Offers == [case : Nat, said : Offerable, asking : BOOLEAN]

ShellTypes ==
  /\ recent \in [Shells -> What \union {None}]
  /\ last \in [Shells -> Nat]
  /\ frame \in [Shells -> {"idle", "recorded", "decided"}]
  /\ offer \in [Shells -> Offers]
  /\ revived \in [Shells -> BOOLEAN]
  /\ waiting = [s \in Shells |-> waiting[s]] /\ told = [s \in Shells |-> told[s]]
CaseTypes ==
  /\ facts \in Seq(Facts)
  /\ doc \in Seq(Document) /\ Len(doc) = Len(facts)
ThreadTypes ==
  /\ at \in [Workers -> Places] /\ task \in [Workers -> Tasks]
  /\ home \in [Workers -> Shells \union {None}]
  /\ label \in [Workers -> Nat] /\ about \in [Workers -> Nat]
  /\ draft \in [Workers -> Document] /\ result \in [Workers -> Bodies]
  /\ pending \in [Workers -> BOOLEAN] /\ asked \in [Workers -> BOOLEAN]
  /\ fresh \in [Workers -> BOOLEAN]
TypeOK == ShellTypes /\ CaseTypes /\ ThreadTypes

\* A case that was not left.
NotLeft ==
  \A s \in Shells : \A c \in CasesOf(s) \ left :
    /\ recent[s] = facts[c].what /\ frame[s] # "recorded"
    /\ \A d \in CasesOf(s) : d <= c
    /\ ~revived[s] => last[s] = c
Recorded ==
  \A s \in Shells :
    /\ CasesOf(s) # {} \/ frame[s] = "recorded" => recent[s] # None
    /\ last[s] \in CasesOf(s) \union {0} /\ (CasesOf(s) # {} => last[s] # 0)
    /\ offer[s].case \in CasesOf(s) \union {0}
    /\ offer[s].case # 0 => frame[s] = "decided"

\* Somebody says, or said, what a model found for case c.
Backed(c) == \E w \in Workers : about[w] = c /\ (at[w] = "deliver" \/ Said(w))

\* What a thread holds, by how far it is.
BeforeAsking == {"capture", "rules", "checkOutput", "saveOutput", "ask"}
Deciding     == {"checkFix", "saveFix", "deliver"}
Stale(s, c)  == revived[s] \/ c \in left
LateInHand(w) == draft[w].proposal = "late"

Knows(w) ==
  /\ at[w] # "free" => home[w] \in Shells
  /\ at[w] \notin {"free", "done", "label", "last"} => label[w] \in CasesOf(home[w])
  /\ at[w] \in Keeping \union {"ask"} => about[w] \in CasesOf(home[w])
  /\ at[w] # "free" /\ task[w] = "offer" => about[w] = label[w]
  /\ at[w] \in BeforeAsking \ {"ask"} => task[w] = "offer"
Dated(w) ==
  at[w] \in Deciding /\ task[w] \in {"offer", "explain"} /\ ~fresh[w] =>
    Stale(home[w], label[w])
Drafted(w) ==
  /\ task[w] = "offer" /\ at[w] \in BeforeAsking => ~asked[w]
  /\ task[w] = "offer" /\ at[w] # "free" /\ LateInHand(w) => asked[w]
  /\ at[w] \in {"ask", "checkText", "saveText"} /\ LateInHand(w) => Backed(about[w])
Sound == \A w \in Workers : Knows(w) /\ Dated(w) /\ Drafted(w)

\* What a shell hears.
Addressed ==
  \A s \in Shells : \A m \in Messages(s) :
    m.label \in CasesOf(s) /\ (m.late => Stale(s, m.label))
Current ==
  \A s \in Shells : \A b \in told[s] :
    b.marked /\ ~b.msg.late => facts[b.msg.label].what = b.under

FocusInv ==
  TypeOK /\ OnceInv /\ NotLeft /\ Recorded /\ Sound /\ Addressed /\ Current /\ KeptIsSaid
-----------------------------------------------------------------------------
(***************************************************************************)
(* Types.                                                                  *)
(***************************************************************************)
LEMMA Documents ==
  /\ Blank \in Document /\ Offerable \subseteq Document
  /\ \A d \in Document : /\ [d EXCEPT !.output = TRUE] \in Document
                         /\ [d EXCEPT !.proposal = "late"] \in Document
                         /\ [d EXCEPT !.proposal = "rule"] \in Document
                         /\ [d EXCEPT !.explained = "model"] \in Document
                         /\ [d EXCEPT !.proposal = "late"].proposal = "late"
                         /\ [d EXCEPT !.proposal = "rule"].proposal = "rule"
                         /\ [d EXCEPT !.output = TRUE].proposal = d.proposal
                         /\ [d EXCEPT !.explained = "model"].proposal = d.proposal
  /\ \A d \in Offerable : d.proposal # "late"
  /\ Blank.proposal = "none"
<1>1. Blank \in Document /\ Blank.proposal = "none"
  BY DEF Document, Blank
<1>2. Offerable \subseteq Document
  <2>1. \A d \in Document : /\ [d EXCEPT !.proposal = "rule"] \in Document
                           /\ [d EXCEPT !.explained = "rule"] \in Document
    BY DEF Document
  <2> QED BY <1>1, <2>1 DEF Offerable
<1>3. \A d \in Offerable : d.proposal # "late"
  BY DEF Blank, Offerable
<1>4. ASSUME NEW d \in Document
      PROVE  /\ [d EXCEPT !.output = TRUE] \in Document
             /\ [d EXCEPT !.proposal = "late"] \in Document
             /\ [d EXCEPT !.proposal = "rule"] \in Document
             /\ [d EXCEPT !.explained = "model"] \in Document
  BY DEF Document
<1>5. ASSUME NEW d \in Document
      PROVE  /\ [d EXCEPT !.proposal = "late"].proposal = "late"
             /\ [d EXCEPT !.proposal = "rule"].proposal = "rule"
             /\ [d EXCEPT !.output = TRUE].proposal = d.proposal
             /\ [d EXCEPT !.explained = "model"].proposal = d.proposal
  BY DEF Document
<1> QED BY <1>1, <1>2, <1>3, <1>4, <1>5

LEMMA InitTypes == Init => TypeOK
<1> SUFFICES ASSUME Init PROVE TypeOK
  OBVIOUS
<1>1. NoOffer \in Offers
  BY DEF NoOffer, Offers, Offerable
<1>2. ShellTypes
  BY <1>1 DEF Init, ShellTypes
<1>3. CaseTypes
  BY DEF Init, CaseTypes
<1>4. ThreadTypes
  BY Documents DEF Init, ThreadTypes, Places, Tasks, Bodies
<1> QED BY <1>2, <1>3, <1>4 DEF TypeOK

\* The cases of a shell are numbered as the cases are.
LEMMA CaseFacts ==
  ASSUME TypeOK
  PROVE  /\ DOMAIN facts = 1 .. Len(facts) /\ DOMAIN doc = DOMAIN facts
         /\ \A c \in DOMAIN facts : facts[c] \in Facts /\ doc[c] \in Document
         /\ \A s : CasesOf(s) \subseteq DOMAIN facts
         /\ \A c \in DOMAIN facts : c \in Nat /\ c # 0
         /\ \A c \in DOMAIN facts : c \in CasesOf(facts[c].shell) /\ facts[c].shell \in Shells
<1>1. facts \in Seq(Facts) /\ doc \in Seq(Document) /\ Len(doc) = Len(facts)
  BY DEF TypeOK, CaseTypes
<1>2. DOMAIN facts = 1 .. Len(facts) /\ DOMAIN doc = DOMAIN facts /\ Len(facts) \in Nat
  BY <1>1
<1>3. \A c \in DOMAIN facts : facts[c] \in Facts /\ doc[c] \in Document
  BY <1>1, <1>2
<1>4. \A c \in DOMAIN facts : c \in Nat /\ c # 0
  BY <1>2
<1>5. \A s : CasesOf(s) \subseteq DOMAIN facts
  BY DEF CasesOf
<1>6. \A c \in DOMAIN facts : c \in CasesOf(facts[c].shell) /\ facts[c].shell \in Shells
  BY <1>3 DEF CasesOf, Facts
<1> QED BY <1>2, <1>3, <1>4, <1>5, <1>6

\* A step of a thread changes what is its own.
Own(w) ==
  /\ \E pc \in Places : Goes(w, pc)
  /\ UNCHANGED <<task, home, pending>>
  /\ \E n \in Nat : label' = label \/ label' = [label EXCEPT ![w] = n]
  /\ \E n \in Nat : about' = about \/ about' = [about EXCEPT ![w] = n]
  /\ \E d \in Document : draft' = draft \/ draft' = [draft EXCEPT ![w] = d]
  /\ \E b \in Bodies : result' = result \/ result' = [result EXCEPT ![w] = b]
  /\ asked' = asked \/ asked' = [asked EXCEPT ![w] = TRUE]
  /\ \E b \in BOOLEAN : fresh' = fresh \/ fresh' = [fresh EXCEPT ![w] = b]

LEMMA OwnTypes ==
  ASSUME TypeOK, NEW w \in Workers, Own(w)
  PROVE  ThreadTypes'
<1>1. PICK pc \in Places : at' = [at EXCEPT ![w] = pc]
  BY DEF Own, Goes
<1>2. at' \in [Workers -> Places] /\ task' \in [Workers -> Tasks]
      /\ home' \in [Workers -> Shells \union {None}] /\ pending' \in [Workers -> BOOLEAN]
  BY <1>1 DEF TypeOK, ThreadTypes, Own
<1>3. label' \in [Workers -> Nat] /\ about' \in [Workers -> Nat]
  BY DEF TypeOK, ThreadTypes, Own
<1>4. draft' \in [Workers -> Document] /\ result' \in [Workers -> Bodies]
  BY DEF TypeOK, ThreadTypes, Own
<1>5. asked' \in [Workers -> BOOLEAN] /\ fresh' \in [Workers -> BOOLEAN]
  BY DEF TypeOK, ThreadTypes, Own
<1> QED BY <1>2, <1>3, <1>4, <1>5 DEF ThreadTypes

\* What no thread changes but its own.
LEMMA OthersKept ==
  ASSUME TypeOK, NEW w \in Workers, Own(w), NEW v \in Workers, v # w
  PROVE  /\ at'[v] = at[v] /\ label'[v] = label[v] /\ about'[v] = about[v]
         /\ draft'[v] = draft[v] /\ asked'[v] = asked[v] /\ fresh'[v] = fresh[v]
BY DEF TypeOK, ThreadTypes, Own, Goes

LEMMA KeepingOwn ==
  ASSUME TypeOK, NEW w \in Workers, Capture(w) \/ CheckLast(w) \/ Save(w) \/ Rules(w)
  PROVE  Own(w)
<1>0. draft[w] \in Document /\ "fix" \in Bodies
  BY DEF TypeOK, ThreadTypes, Bodies
<1>1. CASE Capture(w)
  <2>1. \E pc \in Places : Goes(w, pc)
    BY <1>1 DEF Capture, Places
  <2>2. draft' = draft \/ draft' = [draft EXCEPT ![w] = [draft[w] EXCEPT !.output = TRUE]]
    BY <1>1 DEF Capture, TypeOK, ThreadTypes
  <2> QED BY <1>0, <1>1, <2>1, <2>2, Documents DEF Capture, Own, Alone
<1>2. CASE CheckLast(w) \/ Save(w)
  <2>1. \E pc \in Places : Goes(w, pc)
    BY <1>2 DEF CheckLast, Save, SaveStep, After, Places
  <2> QED BY <1>0, <1>2, <2>1 DEF CheckLast, Save, Own, Alone, copies
<1>3. CASE Rules(w)
  <2>1. \E pc \in Places : Goes(w, pc)
    BY <1>3 DEF Rules, ThenAsk, Places
  <2>2. draft' = draft \/ draft' = [draft EXCEPT ![w] = [draft[w] EXCEPT !.proposal = "rule"]]
    BY <1>3 DEF Rules, TypeOK, ThreadTypes
  <2>3. result' = result \/ result' = [result EXCEPT ![w] = "fix"]
    BY <1>3 DEF Rules
  <2> QED BY <1>0, <1>3, <2>1, <2>2, <2>3, Documents DEF Rules, Own, Alone
<1> QED BY <1>1, <1>2, <1>3

LEMMA AskingOwn ==
  ASSUME TypeOK, NEW w \in Workers,
         NobodyToAsk(w) \/ HadNothing(w) \/ HadFix(w) \/ HadText(w)
  PROVE  Own(w)
<1>0. draft[w] \in Document /\ {"fix", "note", "explanation"} \subseteq Bodies
  BY DEF TypeOK, ThreadTypes, Bodies
<1>1. \E pc \in Places : Goes(w, pc)
  BY DEF NobodyToAsk, HadNothing, HadFix, HadText, Places
<1>2. \/ draft' = draft \/ draft' = [draft EXCEPT ![w] = [draft[w] EXCEPT !.proposal = "late"]]
      \/ draft' = [draft EXCEPT ![w] = [draft[w] EXCEPT !.explained = "model"]]
  BY DEF NobodyToAsk, HadNothing, HadFix, HadText, TypeOK, ThreadTypes, Alone, copies
<1>3. \E d \in Document : draft' = draft \/ draft' = [draft EXCEPT ![w] = d]
  BY <1>0, <1>2, Documents
<1>4. \E b \in Bodies : result' = result \/ result' = [result EXCEPT ![w] = b]
  BY <1>0 DEF NobodyToAsk, HadNothing, HadFix, HadText, copies
<1> QED BY <1>1, <1>3, <1>4 DEF NobodyToAsk, HadNothing, HadFix, HadText, Own, Alone, copies

LEMMA ReadingOwn ==
  ASSUME TypeOK, Recorded, NEW w \in Workers, Knows(w),
         \/ FocusCase(w) \/ FocusCommand(w) \/ ReadLabel(w)
         \/ ReadKnown(w) \/ Prepare(w) \/ ReadLast(w) \/ StoreError(w)
  PROVE  Own(w)
<1>0. {"fix", "note", "explanation", "none"} \subseteq Bodies
  BY DEF Bodies
<1>1. \E pc \in Places : Goes(w, pc)
  BY DEF FocusCase, FocusCommand, Decides, AfterFocus, ReadLabel, ReadKnown, Prepare, ReadLast,
         StoreError, ThenAsk, Places
<1>2. \E b \in BOOLEAN : fresh' = fresh \/ fresh' = [fresh EXCEPT ![w] = b]
  <2>1. (~MovedOn(home[w], label[w])) \in BOOLEAN
    OBVIOUS
  <2> QED BY <2>1 DEF FocusCase, FocusCommand, Decides, ReadLabel, ReadKnown, Prepare, ReadLast, StoreError
<1>3. UNCHANGED <<task, home, pending, asked>>
  BY DEF FocusCase, FocusCommand, ReadLabel, ReadKnown, Prepare, ReadLast, StoreError, Alone
<1>4. \E b \in Bodies : result' = result \/ result' = [result EXCEPT ![w] = b]
  BY <1>0 DEF FocusCase, FocusCommand, ReadLabel, ReadKnown, Prepare, ReadLast, StoreError
<1>5. CASE ReadLabel(w) \/ ReadKnown(w) \/ Prepare(w) \/ ReadLast(w)
  <2>1. home[w] \in Shells
    BY <1>5 DEF Knows, ReadLabel, ReadKnown, Prepare, ReadLast
  <2>2. LastCase(home[w]) \in Nat
    BY <2>1 DEF TypeOK, ShellTypes, LastCase
  <2>3. Prepare(w) \/ ReadLast(w) => doc[LastCase(home[w])] \in Document
    <3>1. LastCase(home[w]) = 0 \/ LastCase(home[w]) \in DOMAIN facts
      BY <2>1 DEF Recorded, LastCase, CasesOf
    <3>2. Prepare(w) => LastCase(home[w]) # 0
      BY <2>1, CaseFacts DEF Prepare, Knows, Recorded, LastCase
    <3> QED BY <3>1, <3>2, CaseFacts DEF ReadLast
  <2>4. \E n \in Nat : label' = label \/ label' = [label EXCEPT ![w] = n]
    BY <1>5, <2>2 DEF ReadLabel, ReadKnown, Prepare, ReadLast
  <2>5. \E n \in Nat : about' = about \/ about' = [about EXCEPT ![w] = n]
    BY <1>5, <2>2 DEF ReadLabel, ReadKnown, Prepare, ReadLast
  <2>6. \E d \in Document : draft' = draft \/ draft' = [draft EXCEPT ![w] = d]
    BY <1>5, <2>3, Documents DEF ReadLabel, ReadKnown, Prepare, ReadLast
  <2> QED BY <1>1, <1>2, <1>3, <1>4, <2>4, <2>5, <2>6 DEF Own
<1>6. CASE FocusCase(w) \/ FocusCommand(w) \/ StoreError(w)
  <2>1. UNCHANGED <<label, about, draft>>
    BY <1>6 DEF FocusCase, FocusCommand, StoreError
  <2> QED BY <1>1, <1>2, <1>3, <1>4, <2>1, Documents DEF Own
<1> QED BY <1>5, <1>6
-----------------------------------------------------------------------------
(***************************************************************************)
(* What only grows: the cases of a shell, what was left, what was said.    *)
(***************************************************************************)
SameFacts == \A c \in DOMAIN facts : c \in DOMAIN facts' /\ facts'[c] = facts[c]
Grows ==
  /\ SameFacts
  /\ left \subseteq left'
  /\ \A s \in Shells : revived[s] => revived'[s]
  /\ \A c : Backed(c) => Backed(c)'

LEMMA GrowsOn ==
  ASSUME Grows
  PROVE  /\ \A s : CasesOf(s) \subseteq CasesOf(s)'
         /\ \A s \in Shells : \A c : Stale(s, c) => Stale(s, c)'
BY DEF Grows, SameFacts, CasesOf, Stale

\* A thread that did nothing keeps what it knows.
LEMMA OthersSound ==
  ASSUME Grows, NEW v \in Workers, Knows(v) /\ Dated(v) /\ Drafted(v),
         at'[v] = at[v], task'[v] = task[v], home'[v] = home[v], label'[v] = label[v],
         about'[v] = about[v], draft'[v] = draft[v], asked'[v] = asked[v], fresh'[v] = fresh[v]
  PROVE  (Knows(v) /\ Dated(v) /\ Drafted(v))'
<1>1. Knows(v)'
  BY GrowsOn DEF Knows
<1>2. Dated(v)'
  BY GrowsOn DEF Dated, Knows, Deciding
<1>3. Drafted(v)'
  BY DEF Grows, Drafted, LateInHand
<1> QED BY <1>1, <1>2, <1>3

\* A message on its way is said in the end, and its thread stays with its case.
LEMMA BackedStays ==
  ASSUME OnceInv, NEW c, Backed(c),
         \A w \in Workers : at[w] = "deliver" => at'[w] = "deliver" \/ Said(w)',
         \A w \in Workers : at[w] \in {"deliver", "done"} => about'[w] = about[w],
         \A w \in Workers : Said(w) => Said(w)'
  PROVE  Backed(c)'
<1>1. PICK w \in Workers : about[w] = c /\ (at[w] = "deliver" \/ Said(w))
  BY DEF Backed
<1>2. Said(w) => at[w] = "done"
  BY OnceMeans DEF AnsweredOnce
<1> QED BY <1>1, <1>2 DEF Backed

LEMMA SaidStays ==
  ASSUME \A s \in Shells : waiting[s] \subseteq waiting'[s] /\ told[s] \subseteq told'[s]
  PROVE  \A w : Said(w) => Said(w)'
BY DEF Said, Messages, Bubbles

\* A thread that neither says nor keeps something.
LEMMA OwnGrows ==
  ASSUME TypeOK, OnceInv, NEW w \in Workers, Own(w), UNCHANGED <<facts, left, revived, waiting, told>>,
         at[w] \notin {"deliver", "done"}
  PROVE  Grows
<1>1. \A v \in Workers : at[v] \in {"deliver", "done"} => at'[v] = at[v] /\ about'[v] = about[v]
  BY OthersKept
<1>2. \A c : Backed(c) => Backed(c)'
  BY <1>1, SaidStays, BackedStays
<1> QED BY <1>2 DEF Grows, SameFacts

\* Where only threads move, what shells and cases know stays.
LEMMA ShellsKept ==
  ASSUME UNCHANGED <<recent, facts, last, frame, offer, left, revived, waiting, told>>
  PROVE  /\ NotLeft => NotLeft' /\ (Recorded => Recorded')
         /\ Addressed => Addressed' /\ (Current => Current')
         /\ ShellTypes => ShellTypes'
<1>1. \A s : CasesOf(s)' = CasesOf(s) /\ Messages(s)' = Messages(s)
  BY DEF CasesOf, Messages, Bubbles
<1>2. \A s, c : Stale(s, c)' = Stale(s, c)
  BY DEF Stale
<1>3. NotLeft => NotLeft'
  BY <1>1 DEF NotLeft
<1>4. Recorded => Recorded'
  BY <1>1 DEF Recorded
<1>5. Addressed => Addressed'
  BY <1>1, <1>2 DEF Addressed
<1>6. Current => Current'
  BY DEF Current
<1>7. ShellTypes => ShellTypes'
  BY DEF ShellTypes
<1> QED BY <1>3, <1>4, <1>5, <1>6, <1>7

\* So a thread that only moves on owes no more than what it knows itself.
LEMMA OwnKeeps ==
  ASSUME FocusInv, NEW w \in Workers, Own(w), Alone, at[w] \notin {"deliver", "done"},
         OnceInv', Grows => (Knows(w) /\ Dated(w) /\ Drafted(w))'
  PROVE  FocusInv'
<1>1. UNCHANGED <<recent, facts, doc, last, frame, offer, left, revived, waiting, told>>
  BY DEF Alone, store, answer, history
<1>2. Grows
  BY <1>1, OwnGrows DEF FocusInv
<1>3. NotLeft' /\ Recorded' /\ Addressed' /\ Current' /\ ShellTypes'
  BY <1>1, ShellsKept DEF FocusInv, TypeOK
<1>4. CaseTypes' /\ ThreadTypes'
  BY <1>1, OwnTypes DEF FocusInv, TypeOK, CaseTypes
<1>5. ASSUME NEW v \in Workers, v # w PROVE (Knows(v) /\ Dated(v) /\ Drafted(v))'
  <2>1. UNCHANGED <<task, home>>
    BY DEF Own
  <2> QED BY <1>2, <1>5, <2>1, OthersKept, OthersSound DEF FocusInv, Sound
<1>6. Sound'
  BY <1>2, <1>5 DEF Sound
<1>7. KeptIsSaid'
  <2>1. \A c \in DOMAIN doc : doc[c].proposal = "late" => Backed(c)
    BY DEF FocusInv, KeptIsSaid, Backed
  <2>2. \A c \in DOMAIN doc' : doc'[c].proposal = "late" => Backed(c)'
    BY <1>1, <1>2, <2>1 DEF Grows
  <2> QED BY <2>2 DEF KeptIsSaid, Backed
<1> QED BY <1>3, <1>4, <1>6, <1>7 DEF FocusInv, TypeOK
-----------------------------------------------------------------------------
(***************************************************************************)
(* Steps of the threads.                                                   *)
(***************************************************************************)
\* What a thread knows where it is, and what it sees there.
LEMMA HereAndNow ==
  ASSUME FocusInv, NEW w \in Workers
  PROVE  /\ TypeOK /\ OnceInv /\ Recorded /\ Knows(w) /\ Dated(w) /\ Drafted(w)
         /\ OnItsWay(w) /\ (at[w] = "free" => ~asked[w])
         /\ at[w] \in Places /\ draft[w] \in Document /\ label[w] \in Nat /\ about[w] \in Nat
         /\ task[w] \in Tasks
BY DEF FocusInv, Sound, OnceInv, Ways, Unasked, TypeOK, ThreadTypes

LEMMA SameCases ==
  ASSUME Alone
  PROVE  /\ \A s : CasesOf(s)' = CasesOf(s)
         /\ \A s, c : Stale(s, c)' = Stale(s, c)
         /\ UNCHANGED <<recent, facts, doc, last, task, home, waiting, told>>
BY DEF Alone, store, history, CasesOf, Stale

LEMMA MovesTo ==
  ASSUME TypeOK, NEW w \in Workers, NEW pc, Goes(w, pc)
  PROVE  at'[w] = pc
BY DEF TypeOK, ThreadTypes, Goes

LEMMA CaptureSound == ASSUME FocusInv, NEW w \in Workers, Capture(w), OnceInv' PROVE FocusInv'
<1>1. Own(w) /\ Alone /\ at[w] \notin {"deliver", "done"}
  BY HereAndNow, KeepingOwn DEF Capture
<1>2. at'[w] \in {"rules", "checkOutput"} /\ UNCHANGED <<label, about, asked, fresh>>
  BY HereAndNow, MovesTo DEF Capture
<1>3. at[w] = "capture" /\ (draft'[w]).proposal = draft[w].proposal
  <2>1. draft'[w] \in {draft[w], [draft[w] EXCEPT !.output = TRUE]}
    BY HereAndNow DEF Capture, TypeOK, ThreadTypes
  <2> QED BY <2>1, HereAndNow, Documents DEF Capture
<1>4. Knows(w)' /\ Dated(w)' /\ Drafted(w)'
  BY <1>1, <1>2, <1>3, HereAndNow, SameCases
  DEF Knows, Dated, Drafted, LateInHand, BeforeAsking, Deciding, Keeping
<1> QED BY <1>1, <1>4, OwnKeeps

LEMMA CheckLastSound == ASSUME FocusInv, NEW w \in Workers, CheckLast(w), OnceInv' PROVE FocusInv'
<1>1. Own(w) /\ Alone /\ at[w] \notin {"deliver", "done"}
  BY HereAndNow, KeepingOwn DEF CheckLast, SaveStep
<1>2. UNCHANGED <<label, about, draft, asked, fresh>>
  BY DEF CheckLast, copies
<1>3. \/ at[w] = "checkOutput" /\ at'[w] \in {"saveOutput", "rules"}
      \/ at[w] = "checkFix" /\ at'[w] \in {"saveFix", "deliver"}
      \/ at[w] = "checkText" /\ at'[w] \in {"saveText", "focus"}
  BY HereAndNow, MovesTo DEF CheckLast, SaveStep, After
<1>4. Knows(w)' /\ Dated(w)'
  BY <1>1, <1>2, <1>3, HereAndNow, SameCases DEF Knows, Dated, BeforeAsking, Deciding, Keeping
<1>5. Grows => Drafted(w)'
  BY <1>1, <1>2, <1>3, HereAndNow, SameCases DEF Grows, Drafted, LateInHand, BeforeAsking
<1> QED BY <1>1, <1>4, <1>5, OwnKeeps

LEMMA RulesSound == ASSUME FocusInv, NEW w \in Workers, Rules(w), OnceInv' PROVE FocusInv'
<1>1. Own(w) /\ Alone /\ at[w] \notin {"deliver", "done"}
  BY HereAndNow, KeepingOwn DEF Rules
<1>2. at'[w] \in {"done", "focus", "ask"} /\ UNCHANGED <<label, about, asked, fresh>>
  BY HereAndNow, MovesTo DEF Rules, ThenAsk
<1>3. at[w] = "rules" /\ ((draft'[w]).proposal = "late" => draft[w].proposal = "late")
  <2>1. draft'[w] \in {draft[w], [draft[w] EXCEPT !.proposal = "rule"]}
    BY HereAndNow DEF Rules, TypeOK, ThreadTypes
  <2> QED BY <2>1, HereAndNow, Documents DEF Rules
<1>4. task[w] = "offer" /\ ~asked[w] /\ ~LateInHand(w)
  BY <1>3, HereAndNow DEF Knows, Drafted, BeforeAsking
<1>5. Knows(w)' /\ Dated(w)' /\ Drafted(w)'
  BY <1>1, <1>2, <1>3, <1>4, HereAndNow, SameCases
  DEF Knows, Dated, Drafted, LateInHand, BeforeAsking, Deciding, Keeping
<1> QED BY <1>1, <1>5, OwnKeeps

LEMMA AskingSound ==
  ASSUME FocusInv, NEW w \in Workers, OnceInv',
         NobodyToAsk(w) \/ HadNothing(w) \/ HadFix(w) \/ HadText(w)
  PROVE  FocusInv'
<1>1. Own(w) /\ Alone /\ at[w] = "ask"
  BY HereAndNow, AskingOwn DEF NobodyToAsk, HadNothing, HadFix, HadText
<1>2. UNCHANGED <<label, about, fresh>>
  BY DEF NobodyToAsk, HadNothing, HadFix, HadText, copies
<1>3. /\ at'[w] \in {"done", "deliver", "focus", "checkFix", "checkText"}
      /\ at'[w] \in {"deliver", "checkFix"} => task[w] = "fix"
      /\ at'[w] = "checkText" => task[w] = "explain"
      /\ at'[w] = "done" => UNCHANGED <<asked, draft>>
      /\ at'[w] # "done" => asked'[w]
      /\ at'[w] = "checkText" => (draft'[w]).proposal = draft[w].proposal
  <2>1. CASE NobodyToAsk(w)
    BY <2>1, HereAndNow, MovesTo DEF NobodyToAsk, copies
  <2>2. CASE HadNothing(w)
    BY <2>2, HereAndNow, MovesTo DEF HadNothing, TypeOK, ThreadTypes
  <2>3. CASE HadFix(w)
    BY <2>3, HereAndNow, MovesTo DEF HadFix, TypeOK, ThreadTypes
  <2>4. CASE HadText(w)
    <3>1. draft'[w] = [draft[w] EXCEPT !.explained = "model"]
      BY <2>4, HereAndNow DEF HadText, TypeOK, ThreadTypes
    <3> QED BY <2>4, <3>1, HereAndNow, MovesTo, Documents DEF HadText, TypeOK, ThreadTypes
  <2> QED BY <2>1, <2>2, <2>3, <2>4
<1>4. Knows(w)' /\ Dated(w)'
  BY <1>1, <1>2, <1>3, HereAndNow, SameCases DEF Knows, Dated, BeforeAsking, Deciding, Keeping
<1>5. Grows => Drafted(w)'
  BY <1>1, <1>2, <1>3, HereAndNow, SameCases DEF Grows, Drafted, LateInHand, BeforeAsking
<1> QED BY <1>1, <1>4, <1>5, OwnKeeps

\* A case that its shell looks at no more was left, or an older one came back.
LEMMA OutOfFocus ==
  ASSUME FocusInv, NEW s \in Shells, NEW c \in CasesOf(s), ~StillCurrent(c) \/ MovedOn(s, c)
  PROVE  Stale(s, c)
<1>1. c \in DOMAIN facts /\ facts[c].shell = s
  BY DEF CasesOf
<1>2. c \notin left /\ ~revived[s] => recent[s] = facts[c].what /\ last[s] = c
  BY DEF FocusInv, NotLeft
<1> QED BY <1>1, <1>2 DEF StillCurrent, MovedOn, LastCase, Stale

LEMMA FocusSound ==
  ASSUME FocusInv, NEW w \in Workers, FocusCase(w) \/ FocusCommand(w), OnceInv'
  PROVE  FocusInv'
<1>1. Own(w) /\ Alone /\ at[w] \in {"focus", "focusCommand"}
  BY HereAndNow, ReadingOwn DEF FocusCase, FocusCommand
<1>2. UNCHANGED <<label, about, draft, asked>>
  BY DEF FocusCase, FocusCommand
<1>3. home[w] \in Shells /\ label[w] \in CasesOf(home[w])
  BY <1>1, HereAndNow DEF Knows
<1>4. /\ at'[w] \in {"focusCommand", "checkFix", "deliver"}
      /\ at'[w] = "checkFix" => task[w] = "offer"
  BY HereAndNow, MovesTo DEF FocusCase, FocusCommand, Decides, AfterFocus
<1>5. at'[w] \in Deciding /\ ~fresh'[w] => Stale(home[w], label[w])
  <2>1. CASE FocusCase(w)
    BY <2>1, <1>3, OutOfFocus, HereAndNow, MovesTo DEF FocusCase, Deciding
  <2>2. CASE FocusCommand(w)
    <3>1. fresh'[w] = ~MovedOn(home[w], label[w])
      BY <2>2, HereAndNow DEF FocusCommand, Decides, TypeOK, ThreadTypes
    <3> QED BY <1>3, <3>1, OutOfFocus
  <2> QED BY <2>1, <2>2
<1>6. Knows(w)' /\ Dated(w)'
  BY <1>1, <1>2, <1>3, <1>4, <1>5, HereAndNow, SameCases
  DEF Knows, Dated, BeforeAsking, Deciding, Keeping
<1>7. Drafted(w)'
  BY <1>1, <1>2, <1>4, HereAndNow, SameCases DEF Drafted, LateInHand, BeforeAsking
<1> QED BY <1>1, <1>6, <1>7, OwnKeeps

\* The last case of a shell that has one.
LEMMA LastIsIts ==
  ASSUME FocusInv, NEW s \in Shells, CasesOf(s) # {} \/ LastCase(s) # 0
  PROVE  LastCase(s) \in CasesOf(s) /\ LastCase(s) \in DOMAIN doc
BY CaseFacts DEF FocusInv, Recorded, LastCase

LEMMA ReadLabelSound == ASSUME FocusInv, NEW w \in Workers, ReadLabel(w), OnceInv' PROVE FocusInv'
<1>1. Own(w) /\ Alone /\ at[w] = "label" /\ home[w] \in Shells
  BY HereAndNow, ReadingOwn DEF ReadLabel, Knows
<1>2. UNCHANGED <<about, draft, asked, fresh>>
  BY DEF ReadLabel
<1>3. at'[w] \in {"done", "known"} /\ label'[w] = LastCase(home[w])
  BY HereAndNow, MovesTo DEF ReadLabel, TypeOK, ThreadTypes
<1>4. at'[w] = "known" => label'[w] \in CasesOf(home[w])
  BY <1>1, <1>3, LastIsIts, HereAndNow, MovesTo DEF ReadLabel
<1>5. task[w] = "explain"
  BY <1>1, HereAndNow DEF OnItsWay, Explaining
<1>6. Knows(w)' /\ Dated(w)' /\ Drafted(w)'
  BY <1>1, <1>2, <1>3, <1>4, <1>5, HereAndNow, SameCases
  DEF Knows, Dated, Drafted, LateInHand, BeforeAsking, Deciding, Keeping
<1> QED BY <1>1, <1>6, OwnKeeps

LEMMA ReadKnownSound == ASSUME FocusInv, NEW w \in Workers, ReadKnown(w), OnceInv' PROVE FocusInv'
<1>1. Own(w) /\ Alone /\ at[w] = "known"
  BY HereAndNow, ReadingOwn DEF ReadKnown
<1>2. UNCHANGED <<label, draft, asked, fresh>>
  BY DEF ReadKnown
<1>3. at'[w] \in {"focus", "prepare"}
  BY HereAndNow, MovesTo DEF ReadKnown
<1>4. task[w] = "explain"
  BY <1>1, HereAndNow DEF OnItsWay, Explaining
<1>5. Knows(w)' /\ Dated(w)' /\ Drafted(w)'
  BY <1>1, <1>2, <1>3, <1>4, HereAndNow, SameCases
  DEF Knows, Dated, Drafted, LateInHand, BeforeAsking, Deciding, Keeping
<1> QED BY <1>1, <1>5, OwnKeeps

\* What is read from the store is backed there.
LEMMA StoredIsBacked ==
  ASSUME FocusInv, NEW c \in DOMAIN doc, doc[c].proposal = "late"
  PROVE  Backed(c)
BY DEF FocusInv, KeptIsSaid, Backed

LEMMA PrepareSound == ASSUME FocusInv, NEW w \in Workers, Prepare(w), OnceInv' PROVE FocusInv'
<1>0. PICK c : c = LastCase(home[w])
  OBVIOUS
<1>1. Own(w) /\ Alone /\ at[w] = "prepare"
  BY HereAndNow, ReadingOwn DEF Prepare
<1>2. home[w] \in Shells /\ label[w] \in CasesOf(home[w])
  BY <1>1, HereAndNow DEF Knows
<1>3. c \in CasesOf(home[w]) /\ c \in DOMAIN doc
  BY <1>0, <1>2, LastIsIts
<1>4. UNCHANGED <<label, asked, fresh>> /\ about'[w] = c /\ draft'[w] = doc[c]
  BY <1>0, HereAndNow DEF Prepare, TypeOK, ThreadTypes
<1>5. at'[w] \in {"ask", "focus"}
  BY HereAndNow, MovesTo DEF Prepare
<1>6. task[w] = "explain"
  BY <1>1, HereAndNow DEF OnItsWay, Explaining
<1>7. Knows(w)' /\ Dated(w)'
  BY <1>1, <1>2, <1>3, <1>4, <1>5, <1>6, HereAndNow, SameCases
  DEF Knows, Dated, BeforeAsking, Deciding, Keeping
<1>8. Grows => Drafted(w)'
  <2>1. Grows /\ LateInHand(w)' => Backed(c)'
    BY <1>3, <1>4, StoredIsBacked DEF Grows, LateInHand
  <2> QED BY <1>1, <1>4, <1>5, <1>6, <2>1, SameCases DEF Drafted
<1> QED BY <1>1, <1>7, <1>8, OwnKeeps

LEMMA ReadLastSound == ASSUME FocusInv, NEW w \in Workers, ReadLast(w), OnceInv' PROVE FocusInv'
<1>0. PICK c : c = LastCase(home[w])
  OBVIOUS
<1>1. Own(w) /\ Alone /\ at[w] = "last" /\ home[w] \in Shells /\ c # 0
  BY <1>0, HereAndNow, ReadingOwn DEF ReadLast, Knows
<1>2. c \in CasesOf(home[w]) /\ c \in DOMAIN doc
  BY <1>0, <1>1, LastIsIts
<1>3. UNCHANGED <<asked, fresh>> /\ label'[w] = c /\ about'[w] = c /\ draft'[w] = doc[c]
  BY <1>0, HereAndNow DEF ReadLast, TypeOK, ThreadTypes
<1>4. at'[w] \in {"deliver", "ask"}
  BY HereAndNow, MovesTo DEF ReadLast
<1>5. task[w] = "fix"
  BY <1>1, HereAndNow DEF OnItsWay
<1>6. Knows(w)' /\ Dated(w)'
  BY <1>1, <1>2, <1>3, <1>4, <1>5, HereAndNow, SameCases
  DEF Knows, Dated, BeforeAsking, Deciding, Keeping
<1>7. Grows => Drafted(w)'
  <2>1. Grows /\ LateInHand(w)' => Backed(c)'
    BY <1>2, <1>3, StoredIsBacked DEF Grows, LateInHand
  <2> QED BY <1>1, <1>3, <1>4, <1>5, <2>1, SameCases DEF Drafted
<1> QED BY <1>1, <1>6, <1>7, OwnKeeps

LEMMA StoreErrorSound == ASSUME FocusInv, NEW w \in Workers, StoreError(w), OnceInv' PROVE FocusInv'
<1>1. Own(w) /\ Alone /\ at[w] \in Reading \union Keeping
  BY HereAndNow, ReadingOwn DEF StoreError
<1>2. UNCHANGED <<label, about, draft, asked, fresh>>
  BY DEF StoreError
<1>3. \/ at[w] \in Explains /\ at'[w] = "focus"
      \/ at[w] \notin Explains /\ RuleInHand(w) /\ at'[w] \in {"ask", "done"}
      \/ at'[w] = "done"
  BY HereAndNow, MovesTo DEF StoreError, ThenAsk
<1>4. at[w] \in {"label", "last"} => task[w] # "offer"
  BY HereAndNow DEF OnItsWay, Explaining
<1>5. /\ at[w] \notin {"free", "deliver", "done"}
      /\ at[w] \in Explains => label[w] \in CasesOf(home[w])
      /\ RuleInHand(w) => label[w] \in CasesOf(home[w]) /\ task[w] = "offer" /\ ~asked[w]
  BY <1>1, <1>4, HereAndNow DEF Reading, Keeping, Explains, RuleInHand, Knows
<1>6. Knows(w)' /\ Dated(w)'
  BY <1>1, <1>2, <1>3, <1>5, HereAndNow, SameCases
  DEF Knows, Dated, BeforeAsking, Deciding, Keeping
<1>7. Drafted(w)'
  BY <1>1, <1>2, <1>3, <1>5, HereAndNow, SameCases DEF Drafted, LateInHand, BeforeAsking
<1> QED BY <1>1, <1>5, <1>6, <1>7, OwnKeeps

\* What is said and printed tells nothing about the cases.
LEMMA CasesKept ==
  ASSUME UNCHANGED <<recent, facts, last, frame, offer, left, revived>>
  PROVE  NotLeft => NotLeft' /\ (Recorded => Recorded')
<1>1. \A s : CasesOf(s)' = CasesOf(s)
  BY DEF CasesOf
<1>2. NotLeft => NotLeft'
  BY <1>1 DEF NotLeft
<1>3. Recorded => Recorded'
  BY <1>1 DEF Recorded
<1> QED BY <1>2, <1>3

LEMMA SaveSound == ASSUME FocusInv, NEW w \in Workers, Save(w), OnceInv' PROVE FocusInv'
<1>1. PICK s \in Shells, c \in DOMAIN doc : s = home[w] /\ c = about[w] /\ c \in CasesOf(s)
  <2>1. at[w] \in Keeping
    BY DEF Save, SaveStep, Keeping
  <2> QED BY <2>1, HereAndNow, CaseFacts DEF Knows, Keeping
<1>2. /\ UNCHANGED <<recent, facts, frame, offer, left, waiting, told, task, home>>
      /\ UNCHANGED <<label, about, draft, asked, fresh>>
  BY DEF Save, answer, copies
<1>3. Own(w)
  BY HereAndNow, KeepingOwn
<1>4. \/ at[w] = "saveOutput" /\ at'[w] = "rules"
      \/ at[w] = "saveFix" /\ at'[w] = "deliver"
      \/ at[w] = "saveText" /\ at'[w] = "focus"
  BY HereAndNow, MovesTo DEF Save, SaveStep, After
<1>5. /\ doc' = [doc EXCEPT ![c] = draft[w]]
      /\ last' = [r \in Shells |-> IF r = s THEN c ELSE last[r]]
      /\ revived' = [r \in Shells |-> IF r = s THEN revived[r] \/ c < last[r] ELSE revived[r]]
  BY <1>1 DEF Save, Newest, LastCase, FocusInv, TypeOK, ShellTypes
<1>6. \A r : CasesOf(r)' = CasesOf(r) /\ Messages(r)' = Messages(r)
  BY <1>2 DEF CasesOf, Messages, Bubbles
<1>7. c \in Nat /\ \A r \in Shells : last[r] \in Nat
  BY <1>1, CaseFacts DEF FocusInv, TypeOK, ShellTypes
<1>8. CaseTypes' /\ ThreadTypes' /\ ShellTypes'
  <2>1. CaseTypes'
    BY <1>1, <1>2, <1>5, HereAndNow DEF CaseTypes, TypeOK
  <2>2. ThreadTypes'
    BY <1>3, OwnTypes, HereAndNow
  <2>3. last' \in [Shells -> Nat] /\ revived' \in [Shells -> BOOLEAN]
    BY <1>5, <1>7 DEF FocusInv, TypeOK, ShellTypes
  <2> QED BY <1>2, <2>1, <2>2, <2>3 DEF FocusInv, TypeOK, ShellTypes
<1>9. Grows
  <2>1. \A v \in Workers : at[v] \in {"deliver", "done"} => at'[v] = at[v] /\ about'[v] = about[v]
    BY <1>3, <1>4, HereAndNow, OthersKept
  <2>2. \A d : Backed(d) => Backed(d)'
    BY <1>2, <2>1, SaidStays, BackedStays, HereAndNow
  <2> QED BY <1>2, <1>5, <2>2 DEF Grows, SameFacts
<1>10. NotLeft'
  <2> SUFFICES ASSUME NEW r \in Shells, NEW d \in CasesOf(r)', d \notin left'
               PROVE  /\ recent'[r] = facts'[d].what /\ frame'[r] # "recorded"
                      /\ \A e \in CasesOf(r)' : e <= d
                      /\ ~revived'[r] => last'[r] = d
    BY DEF NotLeft
  <2>1. /\ d \in CasesOf(r) /\ recent[r] = facts[d].what /\ frame[r] # "recorded"
        /\ \A e \in CasesOf(r) : e <= d
        /\ ~revived[r] => last[r] = d
    BY <1>2, <1>6 DEF FocusInv, NotLeft
  <2>2. d \in Nat
    BY <2>1, CaseFacts DEF FocusInv
  <2>3. ~revived'[r] => last'[r] = d
    <3>1. CASE r # s
      BY <1>5, <2>1, <3>1
    <3>2. CASE r = s
      <4>1. ~revived'[r] => ~revived[r] /\ ~(c < last[r])
        BY <1>5, <3>2
      <4>2. c <= d
        BY <1>1, <2>1, <3>2
      <4>3. ~revived'[r] => c = d
        BY <1>7, <2>1, <2>2, <4>1, <4>2
      <4> QED BY <1>5, <3>2, <4>3
    <3> QED BY <3>1, <3>2
  <2> QED BY <1>2, <1>6, <2>1, <2>3
<1>11. Recorded'
  <2>1. c # 0
    BY <1>1, CaseFacts DEF FocusInv
  <2> QED BY <1>1, <1>2, <1>5, <1>6, <2>1 DEF FocusInv, Recorded
<1>12. Sound'
  <2>1. ASSUME NEW v \in Workers, v # w PROVE (Knows(v) /\ Dated(v) /\ Drafted(v))'
    BY <1>2, <1>3, <1>9, <2>1, OthersKept, OthersSound DEF FocusInv, Sound
  <2>2. Knows(w)'
    BY <1>2, <1>4, <1>6, HereAndNow DEF Knows, BeforeAsking, Keeping
  <2>3. Dated(w)'
    BY <1>1, <1>2, <1>4, <1>9, GrowsOn, HereAndNow DEF Dated, Deciding
  <2>4. Drafted(w)'
    BY <1>2, <1>4, HereAndNow DEF Drafted, BeforeAsking, LateInHand
  <2> QED BY <2>1, <2>2, <2>3, <2>4 DEF Sound
<1>13. Addressed' /\ Current'
  BY <1>2, <1>6, <1>9, GrowsOn DEF FocusInv, Addressed, Current
<1>14. KeptIsSaid'
  <2>1. LateInHand(w) => Backed(c)'
    <3>1. CASE at[w] = "saveOutput"
      BY <3>1, HereAndNow DEF Drafted, Knows, BeforeAsking
    <3>2. CASE at[w] = "saveFix"
      BY <1>1, <1>2, <1>4, <3>2 DEF Backed
    <3>3. CASE at[w] = "saveText"
      BY <1>1, <1>9, <3>3, HereAndNow DEF Drafted, Grows
    <3> QED BY <1>4, <3>1, <3>2, <3>3
  <2>2. \A d \in DOMAIN doc' : doc'[d].proposal = "late" => Backed(d)'
    BY <1>5, <1>9, <2>1, StoredIsBacked DEF Grows, LateInHand
  <2> QED BY <2>2 DEF KeptIsSaid, Backed
<1> QED BY <1>8, <1>10, <1>11, <1>12, <1>13, <1>14 DEF FocusInv, TypeOK

LEMMA DeliverSound == ASSUME FocusInv, NEW w \in Workers, Deliver(w), OnceInv' PROVE FocusInv'
<1>1. PICK s \in Shells : s = home[w] /\ label[w] \in CasesOf(s)
  BY HereAndNow DEF Deliver, Knows
<1>2. /\ UNCHANGED <<recent, facts, doc, last, frame, offer, left, revived, told, task, home>>
      /\ UNCHANGED <<label, about, asked, pending>>
  BY DEF Deliver, store, answer, history
<1>3. at[w] = "deliver" /\ Goes(w, "done") /\ at'[w] = "done"
  BY HereAndNow, MovesTo DEF Deliver, AfterDelivery
<1>4. Own(w)
  <2>1. "none" \in Bodies /\ "done" \in Places /\ FALSE \in BOOLEAN
    BY DEF Bodies, Places
  <2> QED BY <1>2, <1>3, <2>1, Documents DEF Deliver, Own
<1>5. waiting' = [r \in Shells |-> IF r = s THEN waiting[r] \union {Message(w)} ELSE waiting[r]]
  BY <1>1 DEF Deliver, FocusInv, TypeOK, ShellTypes
<1>6. /\ Message(w).from = w /\ Message(w).label = label[w]
      /\ Message(w).late => task[w] \in {"offer", "explain"} /\ ~fresh[w]
  BY DEF Message, Letter
<1>7. \A r : CasesOf(r)' = CasesOf(r) /\ \A c : Stale(r, c)' = Stale(r, c)
  BY <1>2 DEF CasesOf, Stale
<1>8. ShellTypes' /\ CaseTypes' /\ ThreadTypes'
  BY <1>2, <1>4, <1>5, OwnTypes DEF FocusInv, TypeOK, ShellTypes, CaseTypes
<1>9. Said(w)'
  BY <1>5, <1>6 DEF Said, Messages
<1>10. Grows
  <2>1. \A v \in Workers : at[v] = "deliver" => at'[v] = "deliver" \/ Said(v)'
    BY <1>4, <1>9, HereAndNow, OthersKept
  <2>2. \A v : Said(v) => Said(v)'
    BY <1>2, <1>5, SaidStays
  <2>3. \A c : Backed(c) => Backed(c)'
    BY <1>2, <2>1, <2>2, BackedStays, HereAndNow
  <2> QED BY <1>2, <2>3 DEF Grows, SameFacts
<1>11. NotLeft' /\ Recorded' /\ Current'
  BY <1>2, CasesKept DEF FocusInv, Current
<1>12. Addressed'
  <2>1. Message(w).late => Stale(s, label[w])
    BY <1>1, <1>3, <1>6, HereAndNow DEF Dated, Deciding
  <2>2. ASSUME NEW r \in Shells, NEW m \in Messages(r)'
        PROVE  m \in Messages(r) \/ (r = s /\ m = Message(w))
    BY <1>2, <1>5 DEF Messages, Bubbles
  <2> QED BY <1>1, <1>6, <1>7, <2>1, <2>2 DEF FocusInv, Addressed
<1>13. Sound'
  <2>1. ASSUME NEW v \in Workers, v # w PROVE (Knows(v) /\ Dated(v) /\ Drafted(v))'
    BY <1>2, <1>4, <1>10, <2>1, OthersKept, OthersSound DEF FocusInv, Sound
  <2>2. (draft'[w]).proposal = "none"
    BY Documents, HereAndNow DEF Deliver, TypeOK, ThreadTypes
  <2>3. Knows(w)' /\ Dated(w)' /\ Drafted(w)'
    BY <1>1, <1>2, <1>3, <2>2, HereAndNow
    DEF Knows, Dated, Drafted, BeforeAsking, Deciding, Keeping, LateInHand
  <2> QED BY <2>1, <2>3 DEF Sound
<1>14. KeptIsSaid'
  <2>1. \A d \in DOMAIN doc' : doc'[d].proposal = "late" => Backed(d)'
    BY <1>2, <1>10, StoredIsBacked DEF Grows
  <2> QED BY <2>1 DEF KeptIsSaid, Backed
<1> QED BY <1>8, <1>11, <1>12, <1>13, <1>14 DEF FocusInv, TypeOK
-----------------------------------------------------------------------------
(***************************************************************************)
(* Shells: what is printed, what is asked for, what is reported.           *)
(***************************************************************************)
\* What is printed was waiting; a mark says that it is late when it is.
LEMMA Printed ==
  ASSUME FocusInv, NEW s \in Shells, NEW M, NEW marked,
         Shows(s, M, marked), waiting' = [waiting EXCEPT ![s] = {}],
         UNCHANGED <<recent, facts, left, revived>>,
         \A m \in M : \E n \in waiting[s] :
           m.from = n.from /\ m.label = n.label /\ (m.late => n.late \/ Stale(s, n.label)),
         \A n \in waiting[s] : \E m \in M : m.from = n.from,
         marked => \A m \in M : ~m.late => facts[m.label].what = recent[s]
  PROVE  /\ Addressed' /\ Current' /\ (\A w : Said(w) => Said(w)')
         /\ waiting' = [r \in Shells |-> waiting'[r]] /\ told' = [r \in Shells |-> told'[r]]
<1>1. /\ told' = [r \in Shells |-> IF r = s THEN told[r] \union {Bubble(s, m, marked) : m \in M}
                                    ELSE told[r]]
      /\ waiting' = [r \in Shells |-> IF r = s THEN {} ELSE waiting[r]]
  BY DEF Shows, FocusInv, TypeOK, ShellTypes
<1>2. \A m : Bubble(s, m, marked).msg = m /\ Bubble(s, m, marked).marked = marked
             /\ Bubble(s, m, marked).under = recent[s]
  BY DEF Bubble
<1>3. \A r : CasesOf(r)' = CasesOf(r) /\ \A c : Stale(r, c)' = Stale(r, c)
  BY DEF CasesOf, Stale
<1>4. ASSUME NEW r \in Shells, NEW m \in Messages(r)'
      PROVE  m \in Messages(r) \/ (r = s /\ m \in M)
  BY <1>1, <1>2 DEF Messages, Bubbles
<1>5. Addressed'
  <2> SUFFICES ASSUME NEW r \in Shells, NEW m, m \in Messages(r)'
               PROVE  m.label \in CasesOf(r) /\ (m.late => Stale(r, m.label))
    BY <1>3 DEF Addressed
  <2>1. CASE m \in Messages(r)
    BY <2>1 DEF FocusInv, Addressed
  <2>2. CASE r = s /\ m \in M
    <3>1. PICK n \in waiting[s] :
            m.from = n.from /\ m.label = n.label /\ (m.late => n.late \/ Stale(s, n.label))
      BY <2>2
    <3>2. n \in Messages(s)
      BY DEF Messages
    <3> QED BY <2>2, <3>1, <3>2 DEF FocusInv, Addressed
  <2> QED BY <1>4, <2>1, <2>2
<1>6. Current'
  <2> SUFFICES ASSUME NEW r \in Shells, NEW b \in told'[r], b.marked, ~b.msg.late
               PROVE  facts[b.msg.label].what = b.under
    BY DEF Current
  <2>1. CASE b \in told[r]
    BY <2>1 DEF FocusInv, Current
  <2>2. CASE r = s /\ b \in {Bubble(s, m, marked) : m \in M}
    BY <1>2, <2>2
  <2> QED BY <1>1, <2>1, <2>2
<1>7. ASSUME NEW w, Said(w) PROVE Said(w)'
  <2>0. PICK r \in Shells : \E m \in Messages(r) : m.from = w
    BY <1>7 DEF Said
  <2>1. PICK m \in Messages(r) : m.from = w
    BY <2>0
  <2>2. CASE m \in Bubbles(r) \/ r # s
    <3>1. m \in Messages(r)'
      BY <1>1, <2>2 DEF Messages, Bubbles
    <3> QED BY <2>1, <3>1 DEF Said
  <2>3. CASE r = s /\ m \in waiting[s]
    <3>1. PICK n \in M : n.from = w
      BY <2>1, <2>3
    <3>2. n \in Messages(s)'
      BY <1>1, <1>2, <3>1 DEF Messages, Bubbles
    <3> QED BY <3>1, <3>2 DEF Said
  <2> QED BY <2>2, <2>3 DEF Messages
<1> QED BY <1>1, <1>5, <1>6, <1>7

\* Where no thread moves and more is said, all that threads know stays.
LEMMA IdleThreads ==
  ASSUME FocusInv, UNCHANGED threads, SameFacts, left \subseteq left', UNCHANGED revived,
         \A w : Said(w) => Said(w)'
  PROVE  Grows /\ Sound' /\ ThreadTypes'
<1>1. UNCHANGED <<at, task, home, label, about, draft, result, pending, asked, fresh>>
  BY DEF threads, copies
<1>2. \A c : Backed(c) => Backed(c)'
  BY <1>1 DEF Backed
<1>3. Grows
  BY <1>2 DEF Grows
<1>4. Sound'
  BY <1>1, <1>3, OthersSound DEF FocusInv, Sound
<1>5. ThreadTypes'
  BY <1>1 DEF FocusInv, TypeOK, ThreadTypes
<1> QED BY <1>3, <1>4, <1>5

\* A thread starts, with the case that it is about or none yet.
LEMMA Started ==
  ASSUME FocusInv, NEW w \in Workers, NEW s \in Shells, NEW t, NEW pc, NEW c \in Nat, NEW d \in Document,
         Start(w, s, t, pc, c),
         \/ t = "offer" /\ pc = "capture" /\ c \in CasesOf(s) /\ d.proposal # "late"
         \/ t = "explain" /\ pc = "label"
         \/ t = "fix" /\ pc = "last"
         \/ t = "note" /\ pc = "deliver" /\ c \in CasesOf(s),
         draft' = [draft EXCEPT ![w] = d], pending' \in [Workers -> BOOLEAN],
         UNCHANGED <<facts, left, revived>>, \A v : Said(v) => Said(v)'
  PROVE  Grows /\ Sound' /\ ThreadTypes'
<1>1. /\ UNCHANGED <<result, asked, fresh>> /\ at[w] = "free"
      /\ at' = [at EXCEPT ![w] = pc] /\ task' = [task EXCEPT ![w] = t]
      /\ home' = [home EXCEPT ![w] = s]
      /\ label' = [label EXCEPT ![w] = c] /\ about' = [about EXCEPT ![w] = c]
  BY DEF Start
<1>2. pc \in Places /\ t \in Tasks
  BY DEF Places, Tasks
<1>3. ThreadTypes'
  BY <1>1, <1>2 DEF FocusInv, TypeOK, ThreadTypes
<1>4. \A v \in Workers \ {w} :
        /\ at'[v] = at[v] /\ task'[v] = task[v] /\ home'[v] = home[v] /\ label'[v] = label[v]
        /\ about'[v] = about[v] /\ draft'[v] = draft[v] /\ asked'[v] = asked[v] /\ fresh'[v] = fresh[v]
  BY <1>1 DEF FocusInv, TypeOK, ThreadTypes
<1>5. Grows
  <2>1. \A v \in Workers : at[v] \in {"deliver", "done"} => at'[v] = at[v] /\ about'[v] = about[v]
    BY <1>1, <1>4
  <2>2. \A e : Backed(e) => Backed(e)'
    BY <2>1, BackedStays, HereAndNow
  <2> QED BY <2>2 DEF Grows, SameFacts
<1>6. /\ at'[w] = pc /\ task'[w] = t /\ home'[w] = s /\ label'[w] = c /\ about'[w] = c
      /\ draft'[w] = d /\ ~asked'[w]
  BY <1>1, HereAndNow DEF TypeOK, ThreadTypes
<1>7. CasesOf(s)' = CasesOf(s)
  BY DEF CasesOf
<1>8. Knows(w)' /\ Dated(w)' /\ Drafted(w)'
  BY <1>6, <1>7 DEF Knows, Dated, Drafted, BeforeAsking, Deciding, Keeping, LateInHand
<1>9. Sound'
  BY <1>4, <1>5, <1>8, OthersSound DEF FocusInv, Sound
<1> QED BY <1>3, <1>5, <1>9

\* Where the store is as it was, what it keeps is still on its way or said.
LEMMA KeptStays ==
  ASSUME FocusInv, Grows, UNCHANGED doc
  PROVE  KeptIsSaid'
<1>1. \A c \in DOMAIN doc' : doc'[c].proposal = "late" => Backed(c)'
  BY StoredIsBacked DEF Grows
<1> QED BY <1>1 DEF KeptIsSaid, Backed

LEMMA PollSound == ASSUME FocusInv, NEW s \in Shells, Poll(s), OnceInv' PROVE FocusInv'
<1>1. UNCHANGED <<recent, facts, doc, last, frame, offer, threads, left, revived>>
  BY DEF Poll, store, answer, history
<1>2. /\ Addressed' /\ Current' /\ (\A w : Said(w) => Said(w)')
      /\ waiting' = [r \in Shells |-> waiting'[r]] /\ told' = [r \in Shells |-> told'[r]]
  BY <1>1, Printed DEF Poll
<1>3. Grows /\ Sound' /\ ThreadTypes'
  BY <1>1, <1>2, IdleThreads DEF SameFacts
<1>4. ShellTypes' /\ CaseTypes'
  BY <1>1, <1>2 DEF FocusInv, TypeOK, ShellTypes, CaseTypes
<1>5. NotLeft' /\ Recorded'
  BY <1>1, CasesKept DEF FocusInv
<1> QED BY <1>1, <1>2, <1>3, <1>4, <1>5, KeptStays DEF FocusInv, TypeOK

\* `kintsu why`, or a click.
LEMMA AskedSound ==
  ASSUME FocusInv, NEW w \in Workers, OnceInv',
         (\E s \in Shells : Why(w, s)) \/ (\E c \in DOMAIN facts : Click(w, c))
  PROVE  FocusInv'
<1>1. /\ UNCHANGED <<recent, facts, doc, last, frame, offer, left, revived, waiting, told>>
      /\ UNCHANGED <<draft, pending>>
  BY DEF Why, Click, store, answer, history
<1>2. draft[w] \in Document /\ pending \in [Workers -> BOOLEAN] /\ draft' = [draft EXCEPT ![w] = draft[w]]
  BY <1>1 DEF FocusInv, TypeOK, ThreadTypes
<1>3. \A v : Said(v) => Said(v)'
  BY <1>1, SaidStays
<1>4. Grows /\ Sound' /\ ThreadTypes'
  <2>1. CASE \E s \in Shells : Why(w, s)
    BY <1>1, <1>2, <1>3, <2>1, Started DEF Why
  <2>2. CASE \E c \in DOMAIN facts : Click(w, c)
    <3>1. PICK c \in DOMAIN facts, s \in Shells : s = facts[c].shell /\ Click(w, c)
      BY <2>2, CaseFacts DEF FocusInv
    <3>2. c \in CasesOf(s) /\ c \in Nat
      BY <3>1, CaseFacts DEF FocusInv
    <3>3. Start(w, s, "explain", "label", 0) \/ Start(w, s, "fix", "last", 0) \/ Start(w, s, "note", "deliver", c)
      BY <3>1 DEF Click, FixNow, NoteOn
    <3>4. CASE Start(w, s, "explain", "label", 0)
      BY <1>1, <1>2, <1>3, <3>4, Started
    <3>5. CASE Start(w, s, "fix", "last", 0)
      BY <1>1, <1>2, <1>3, <3>5, Started
    <3>6. CASE Start(w, s, "note", "deliver", c)
      BY <1>1, <1>2, <1>3, <3>2, <3>6, Started
    <3> QED BY <3>3, <3>4, <3>5, <3>6
  <2> QED BY <2>1, <2>2
<1>5. NotLeft' /\ Recorded' /\ Addressed' /\ Current' /\ ShellTypes'
  BY <1>1, ShellsKept DEF FocusInv, TypeOK
<1>6. CaseTypes'
  BY <1>1 DEF FocusInv, TypeOK, CaseTypes
<1> QED BY <1>1, <1>4, <1>5, <1>6, KeptStays DEF FocusInv, TypeOK

\* What a mark says of a message: late, if it was or if the shell moved on.
LEMMA MarkSays ==
  ASSUME FocusInv, NEW s \in Shells
  PROVE  LET M == MarkLate(s, waiting[s]) IN
         /\ \A m \in M : \E n \in waiting[s] :
              m.from = n.from /\ m.label = n.label /\ (m.late => n.late \/ Stale(s, n.label))
         /\ \A n \in waiting[s] : \E m \in M : m.from = n.from
         /\ \A m \in M : ~m.late => facts[m.label].what = recent[s]
<1> DEFINE Mark(n) == Letter(n.from, n.label, n.about, n.body, n.late \/ n.label \notin Watched(s))
<1>1. MarkLate(s, waiting[s]) = {Mark(n) : n \in waiting[s]}
  BY DEF MarkLate
<1>2. \A n : /\ Mark(n).from = n.from /\ Mark(n).label = n.label
             /\ Mark(n).late <=> n.late \/ n.label \notin Watched(s)
  BY DEF Letter
<1>3. ASSUME NEW n \in waiting[s], n.label \notin Watched(s)
      PROVE  Stale(s, n.label)
  <2>1. n.label \in CasesOf(s)
    BY DEF FocusInv, Addressed, Messages
  <2>2. n.label # 0
    BY <2>1, CaseFacts DEF FocusInv
  <2>3. n.label \notin left /\ ~revived[s] => last[s] = n.label /\ ~MovedOn(s, n.label)
    BY <2>1 DEF FocusInv, NotLeft, MovedOn
  <2> QED BY <1>3, <2>2, <2>3 DEF Watched, LastCase, Stale
<1>4. ASSUME NEW n \in waiting[s], n.label \in Watched(s)
      PROVE  facts[n.label].what = recent[s]
  <2>1. n.label \in CasesOf(s)
    BY DEF FocusInv, Addressed, Messages
  <2>2. recent[s] # None
    BY <2>1 DEF FocusInv, Recorded
  <2> QED BY <1>4, <2>2 DEF Watched, MovedOn
<1> HIDE DEF Mark
<1>5. \A m \in MarkLate(s, waiting[s]) : \E n \in waiting[s] :
        m.from = n.from /\ m.label = n.label /\ (m.late => n.late \/ Stale(s, n.label))
  BY <1>1, <1>2, <1>3
<1>6. \A n \in waiting[s] : \E m \in MarkLate(s, waiting[s]) : m.from = n.from
  BY <1>1, <1>2
<1>7. \A m \in MarkLate(s, waiting[s]) : ~m.late => facts[m.label].what = recent[s]
  BY <1>1, <1>2, <1>4
<1> QED BY <1>5, <1>6, <1>7

LEMMA ReplySound == ASSUME FocusInv, NEW s \in Shells, Reply(s), OnceInv' PROVE FocusInv'
<1>1. /\ UNCHANGED <<recent, facts, doc, last, left, revived>>
      /\ frame' = [frame EXCEPT ![s] = "idle"] /\ offer' = [offer EXCEPT ![s] = NoOffer]
      /\ waiting' = [waiting EXCEPT ![s] = {}]
  BY DEF Reply, store, history
<1>2. PICK M, marked :
        /\ Shows(s, M, marked)
        /\ M = MarkLate(s, waiting[s]) \/ (M = waiting[s] /\ ~marked)
  BY DEF Reply
<1>3. /\ Addressed' /\ Current' /\ (\A w : Said(w) => Said(w)')
      /\ waiting' = [r \in Shells |-> waiting'[r]] /\ told' = [r \in Shells |-> told'[r]]
  <2>1. /\ \A m \in M : \E n \in waiting[s] :
             m.from = n.from /\ m.label = n.label /\ (m.late => n.late \/ Stale(s, n.label))
        /\ \A n \in waiting[s] : \E m \in M : m.from = n.from
        /\ marked => \A m \in M : ~m.late => facts[m.label].what = recent[s]
    BY <1>2, MarkSays
  <2> QED BY <1>1, <1>2, <2>1, Printed
<1>4. Grows /\ Sound' /\ ThreadTypes'
  <2>1. CASE offer[s].case = 0
    BY <1>1, <1>3, <2>1, IdleThreads DEF Reply, SameFacts
  <2>2. CASE offer[s].case # 0
    <3>1. PICK c \in CasesOf(s), d \in Offerable : c = offer[s].case /\ d = offer[s].said
      BY <2>2 DEF FocusInv, Recorded, TypeOK, ShellTypes, Offers
    <3>2. PICK w \in Workers : /\ Start(w, s, "offer", "capture", c)
                              /\ draft' = [draft EXCEPT ![w] = d]
                              /\ pending' = [pending EXCEPT ![w] = offer[s].asking]
      BY <2>2, <3>1 DEF Reply
    <3>3. pending' \in [Workers -> BOOLEAN]
      BY <3>2 DEF FocusInv, TypeOK, ShellTypes, ThreadTypes, Offers
    <3>4. c \in Nat /\ d \in Document /\ d.proposal # "late"
      BY <3>1, CaseFacts, Documents DEF FocusInv
    <3> QED BY <1>1, <1>3, <3>1, <3>2, <3>3, <3>4, Started
  <2> QED BY <2>1, <2>2
<1>5. ShellTypes' /\ CaseTypes'
  <2>1. NoOffer \in Offers
    BY DEF NoOffer, Offers, Offerable
  <2> QED BY <1>1, <1>3, <2>1 DEF FocusInv, TypeOK, ShellTypes, CaseTypes
<1>6. NotLeft' /\ Recorded'
  <2>1. \A r : CasesOf(r)' = CasesOf(r)
    BY <1>1 DEF CasesOf
  <2>2. frame'[s] = "idle" /\ (offer'[s]).case = 0
    BY <1>1 DEF NoOffer, FocusInv, TypeOK, ShellTypes
  <2>3. \A r \in Shells \ {s} : frame'[r] = frame[r] /\ offer'[r] = offer[r]
    BY <1>1 DEF FocusInv, TypeOK, ShellTypes
  <2>4. NotLeft'
    BY <1>1, <2>1, <2>2, <2>3 DEF FocusInv, NotLeft
  <2>5. Recorded'
    BY <1>1, <2>1, <2>2, <2>3 DEF FocusInv, Recorded
  <2> QED BY <2>4, <2>5
<1> QED BY <1>1, <1>3, <1>4, <1>5, <1>6, KeptStays DEF FocusInv, TypeOK

\* A shell reports, and no case is saved yet.
LEMMA Reported ==
  ASSUME FocusInv, NEW s \in Shells, OnceInv',
         UNCHANGED <<facts, doc, last, offer, threads, waiting, told, revived>>,
         recent' \in [Shells -> What \union {None}],
         frame' \in [Shells -> {"idle", "recorded", "decided"}],
         \A r \in Shells \ {s} : recent'[r] = recent[r] /\ frame'[r] = frame[r],
         recent'[s] # None \/ (recent'[s] = recent[s] /\ frame'[s] # "recorded"),
         frame[s] # "decided", left \subseteq left',
         \A c \in CasesOf(s) : c \in left' \/ (recent'[s] = facts[c].what /\ frame'[s] # "recorded")
  PROVE  FocusInv'
<1>1. \A r : CasesOf(r)' = CasesOf(r) /\ Messages(r)' = Messages(r)
  BY DEF CasesOf, Messages, Bubbles
<1>2. \A w : Said(w) => Said(w)'
  BY SaidStays
<1>3. Grows /\ Sound' /\ ThreadTypes'
  BY <1>2, IdleThreads DEF SameFacts
<1>4. ShellTypes' /\ CaseTypes'
  BY DEF FocusInv, TypeOK, ShellTypes, CaseTypes
<1>5. NotLeft'
  BY <1>1 DEF FocusInv, NotLeft
<1>6. Recorded'
  BY <1>1 DEF FocusInv, Recorded
<1>7. Addressed' /\ Current'
  BY <1>1, <1>3, GrowsOn DEF FocusInv, Addressed, Current
<1> QED BY <1>3, <1>4, <1>5, <1>6, <1>7, KeptStays DEF FocusInv, TypeOK

LEMMA QuietSound ==
  ASSUME FocusInv, NEW s \in Shells, NEW what \in What, Quiet(s, what) \/ Fails(s, what), OnceInv'
  PROVE  FocusInv'
<1>1. /\ UNCHANGED <<facts, doc, last, offer, threads, waiting, told, revived>>
      /\ frame[s] = "idle" /\ recent' = [recent EXCEPT ![s] = what]
      /\ left' = left \union {c \in CasesOf(s) : facts[c].what # what}
  BY DEF Quiet, Fails, Leaves
<1>2. \/ frame' = [frame EXCEPT ![s] = "decided"]
      \/ frame' = [frame EXCEPT ![s] = "recorded"] /\ what # recent[s]
  BY DEF Quiet, Fails
<1>3. recent' \in [Shells -> What \union {None}] /\ recent'[s] = what
      /\ frame' \in [Shells -> {"idle", "recorded", "decided"}]
      /\ \A r \in Shells \ {s} : recent'[r] = recent[r] /\ frame'[r] = frame[r]
  BY <1>1, <1>2 DEF FocusInv, TypeOK, ShellTypes
<1>4. what # None
  BY AnswersAssumption DEF AnswersAssumption, What
<1>5. \A c \in CasesOf(s) : c \in left' \/ (recent'[s] = facts[c].what /\ frame'[s] # "recorded")
  <2> SUFFICES ASSUME NEW c \in CasesOf(s), c \notin left'
               PROVE  recent'[s] = facts[c].what /\ frame'[s] # "recorded"
    OBVIOUS
  <2>1. facts[c].what = what /\ c \notin left
    BY <1>1
  <2>2. recent[s] = what
    BY <2>1 DEF FocusInv, NotLeft
  <2> QED BY <1>2, <1>3, <2>1, <2>2 DEF FocusInv, TypeOK, ShellTypes
<1> QED BY <1>1, <1>3, <1>4, <1>5, Reported

LEMMA OfferFailsSound == ASSUME FocusInv, NEW s \in Shells, OfferFails(s), OnceInv' PROVE FocusInv'
<1>1. /\ UNCHANGED <<recent, facts, doc, last, offer, threads, waiting, told, left, revived>>
      /\ frame[s] = "recorded" /\ frame' = [frame EXCEPT ![s] = "idle"]
  BY DEF OfferFails, store, history
<1>2. frame' \in [Shells -> {"idle", "recorded", "decided"}] /\ frame'[s] = "idle"
      /\ \A r \in Shells \ {s} : frame'[r] = frame[r]
  BY <1>1 DEF FocusInv, TypeOK, ShellTypes
<1>3. \A c \in CasesOf(s) : c \in left
  BY <1>1 DEF FocusInv, NotLeft
<1>4. recent' \in [Shells -> What \union {None}]
  BY <1>1 DEF FocusInv, TypeOK, ShellTypes
<1> QED BY <1>1, <1>2, <1>3, <1>4, Reported

\* A new case is the last and the greatest of its shell.
LEMMA SaveOfferSound == ASSUME FocusInv, NEW s \in Shells, SaveOffer(s), OnceInv' PROVE FocusInv'
<1> DEFINE Offer(c, said, asking) == [case |-> c, said |-> said, asking |-> asking]
<1> HIDE DEF Offer
<1>01. PICK c : c = Len(facts) + 1
  OBVIOUS
<1>02. PICK said \in Offerable : \E asking \in Asking(said) :
        doc' = Append(doc, said) /\ offer' = [offer EXCEPT ![s] = Offer(c, said, asking)]
  BY <1>01 DEF SaveOffer, Offer
<1>03. PICK asking \in Asking(said) :
        doc' = Append(doc, said) /\ offer' = [offer EXCEPT ![s] = Offer(c, said, asking)]
  BY <1>02
<1> USE DEF Offer
<1>1. /\ c = Len(facts) + 1 /\ asking \in BOOLEAN
      /\ doc' = Append(doc, said)
      /\ offer' = [offer EXCEPT ![s] = [case |-> c, said |-> said, asking |-> asking]]
  BY <1>01, <1>03 DEF Asking
<1>2. /\ facts' = Append(facts, [shell |-> s, what |-> recent[s]])
      /\ last' = [last EXCEPT ![s] = c]
      /\ frame[s] = "recorded" /\ frame' = [frame EXCEPT ![s] = "decided"]
      /\ left' = left \union CasesOf(s)
      /\ UNCHANGED <<recent, threads, waiting, told, revived>>
  BY <1>1 DEF SaveOffer, Newest
<1>3. [shell |-> s, what |-> recent[s]] \in Facts /\ recent[s] # None
  BY <1>2 DEF FocusInv, Recorded, TypeOK, ShellTypes, Facts
<1>4. facts \in Seq(Facts) /\ doc \in Seq(Document) /\ Len(doc) = Len(facts) /\ Len(facts) \in Nat
  BY DEF FocusInv, TypeOK, CaseTypes
<1>5. /\ DOMAIN facts' = DOMAIN facts \union {c} /\ c \notin DOMAIN facts /\ c \in Nat
      /\ facts'[c] = [shell |-> s, what |-> recent[s]] /\ \A d \in DOMAIN facts : facts'[d] = facts[d] /\ d < c
      /\ DOMAIN doc' = DOMAIN doc \union {c}
      /\ doc'[c] = said /\ \A d \in DOMAIN doc : doc'[d] = doc[d]
  BY <1>1, <1>2, <1>3, <1>4
<1>6. SameFacts
  BY <1>5 DEF SameFacts
<1>7. CasesOf(s)' = CasesOf(s) \union {c} /\ \A r : r # s => CasesOf(r)' = CasesOf(r)
  BY <1>5 DEF CasesOf
<1>8. \A r : Messages(r)' = Messages(r)
  BY <1>2 DEF Messages, Bubbles
<1>9. Grows /\ Sound' /\ ThreadTypes'
  <2>1. \A w : Said(w) => Said(w)'
    BY <1>2, SaidStays
  <2> QED BY <1>2, <1>6, <2>1, IdleThreads
<1>10. CaseTypes'
  BY <1>1, <1>2, <1>3, <1>4, Documents DEF CaseTypes
<1>11. ShellTypes'
  <2>1. [case |-> c, said |-> said, asking |-> asking] \in Offers
    BY <1>1, <1>5 DEF Offers
  <2> QED BY <1>1, <1>2, <1>5, <2>1 DEF FocusInv, TypeOK, ShellTypes
<1>12. /\ frame'[s] = "decided" /\ last'[s] = c /\ (offer'[s]).case = c
       /\ \A r \in Shells \ {s} : frame'[r] = frame[r] /\ last'[r] = last[r] /\ offer'[r] = offer[r]
  BY <1>1, <1>2 DEF FocusInv, TypeOK, ShellTypes
<1>13. NotLeft'
  <2> SUFFICES ASSUME NEW r \in Shells, NEW d, d \in CasesOf(r)', d \notin left'
               PROVE  /\ recent'[r] = facts'[d].what /\ frame'[r] # "recorded"
                      /\ \A e \in CasesOf(r)' : e <= d
                      /\ ~revived'[r] => last'[r] = d
    BY DEF NotLeft
  <2>1. CASE r = s
    <3>1. d = c
      BY <1>2, <1>7, <2>1
    <3>2. \A e \in CasesOf(s) : e <= c
      BY <1>4, <1>5, CaseFacts DEF FocusInv
    <3> QED BY <1>2, <1>5, <1>7, <1>12, <2>1, <3>1, <3>2
  <2>2. CASE r # s
    <3>1. d \in DOMAIN facts
      BY <1>7, <2>2 DEF CasesOf
    <3> QED BY <1>2, <1>5, <1>7, <1>12, <2>2, <3>1 DEF FocusInv, NotLeft
  <2> QED BY <2>1, <2>2
<1>14. Recorded'
  <2>1. c # 0
    BY <1>1, <1>4
  <2> QED BY <1>2, <1>3, <1>7, <1>12, <2>1 DEF FocusInv, Recorded
<1>15. Addressed' /\ Current'
  <2>1. Addressed'
    BY <1>8, <1>9, GrowsOn DEF FocusInv, Addressed
  <2>2. \A r \in Shells : \A b \in told[r] : b.msg.label \in DOMAIN facts
    BY DEF FocusInv, Addressed, Messages, Bubbles, CasesOf
  <2>3. Current'
    BY <1>2, <1>5, <2>2 DEF FocusInv, Current
  <2> QED BY <2>1, <2>3
<1>16. KeptIsSaid'
  <2>1. said.proposal # "late"
    BY Documents
  <2>2. \A d \in DOMAIN doc' : doc'[d].proposal = "late" => Backed(d)'
    BY <1>5, <1>9, <2>1, StoredIsBacked DEF Grows
  <2> QED BY <2>2 DEF KeptIsSaid, Backed
<1> QED BY <1>9, <1>10, <1>11, <1>13, <1>14, <1>15, <1>16 DEF FocusInv, TypeOK
-----------------------------------------------------------------------------
LEMMA FocusInit == Init => FocusInv
<1> SUFFICES ASSUME Init PROVE FocusInv
  OBVIOUS
<1>1. /\ \A s : CasesOf(s) = {}
      /\ \A s \in Shells : Messages(s) = {}
      /\ DOMAIN facts = {} /\ DOMAIN doc = {}
  BY DEF Init, CasesOf, Messages, Bubbles
<1>2. NotLeft /\ Recorded
  BY <1>1 DEF Init, NotLeft, Recorded, NoOffer
<1>3. Sound
  <2>1. Blank.proposal # "late"
    BY Documents
  <2> QED BY <2>1 DEF Init, Sound, Knows, Dated, Drafted, BeforeAsking, Deciding, Keeping, LateInHand
<1>4. Addressed /\ Current /\ KeptIsSaid
  BY <1>1 DEF Init, Addressed, Current, KeptIsSaid
<1> QED BY <1>2, <1>3, <1>4, InitTypes, OnceInit DEF FocusInv

LEMMA FocusStep == ASSUME FocusInv, [Next]_vars PROVE FocusInv'
<1>0. OnceInv'
  BY OnceStep DEF FocusInv
<1>1. ASSUME NEW w \in Workers, Step(w) PROVE FocusInv'
  BY <1>0, <1>1, CaptureSound, CheckLastSound, SaveSound, RulesSound, AskingSound, FocusSound,
     ReadLabelSound, ReadKnownSound, PrepareSound, ReadLastSound, StoreErrorSound, DeliverSound
  DEF Step
<1>2. ASSUME NEW s \in Shells, Frame(s) \/ Poll(s) PROVE FocusInv'
  BY <1>0, <1>2, SaveOfferSound, OfferFailsSound, ReplySound, PollSound DEF Frame
<1>3. ASSUME NEW s \in Shells, NEW what \in What, Quiet(s, what) \/ Fails(s, what) PROVE FocusInv'
  BY <1>0, <1>3, QuietSound
<1>4. ASSUME NEW w \in Workers, \/ \E s \in Shells : Why(w, s)
                              \/ \E c \in DOMAIN facts : Click(w, c)
      PROVE  FocusInv'
  BY <1>0, <1>4, AskedSound
<1>5. CASE UNCHANGED vars
  <2>1. \A w : Said(w) => Said(w)'
    BY <1>5, SaidStays DEF vars
  <2>2. Grows /\ Sound' /\ ThreadTypes'
    BY <1>5, <2>1, IdleThreads DEF vars, store, history, SameFacts
  <2>3. NotLeft' /\ Recorded' /\ Addressed' /\ Current' /\ ShellTypes'
    BY <1>5, ShellsKept DEF vars, store, answer, history, FocusInv, TypeOK
  <2>4. CaseTypes' /\ KeptIsSaid'
    BY <1>5, <2>2, KeptStays DEF vars, store, FocusInv, TypeOK, CaseTypes
  <2> QED BY <1>0, <2>2, <2>3, <2>4 DEF FocusInv, TypeOK
<1> QED BY <1>1, <1>2, <1>3, <1>4, <1>5 DEF Next

LEMMA FocusAlways == Spec => []FocusInv
  BY FocusInit, FocusStep, PTL DEF Spec

(***************************************************************************)
(* A message is called late only if its shell ran another command or       *)
(* failed anew since, or a save brought an older case back: Focus::holds   *)
(* may read in two calls, and Focus::mark_late may run long after, for a   *)
(* shell never goes back to what it left.                                  *)
(***************************************************************************)
THEOREM LateIsLeft == Spec => []LateOnlyIfLeft
<1>1. FocusInv => LateOnlyIfLeft
  BY DEF FocusInv, Addressed, Stale, LateOnlyIfLeft
<1> QED BY <1>1, FocusAlways, PTL

(***************************************************************************)
(* A bubble that comes with the answer to a command and is not called late *)
(* is about that command (on_command_finished, Focus::mark_late).          *)
(***************************************************************************)
THEOREM DrainedInTime == Spec => []DrainedIsCurrent
<1>1. FocusInv => DrainedIsCurrent
  BY DEF FocusInv, Current, DrainedIsCurrent
<1> QED BY <1>1, FocusAlways, PTL

(***************************************************************************)
(* A model's fix that a case keeps was said or is about to be, whoever     *)
(* saves the case again with a copy of it (Messages::deliver_fix,          *)
(* Explain::keep, FixLast): threads copy it only from the store.           *)
(***************************************************************************)
THEOREM KeptWasSaid == Spec => []KeptIsSaid
<1>1. FocusInv => KeptIsSaid
  BY DEF FocusInv
<1> QED BY <1>1, FocusAlways, PTL
==============================================================================
