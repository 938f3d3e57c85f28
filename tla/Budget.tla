------------------------------- MODULE Budget -------------------------------
(***************************************************************************)
(* What the daily cap promises.  A caller looks at the day's spend, then   *)
(* asks; what it pays is booked on the day its call started.  Callers do   *)
(* not wait for one another, so the cap can be passed: by what was cleared *)
(* before it was reached, and by nothing else.                             *)
(*                                                                         *)
(* The abstract side of src/use_cases/routing.rs; Spending, the detailed   *)
(* one with the file of the ledger, implements it.                         *)
(***************************************************************************)
EXTENDS Naturals, FiniteSets

CONSTANTS
  Callers,  \* threads and processes that ask models
  Limit,    \* max_daily_cost
  MaxCost,  \* bound: what one call costs
  LastDay   \* bound: days, from 0

\* What the theorems assume of the constants.
BudgetAssumption ==
  /\ IsFiniteSet(Callers)
  /\ Limit \in Nat \ {0}
  /\ MaxCost \in Nat
  /\ LastDay \in Nat

VARIABLES
  day,      \* today
  spent,    \* spent[d]: what the ledger holds for day d
  turn,     \* turn[w]: "idle", "cleared" to ask, or "calling"
  began     \* began[w]: the day its call started

purse == <<day, spent, turn, began>>
Calendar == 0 .. LastDay

CapInit ==
  /\ day = 0
  /\ spent = [d \in Calendar |-> 0]
  /\ turn = [w \in Callers |-> "idle"]
  /\ began = [w \in Callers |-> 0]

\* over_budget: the day's spend is under the cap.
Clear(w) ==
  /\ turn[w] = "idle" /\ spent[day] < Limit
  /\ turn' = [turn EXCEPT ![w] = "cleared"]
  /\ UNCHANGED <<day, spent, began>>

\* ask_in_order: a call starts, for the next model too when one failed.
Asks(w) ==
  /\ turn[w] \in {"cleared", "calling"}
  /\ turn' = [turn EXCEPT ![w] = "calling"]
  /\ began' = [began EXCEPT ![w] = day]
  /\ UNCHANGED <<day, spent>>

Returns(w) ==
  /\ turn' = [turn EXCEPT ![w] = "idle"]
  /\ began' = [began EXCEPT ![w] = 0]

\* metered: the answer is booked on the day the call started.
Pay(w) ==
  /\ turn[w] = "calling"
  /\ \E cost \in 0 .. MaxCost : spent' = [spent EXCEPT ![began[w]] = @ + cost]
  /\ Returns(w)
  /\ UNCHANGED day

\* Nobody answered, or the entry was lost.
GiveUp(w) ==
  /\ turn[w] # "idle"
  /\ Returns(w)
  /\ UNCHANGED <<day, spent>>

DayPasses ==
  /\ day < LastDay /\ day' = day + 1
  /\ UNCHANGED <<spent, turn, began>>

CapNext == DayPasses \/ \E w \in Callers : Clear(w) \/ Asks(w) \/ Pay(w) \/ GiveUp(w)

CapSpec == CapInit /\ [][CapNext]_purse
-----------------------------------------------------------------------------
CapTypes ==
  /\ day \in Calendar
  /\ spent \in [Calendar -> Nat]
  /\ turn \in [Callers -> {"idle", "cleared", "calling"}]
  /\ began \in [Callers -> Calendar]

\* However many ask at once, a day costs less than the cap and one call of each.
Bounded == \A d \in Calendar : spent[d] < Limit + MaxCost * Cardinality(Callers)

\* Those who may still book on day d: calls that started then, and callers
\* cleared or calling today whose next call would start then.
Booking(d) ==
  {w \in Callers : (turn[w] = "calling" /\ began[w] = d) \/ (turn[w] # "idle" /\ d = day)}

\* The inductive form: the room left holds a call of each who may still book.
Room ==
  \A d \in Calendar :
    spent[d] + MaxCost * Cardinality(Booking(d)) < Limit + MaxCost * Cardinality(Callers)

\* Nothing is booked ahead.
NotAhead == \A w \in Callers : began[w] <= day
FutureIsFree == \A d \in Calendar : d > day => spent[d] = 0

IInv == CapTypes /\ NotAhead /\ FutureIsFree /\ Room
=============================================================================
