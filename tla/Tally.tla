--------------------------------- MODULE Tally ---------------------------------
(***************************************************************************)
(* What a parallel calculation promises: every simulation is counted       *)
(* exactly once, whoever makes it and in whatever order, and the counts    *)
(* are looked at when none is outstanding.                                 *)
(***************************************************************************)
EXTENDS Integers

CONSTANTS
  Counters,
  Names     \* tell apart the additions that are outstanding

VARIABLES
  phase,       \* "idle", "counting", "counted", "ended" (with nothing counted)
  simulations, \* how many have not begun
  due,         \* additions that simulations which have begun have still to make
  total        \* the counts

Additions == [name : Names, counter : Counters, by : Nat]

Init ==
  /\ phase = "idle" /\ simulations = 0
  /\ due = {}
  /\ total = [c \in Counters |-> 0]

Start ==
  /\ phase = "idle"
  /\ phase' = "counting" /\ simulations' \in Nat
  /\ UNCHANGED <<due, total>>

\* The arguments are refused or ask for nothing, or a simulation cannot be made.
End ==
  /\ phase \in {"idle", "counting"}
  /\ phase' = "ended"
  /\ UNCHANGED <<simulations, due, total>>

Begin ==
  /\ phase = "counting" /\ simulations > 0
  /\ simulations' = simulations - 1
  /\ due \subseteq due' /\ due' \subseteq Additions
  /\ UNCHANGED <<phase, total>>

\* An addition that is outstanding is made: its counter grows by it, and nothing else changes.
Add ==
  /\ phase = "counting"
  /\ \E a \in due : /\ due' = due \ {a}
                    /\ total' = [total EXCEPT ![a.counter] = @ + a.by]
  /\ UNCHANGED <<phase, simulations>>

Finish ==
  /\ phase = "counting" /\ simulations = 0 /\ due = {}
  /\ phase' = "counted"
  /\ UNCHANGED <<simulations, due, total>>

Next == Start \/ End \/ Begin \/ Add \/ Finish

Spec == Init /\ [][Next]_<<phase, simulations, due, total>>
=============================================================================
