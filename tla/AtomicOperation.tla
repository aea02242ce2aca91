---------------------------- MODULE AtomicOperation ----------------------------
(***************************************************************************)
(* What a journaled file operation promises to the lists of the program:   *)
(* seen from the list database it happens in one step or not at all.  An   *)
(* operation is announced, takes effect at most once, and is then either   *)
(* kept or taken back by one undo; an operation that was given up never    *)
(* takes effect.  Crashes, retries and recoveries do not show.             *)
(***************************************************************************)
CONSTANTS
    Operations,
    Views,             \* what the list database can show
    Effect(_, _, _),   \* operation, its plan, view before -> view after
    Reversal(_, _, _)  \* the same for its undo

VARIABLES
    verdict,  \* operation -> how far it is, as a later reader may rely on it
    plan,     \* operation -> what it was announced to do
    view      \* what the list database shows

Verdicts == {"none", "open", "done", "undone", "given up", "unresolved"}

Init ==
    /\ verdict = [o \in Operations |-> "none"]
    /\ view \in Views

Announce(o) ==
    /\ verdict[o] = "none"
    /\ verdict' = [verdict EXCEPT ![o] = "open"]
    /\ \A q \in Operations \ {o} : plan'[q] = plan[q]
    /\ UNCHANGED view

Apply(o) ==
    /\ verdict[o] = "open"
    /\ verdict' = [verdict EXCEPT ![o] = "done"]
    /\ view' = Effect(o, plan[o], view)
    /\ UNCHANGED plan

GiveUp(o) ==
    /\ verdict[o] = "open"
    /\ verdict' = [verdict EXCEPT ![o] = "given up"]
    /\ UNCHANGED <<plan, view>>

(* A person has to decide: nothing more happens by itself. *)
Present(o) ==
    /\ verdict[o] \in {"open", "done"}
    /\ verdict' = [verdict EXCEPT ![o] = "unresolved"]
    /\ UNCHANGED <<plan, view>>

Revert(o) ==
    /\ verdict[o] = "done"
    /\ verdict' = [verdict EXCEPT ![o] = "undone"]
    /\ view' = Reversal(o, plan[o], view)
    /\ UNCHANGED plan

Next ==
    \E o \in Operations : Announce(o) \/ Apply(o) \/ GiveUp(o) \/ Present(o) \/ Revert(o)

Spec == Init /\ [][Next]_<<verdict, plan, view>>
===============================================================================
