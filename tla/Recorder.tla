------------------------------ MODULE Recorder ------------------------------
(***************************************************************************)
(* What recording promises, without threads, queue or database: a capture  *)
(* is nothing until the program exits, and then, all at once, some of its  *)
(* calls, so chosen that none is missing on which a kept one can depend.   *)
(* Capture implements it.                                                  *)
(***************************************************************************)
EXTENDS Integers

NoId == -1   \* the id of what draws none: code

VARIABLES
    calls,   \* how many calls have been made
    before,  \* the pairs of which one was queued when the other began
    kept,    \* the capture: a call and its id for every record
    stage,   \* of the program: "recording", "ending", "ended"
    sure     \* whether the program ends so that nothing may be missing

vars == <<calls, before, kept, stage, sure>>

Init ==
    /\ calls = 0
    /\ before = {}
    /\ kept = {}
    /\ stage = "recording"
    /\ sure = FALSE

(* A call is made, after some of those that were made already. *)
Call ==
    /\ stage = "recording"
    /\ calls' = calls + 1
    /\ \E earlier \in SUBSET (0 .. calls - 1) : before' = before \cup (earlier \X {calls})
    /\ UNCHANGED <<kept, stage, sure>>

(* The program exits; it may be one that keeps nothing and just ends. *)
Exit ==
    /\ stage = "recording"
    /\ \/ stage' = "ending" /\ sure' \in BOOLEAN
       \/ stage' = "ended" /\ sure' = FALSE
    /\ UNCHANGED <<calls, before, kept>>

Kept(n, records) == \E r \in records : r.call = n

(* One record of a call, no call without those that came before it, and    *)
(* the ids of two of which one came before the other in that order.        *)
Faithful(records) ==
    /\ \A r \in records : r.call \in 0 .. calls - 1
    /\ \A r, s \in records : r.call = s.call => r = s
    /\ \A p \in before : Kept(p[2], records) => Kept(p[1], records)
    /\ \A r, s \in records :
        (<<r.call, s.call>> \in before /\ r.id # NoId /\ s.id # NoId) => r.id < s.id

Commit ==
    /\ stage = "ending"
    /\ kept = {}
    /\ Faithful(kept')
    /\ UNCHANGED <<calls, before, stage, sure>>

End ==
    /\ stage = "ending"
    /\ sure => \A n \in 0 .. calls - 1 : Kept(n, kept)
    /\ stage' = "ended"
    /\ UNCHANGED <<calls, before, kept, sure>>

Next == Call \/ Exit \/ Commit \/ End
Spec == Init /\ [][Next]_vars
=============================================================================
