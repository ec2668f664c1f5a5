------------------------------ MODULE Delivery ------------------------------
(***************************************************************************)
(* What sending a message promises, with no queue, no rows and no steps of *)
(* a process: a message that is not kept for later is open until it is     *)
(* settled, once and for good; the provider is called only while it is     *)
(* open; and what goes wrong is paid for with losses: an acceptance too    *)
(* many, an attempt too many, and a message given up before its attempts   *)
(* were used or although the provider took it.                             *)
(***************************************************************************)
EXTENDS Naturals

CONSTANT Messages

VARIABLES
  allowed,    \* attempts a message has, fixed
  phase,      \* "none", "kept", "open", "sent" or "failed"
  calls,      \* calls of the provider for each message
  accepted,   \* calls that the provider took
  losses      \* what was lost so far: an answer, a statement, a process

vars == <<allowed, phase, calls, accepted, losses>>

Init ==
  /\ allowed \in Nat \ {0}
  /\ phase = [m \in Messages |-> "none"]
  /\ calls = [m \in Messages |-> 0]
  /\ accepted = [m \in Messages |-> 0]
  /\ losses = 0

Accept(m, p) ==
  /\ phase[m] = "none" /\ p \in {"open", "kept"}
  /\ phase' = [phase EXCEPT ![m] = p]
  /\ UNCHANGED <<allowed, calls, accepted, losses>>

\* What the provider took is not sent again, and no more often than allowed,
\* unless something was lost.  The answer may be lost too.
Attempt(m) ==
  /\ phase[m] = "open"
  /\ accepted[m] <= losses
  /\ calls[m] < allowed + losses
  /\ calls' = [calls EXCEPT ![m] = @ + 1]
  /\ \/ UNCHANGED <<accepted, losses>>
     \/ /\ accepted' = [accepted EXCEPT ![m] = @ + 1]
        /\ losses' \in {losses, losses + 1}
  /\ UNCHANGED <<allowed, phase>>

Succeed(m) ==
  /\ phase[m] = "open" /\ accepted[m] > 0
  /\ phase' = [phase EXCEPT ![m] = "sent"]
  /\ UNCHANGED <<allowed, calls, accepted, losses>>

\* A message is not given up while the provider has it, nor before its last
\* attempt, if nothing was lost.
GiveUp(m) ==
  /\ phase[m] = "open" /\ accepted[m] <= losses
  /\ losses = 0 => calls[m] = allowed
  /\ phase' = [phase EXCEPT ![m] = "failed"]
  /\ UNCHANGED <<allowed, calls, accepted, losses>>

\* A loss may settle messages that are open, and no other.
Lose ==
  \E end \in [Messages -> {"open", "sent", "failed"}] :
    /\ \A m \in Messages : /\ end[m] = "sent" => accepted[m] > 0
                           /\ end[m] = "failed" => accepted[m] <= losses + 1
    /\ phase' = [m \in Messages |-> IF phase[m] = "open" THEN end[m]
                                                        ELSE phase[m]]
    /\ losses' = losses + 1
    /\ UNCHANGED <<allowed, calls, accepted>>

Next ==
  \/ \E m \in Messages, p \in {"open", "kept"} : Accept(m, p)
  \/ \E m \in Messages : Attempt(m) \/ Succeed(m) \/ GiveUp(m)
  \/ Lose

Spec == Init /\ [][Next]_vars
=============================================================================
