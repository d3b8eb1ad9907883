---------------------------- MODULE RemoteCalls ----------------------------
(***************************************************************************)
(* What offloading promises its clients: a session's calls are executed    *)
(* one at a time, each at most once and in the order they were made, and a *)
(* call returns the output of its own execution, or nothing when the       *)
(* service has stopped.  A call need not return.                           *)
(***************************************************************************)
EXTENDS Naturals, Sequences

CONSTANT Sessions

VARIABLES calls,    \* calls[s]: how many calls session s has made
          ran,      \* the calls executed so far, in order
          returned, \* returned[s]: what the calls of s returned
          stopped   \* the service executes no more calls

vars == <<calls, ran, returned, stopped>>

Nothing == <<>>

Init ==
  /\ calls = [s \in Sessions |-> 0]
  /\ ran = <<>>
  /\ returned = [s \in Sessions |-> <<>>]
  /\ stopped = FALSE

\* A session makes its next call when the last one has returned.
Call(s) ==
  /\ calls[s] = Len(returned[s])
  /\ calls' = [calls EXCEPT ![s] = @ + 1]
  /\ UNCHANGED <<ran, returned, stopped>>

Executed(s) == \E i \in 1..Len(ran) : ran[i] = <<s, calls[s]>>

Execute(s) ==
  /\ ~stopped
  /\ Len(returned[s]) < calls[s]
  /\ ~Executed(s)
  /\ ran' = Append(ran, <<s, calls[s]>>)
  /\ UNCHANGED <<calls, returned, stopped>>

Return(s) ==
  /\ Len(returned[s]) < calls[s]
  /\ \E value \in {<<s, calls[s]>>, Nothing} :
       /\ value = Nothing => stopped
       /\ value # Nothing => Executed(s)
       /\ returned' = [returned EXCEPT ![s] = Append(@, value)]
  /\ UNCHANGED <<calls, ran, stopped>>

Stop == stopped' = TRUE /\ UNCHANGED <<calls, ran, returned>>

Next == Stop \/ \E s \in Sessions : Call(s) \/ Execute(s) \/ Return(s)

Spec == Init /\ [][Next]_vars
=============================================================================
