----------------------------- MODULE RemoteCalls -----------------------------
(***************************************************************************)
(* What OMMClient promises its callers: a request is a remote call.  The   *)
(* OMM executes it at most once, and only then does the call return.       *)
(* Queues, threads, sequence numbers and the byte stream are left out.     *)
(***************************************************************************)
EXTENDS Naturals, Sequences

CONSTANTS Callers, MaxRequests

VARIABLES
  calls,    \* the calls 1 .. calls were made
  call,     \* the call a caller is in, 0 for none
  executed  \* the calls the OMM executed, in order

callVars == <<calls, call, executed>>

Executed(i) == \E j \in 1 .. Len(executed) : executed[j] = i

Init ==
  /\ calls = 0
  /\ call = [c \in Callers |-> 0]
  /\ executed = <<>>

Call(c) ==
  /\ call[c] = 0
  /\ calls < MaxRequests
  /\ calls' = calls + 1
  /\ call' = [call EXCEPT ![c] = calls + 1]
  /\ UNCHANGED executed

Execute(i) ==
  /\ i \in 1 .. calls
  /\ ~Executed(i)
  /\ executed' = Append(executed, i)
  /\ UNCHANGED <<calls, call>>

Return(c) ==
  /\ Executed(call[c])
  /\ call' = [call EXCEPT ![c] = 0]
  /\ UNCHANGED <<calls, executed>>

Next ==
  \/ \E c \in Callers : Call(c) \/ Return(c)
  \/ \E i \in 1 .. calls : Execute(i)

Spec == Init /\ [][Next]_callVars
==============================================================================
