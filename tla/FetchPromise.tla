---------------------------- MODULE FetchPromise ----------------------------
(***************************************************************************)
(* What the proxy promises a page about its requests, whatever carries     *)
(* them: a request that was taken gets one answer; the answer is the       *)
(* origin's response to that very request, which the origin did receive,   *)
(* or an error; and the origin receives a request with a body at most      *)
(* once, another one at most twice (tunnel, then local path).  The origin  *)
(* may still receive it after the answer: giving up on the tunnel does not *)
(* recall what was sent.                                                   *)
(***************************************************************************)
EXTENDS Naturals

CONSTANTS Reqs, Bodied

VARIABLES stage,  \* stage[r]: "new", "taken" or "answered"
          answer, \* answer[r]: r (its response), "bad gateway", or "none"
          runs    \* runs[r]: how often the origin received r

Limit(r) == IF r \in Bodied THEN 1 ELSE 2

Init ==
  /\ stage = [r \in Reqs |-> "new"]
  /\ answer = [r \in Reqs |-> "none"]
  /\ runs = [r \in Reqs |-> 0]

Take(r) ==
  /\ stage[r] = "new"
  /\ stage' = [stage EXCEPT ![r] = "taken"]
  /\ UNCHANGED <<answer, runs>>

Perform(r) ==
  /\ stage[r] # "new"
  /\ runs[r] < Limit(r)
  /\ runs' = [runs EXCEPT ![r] = @ + 1]
  /\ UNCHANGED <<stage, answer>>

\* The answer, possibly of an execution that happens with it.
Reply(r) ==
  /\ stage[r] = "taken"
  /\ stage' = [stage EXCEPT ![r] = "answered"]
  /\ \/ UNCHANGED runs
     \/ runs[r] < Limit(r) /\ runs' = [runs EXCEPT ![r] = @ + 1]
  /\ \/ answer' = [answer EXCEPT ![r] = "bad gateway"]
     \/ runs'[r] > 0 /\ answer' = [answer EXCEPT ![r] = r]

Next == \E r \in Reqs : Take(r) \/ Perform(r) \/ Reply(r)

vars == <<stage, answer, runs>>

Spec == Init /\ [][Next]_vars
=============================================================================
