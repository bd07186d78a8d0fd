------------------------------ MODULE OneShot ------------------------------
(* What KSTimer promises: it holds one request at a time. A request is      *)
(* refused only while another one is held, and a request that was accepted  *)
(* is run exactly once before the next can be accepted.                     *)
CONSTANTS Request, NoRequest

VARIABLES
  current,   \* the request held, or NoRequest
  status     \* what became of each request

oneShotVars == <<current, status>>

Status == {"new", "asked", "accepted", "refused", "ran"}

OneShotInit == current = NoRequest /\ status = [r \in Request |-> "new"]

Ask(r) == /\ status[r] = "new"
          /\ status' = [status EXCEPT ![r] = "asked"]
          /\ UNCHANGED current

Accept(r) == /\ status[r] = "asked"
             /\ current = NoRequest
             /\ current' = r
             /\ status' = [status EXCEPT ![r] = "accepted"]

Refuse(r) == /\ status[r] = "asked"
             /\ current # NoRequest
             /\ status' = [status EXCEPT ![r] = "refused"]
             /\ UNCHANGED current

Run(r) == /\ current = r
          /\ status[r] = "accepted"
          /\ status' = [status EXCEPT ![r] = "ran"]
          /\ UNCHANGED current

Done(r) == /\ current = r
           /\ status[r] = "ran"
           /\ current' = NoRequest
           /\ UNCHANGED status

OneShotNext == \E r \in Request : Ask(r) \/ Accept(r) \/ Refuse(r) \/ Run(r) \/ Done(r)

OneShotSpec == OneShotInit /\ [][OneShotNext]_oneShotVars
=============================================================================
