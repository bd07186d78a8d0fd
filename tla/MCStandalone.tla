---------------------------- MODULE MCStandalone ----------------------------
(* The parts that do not interact with one another, each on an instance of  *)
(* its own: a behaviour is one of one part, and the others keep their first *)
(* states. So each property is checked of every behaviour of its part.      *)
EXTENDS EventGroup, FirmwareVerifier, FirmwareUpdate, FileIo, LicenseTool

VARIABLE part

saVars == <<part, evVars, fvVars, fuVars, ioVars, ltVars>>

\* Three ways to wait: for all bits, not longer than a time; for any, without
\* taking it away; for one.
MCWait ==
  {[bits |-> EvBit, all |-> TRUE, clear |-> TRUE, timed |-> TRUE],
   [bits |-> EvBit, all |-> FALSE, clear |-> FALSE, timed |-> FALSE],
   [bits |-> {CHOOSE b \in EvBit : TRUE}, all |-> TRUE, clear |-> TRUE, timed |-> FALSE]}

MCFirst == {[id |-> 1, device |-> "this", verifies |-> v, parses |-> TRUE] : v \in BOOLEAN}
MCLicense ==
  MCFirst \cup {[id |-> 2, device |-> "this", verifies |-> TRUE, parses |-> TRUE],
                [id |-> 3, device |-> "other", verifies |-> TRUE, parses |-> TRUE],
                [id |-> 4, device |-> "this", verifies |-> TRUE, parses |-> FALSE]}

SaInit ==
  /\ part \in {"event", "verifier", "update", "file", "license"}
  /\ EvInit /\ FvInit /\ FuInit /\ IoInit /\ LtInit
  /\ part = "license" \/ ltDevice.verifies
  /\ part = "file" \/ \A f \in IoFile : ioFile[f] = Missing

SaNext ==
  /\ UNCHANGED part
  /\ \/ part = "event" /\ EvNext /\ UNCHANGED <<fvVars, fuVars, ioVars, ltVars>>
     \/ part = "verifier" /\ FvNext /\ UNCHANGED <<evVars, fuVars, ioVars, ltVars>>
     \/ part = "update" /\ FuNext /\ UNCHANGED <<evVars, fvVars, ioVars, ltVars>>
     \/ part = "file" /\ IoNext /\ UNCHANGED <<evVars, fvVars, fuVars, ltVars>>
     \/ part = "license" /\ LtNext /\ UNCHANGED <<evVars, fvVars, fuVars, ioVars>>

\* EvFairness is about actions that the other parts never enable.
SaSpec == SaInit /\ [][SaNext]_saVars /\ EvFairness

\* The variables of all parts keep their types.
StandaloneTypeOK == EvTypeOK /\ FvTypeOK /\ FuTypeOK /\ IoTypeOK /\ LtTypeOK
=============================================================================
