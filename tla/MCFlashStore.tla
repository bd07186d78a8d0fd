---------------------------- MODULE MCFlashStore ----------------------------
(* One daemon and one license-processor; a file of the slots, which both    *)
(* mount, and one of the secbox, which only the daemon mounts.              *)
EXTENDS FlashStore

MCHome == [license |-> "slots", devName |-> "secbox"]
=============================================================================
