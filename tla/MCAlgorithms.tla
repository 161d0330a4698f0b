---------------------------- MODULE MCAlgorithms ----------------------------
(***************************************************************************)
(* The functions of Codec and Framing on all their inputs up to a bound,   *)
(* and the lines of CommandLine.  They share nothing, so only one of the   *)
(* inputs grows in a behaviour.                                            *)
(***************************************************************************)
EXTENDS Codec, Framing, CommandLine

Init == InitRaw /\ InitBuf /\ InitLine

Encode == Grow /\ InitBuf /\ InitLine /\ UNCHANGED <<buf, lineVars>>
Parse == GrowBuf /\ InitRaw /\ InitLine /\ UNCHANGED <<raw, lineVars>>
Command == TypeLine /\ InitRaw /\ InitBuf /\ UNCHANGED <<raw, buf>>

Next == Encode \/ Parse \/ Command

Spec == Init /\ [][Next]_<<raw, buf, lineVars>>
=============================================================================
