--------------------------- MODULE SourceEpochsProps ---------------------------
(***************************************************************************)
(* What SourceEpochs is checked for.                                       *)
(***************************************************************************)
EXTENDS SourceEpochs

(* All the worker remembers of persons is of the one connection it         *)
(* searched last, and of persons that connection's tracker has numbered:   *)
(* a number never stands for somebody seen before a reconnect, whenever    *)
(* the loss came in between a frame's decoding and its evidence.           *)
MemoryIsOfOneConnection ==
  \A p \in tracks \cup evidence \cup marks : p[2] = seen /\ p[1] < nextId

(* As long as the camera gives frames, frames are searched: the two counts *)
(* of lost connections never drift apart, which would have every later     *)
(* frame thrown away.                                                      *)
FramesAreSearched == []<><<Reads>>_vars => []<><<Commits>>_vars
=============================================================================
