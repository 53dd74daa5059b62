-------------------------------- MODULE Formats --------------------------------
(***************************************************************************)
(* The pure functions of StateLab one call at a time: each action calls    *)
(* one of them on some input, and the state holds the call with its        *)
(* result.  The functions are those of NumberSystems, DatasetRequests,     *)
(* DatasetSpecs, PngFiles and Presentation; what their results promise is  *)
(* stated there.                                                           *)
(***************************************************************************)
EXTENDS DatasetSpecs, PngFiles, Presentation

Init == call = None

Next ==
    /\ call = None
    /\ \/ RunsNext
       \/ \E r \in Requests : ReadsSpec(r)
       \/ StreamsNext
       \/ PngNext
       \/ PicturesNext

Spec == Init /\ [][Next]_call
=============================================================================
