--------------------------- MODULE EventCenterMC ---------------------------
(***************************************************************************)
(* What a comment of the code says of EventCenter that the code does not   *)
(* do.                                                                     *)
(***************************************************************************)
EXTENDS EventCenter

(* EventCenter.cpp:341 says that line 342 marks the event as sent.  Once   *)
(* the bus is done with a marked alert of a label that is not muted, it    *)
(* would have been posted.                                                 *)
MarkedMeansPosted ==
    \A c \in Cameras, t \in Types \ Muted :
        SendRecords[c][t] # Never /\ ~(busPc \in {"forget", "wait"} /\ waiting.cam = c /\ waiting.type = t)
            => Len(posts[c][t]) > 0 /\ posts[c][t][Len(posts[c][t])] = SendRecords[c][t]

=============================================================================
