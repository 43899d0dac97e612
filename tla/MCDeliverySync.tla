--------------------------- MODULE MCDeliverySync ---------------------------
(***************************************************************************)
(* Small instances of DeliverySync for TLC.                                *)
(***************************************************************************)
EXTENDS DeliverySync

\* A throttle answered as a 400, an outage whose body speaks of a token, an
\* expired token in Meta's own code, no answer in time, a body of the wrong shape.
MCTrouble ==
    {Reply(400, {}, 17), Reply(503, {"invalid"}, NoCode),
     [Reply(400, {}, 190) EXCEPT !.old = TRUE],
     [Reply(0, {}, NoCode) EXCEPT !.kind = "aborted"],
     [Reply(200, {}, NoCode) EXCEPT !.kind = "shapeless"]}

=============================================================================
