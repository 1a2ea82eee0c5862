--------------------------- MODULE MCEventStream ---------------------------
(* Small instances of EventStream. *)
EXTENDS EventStream

OneRequest == {[id |-> 1, body |-> "a"]}
=============================================================================
