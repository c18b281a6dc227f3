------------------------------ MODULE MCRelay ------------------------------
(***************************************************************************)
(* Small instances of Relay: a good episode of two writes and a prose      *)
(* episode of two chunks whose second chunk the embedding server rejects.  *)
(***************************************************************************)
EXTENDS Relay

MCEpisodes == {"good", "rejected"}
MCUnits == [e \in MCEpisodes |-> 2]
MCDefect == [good |-> None, rejected |-> "EmbedRequestError"]
MCDefectAt == [good |-> 0, rejected |-> 1]

\* An empty prose body (nothing to write), a payload pydantic refuses and one that
\* supersedes itself.
BadEpisodes == {"empty", "invalid", "selfsup"}
BadUnits == [empty |-> 0, invalid |-> 1, selfsup |-> 1]
BadDefect ==
  [empty |-> None, invalid |-> "ValidationError", selfsup |-> "SupersessionValidationError"]
BadDefectAt == [e \in BadEpisodes |-> 0]
=============================================================================
