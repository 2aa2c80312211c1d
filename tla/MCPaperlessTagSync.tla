------------------------ MODULE MCPaperlessTagSync ------------------------
(* Instances of PaperlessTagSync for the model checker. *)
EXTENDS PaperlessTagSync, TLC

\* Safety runs only: no definition names a particular tag.
TagSymmetry == Permutations(Tags)

\* Workers are alike.
WorkerSymmetry == Permutations(Workers)

=============================================================================
