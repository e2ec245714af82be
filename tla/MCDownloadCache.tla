--------------------------- MODULE MCDownloadCache ---------------------------
(* Instances of DownloadCache for TLC.                                     *)
EXTENDS DownloadCache

CONSTANTS p1, p2, p3, p4

MCProcs   == {p1, p2, p3, p4}
One(l)    == [p \in MCProcs |-> IF p = p1 THEN l ELSE Nothing]
TwoGentoo == [p \in MCProcs |-> IF p \in {p1, p2} THEN GentooPipeline ELSE Nothing]
AllDistros == [p \in MCProcs |-> CASE p = p1 -> GentooPipeline [] p = p2 -> AlpinePipeline
                                   [] p = p3 -> ArchPipeline   [] p = p4 -> VoidPipeline]

(* Two processes with the same files and all faults; one process per       *)
(* distribution side by side; each of them alone, retried often.           *)
MCWorkloads ==
  {[pipeline |-> TwoGentoo, attempts |-> 2, faults |-> {"network", "kill"}],
   [pipeline |-> AllDistros, attempts |-> 2, faults |-> {}],
   [pipeline |-> One(GentooPipeline), attempts |-> 5, faults |-> {"network", "kill"}]}
  \cup [pipeline: {One(l) : l \in Pipelines}, attempts: {5}, faults: {{"network"}}]

(* One process that is retried, and a network that may fail.               *)
RetryWorkloads == {[pipeline |-> One(GentooPipeline), attempts |-> 5, faults |-> {"network"}]}
=============================================================================
