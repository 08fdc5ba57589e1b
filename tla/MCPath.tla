------------------------------- MODULE MCPath -------------------------------
(***************************************************************************)
(* Instances of Path for TLC.                                              *)
(***************************************************************************)
EXTENDS Path, TLC

BaseConf ==
    [source |-> "publisher", sourceOnDemand |-> FALSE, runOnDemand |-> FALSE,
     regexp |-> FALSE, overridePublisher |-> TRUE, record |-> FALSE, maxReaders |-> 0]

MCConfs ==
    {[BaseConf EXCEPT !.regexp = TRUE],
     [BaseConf EXCEPT !.overridePublisher = FALSE, !.maxReaders = 1],
     [BaseConf EXCEPT !.runOnDemand = TRUE],
     [BaseConf EXCEPT !.runOnDemand = TRUE, !.regexp = TRUE, !.record = TRUE, !.maxReaders = 1],
     [BaseConf EXCEPT !.source = "redirect"],
     [BaseConf EXCEPT !.source = "static", !.maxReaders = 1],
     [BaseConf EXCEPT !.source = "static", !.sourceOnDemand = TRUE],
     [BaseConf EXCEPT !.source = "static", !.sourceOnDemand = TRUE, !.regexp = TRUE, !.maxReaders = 1],
     [BaseConf EXCEPT !.source = "srt", !.sourceOnDemand = TRUE]}

OnDemandConfs ==
    {[BaseConf EXCEPT !.runOnDemand = TRUE],
     [BaseConf EXCEPT !.runOnDemand = TRUE, !.regexp = TRUE],
     [BaseConf EXCEPT !.source = "static", !.sourceOnDemand = TRUE, !.maxReaders = 1]}

RunOnDemandConfs == {[BaseConf EXCEPT !.runOnDemand = TRUE]}

ReportingConfs == {c \in MCConfs : c.source # "srt"}

Symmetry == Permutations(Readers) \cup Permutations(Publishers)
=============================================================================
