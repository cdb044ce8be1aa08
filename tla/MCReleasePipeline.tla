--------------------------- MODULE MCReleasePipeline ---------------------------
(* A catalog of one case, its principle, a lab for each and an adapter: five *)
(* cells. The case names its principle by an alias of an alias.              *)
EXTENDS ReleasePipeline

MCNames == <<"", "ad", "assert-a", "base", "bind-c", "bind-p", "claim-c", "claim-m", "claim-p", "lab-p", "lab-s",
             "more", "other", "run-c", "run-p", "vary", "adapter", "baseline", "variant">>
MCRank == [s \in {MCNames[i] : i \in DOMAIN MCNames} |-> CHOOSE i \in DOMAIN MCNames : MCNames[i] = s]

MCCase ==
  [status |-> "complete", form |-> "good", required |-> TRUE, family |-> "family", secondary |-> {},
   principles |-> {"older"}, claims |-> {"claim-c"}, labs |-> {"lab-s"},
   needs |-> {[claim |-> "claim-c", lab |-> "lab-s"]}, sources |-> {"source"}]

MCPrinciple ==
  [status |-> "complete", form |-> "good", required |-> FALSE, claims |-> {"claim-p"}, labs |-> {"lab-p"},
   needs |-> {[claim |-> "claim-p", lab |-> "lab-p"]}, sources |-> {"source"}]

MCLab(kind, binding, run) ==
  [status |-> "complete", form |-> "good", kind |-> kind, required |-> FALSE, impls |-> {"base", "vary"},
   bindings |-> <<binding>>, runs |-> <<run>>, sources |-> {"source"}]

MCBinding(id, kind, owner, claim) ==
  [id |-> id, kind |-> kind, owner |-> owner, claim |-> claim, workload |-> "workload", asserts |-> <<"assert-a">>]

MCRun(id, binding, adapters) ==
  [id |-> id, binding |-> binding, baseline |-> "base", variants |-> <<"vary">>, workload |-> "workload",
   faults |-> <<>>, adapters |-> adapters]

MCCatalog ==
  [families |-> <<"family">>, scope |-> <<[id |-> "case", family |-> "family"]>>,
   exclusions |-> {[id |-> "gone", canonical |-> "case"]},
   sources |-> [s \in {"source"} |-> "direct"],
   aliases |-> <<[kind |-> "principle", from |-> "older", to |-> "old"],
                 [kind |-> "principle", from |-> "old", to |-> "principle"]>>,
   cases |-> [id \in {"case"} |-> MCCase], principles |-> [id \in {"principle"} |-> MCPrinciple],
   labs |-> [id \in {"lab-s", "lab-p"} |->
     IF id = "lab-s"
     THEN MCLab("scenario", MCBinding("bind-c", "case", "case", "claim-c"),
                MCRun("run-c", "bind-c", <<[id |-> "ad", required |-> TRUE]>>))
     ELSE MCLab("primitive", MCBinding("bind-p", "principle", "principle", "claim-p"), MCRun("run-p", "bind-p", <<>>))],
   adapters |-> [id \in {"ad"} |-> [status |-> "complete", form |-> "good", sources |-> {"source"}]]]

MCPlan == [name : {"plan", "other"}, workload : {"workload"}]

MCExperiment ==
  [key \in {<<"lab-s", "run-c", "bind-c", "claim-c", impl, "">> : impl \in {"base", "vary"}}
           \cup {<<"lab-p", "run-p", "bind-p", "claim-p", impl, "">> : impl \in {"base", "vary"}}
           \cup {<<"lab-s", "run-c", "bind-c", "claim-c", "ad", "ad">>} |->
     [plan |-> [name |-> "plan", workload |-> "workload"], faults |-> <<>>, asserts |-> <<"assert-a">>]]

MCOutcome == {[value |-> -8, said |-> "quiet"], [value |-> 7, said |-> "quiet"], [value |-> 7, said |-> "loud"]}

MCText == STRING

MCId == {"left", "right"} \X (0 .. 5)
=============================================================================
