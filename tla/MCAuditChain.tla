---------------------------- MODULE MCAuditChain ----------------------------
(* The writers of the machine's ledger, and those of one run's log.        *)
EXTENDS AuditChain

\* Three runs record to the ledger, the first one twice.
Runs == {"a", "b", "c"}
RunsKind == [w \in Runs |-> "ledger"]
RunsAfter == [w \in Runs |-> {}]
RunsTodo == [w \in Runs |-> IF w = "a" THEN 2 ELSE 1]

\* One run: launched, served by its relay, and at its end recorded as exited
\* by its own task while `lns rm` records its removal.
OneBoot == {"launch", "relay", "exit", "rm"}
OneBootKind == [w \in OneBoot |-> IF w = "relay" THEN "relay" ELSE "host"]
OneBootAfter == [w \in OneBoot |-> IF w = "launch" THEN {} ELSE {"launch"}]
OneBootTodo == [w \in OneBoot |-> 1]

\* One run that is restarted, each step of its life after the one before.
TwoBoots == {"launch", "relay", "exit", "relaunch", "relay2"}
TwoBootsKind == [w \in TwoBoots |-> IF w \in {"relay", "relay2"} THEN "relay" ELSE "host"]
TwoBootsAfter ==
  [w \in TwoBoots |-> CASE w = "launch" -> {}
                        [] w = "relay" -> {"launch"}
                        [] w = "exit" -> {"launch", "relay"}
                        [] w = "relaunch" -> {"exit"}
                        [] w = "relay2" -> {"relaunch"}]
TwoBootsTodo == [w \in TwoBoots |-> 1]
=============================================================================
