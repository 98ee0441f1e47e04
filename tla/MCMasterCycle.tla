--------------------------- MODULE MCMasterCycle ---------------------------
(***************************************************************************)
(* The master and its children for TLC.                                    *)
(***************************************************************************)
EXTENDS MasterCycle

Scenario(workers, helpers, slots, stuck, commands, signals, crashes, failures) ==
    [workers |-> workers, manager |-> "manager" \in helpers, loader |-> "loader" \in helpers,
     slots |-> slots, stuck |-> stuck, commands |-> commands, signals |-> signals,
     crashes |-> crashes, failures |-> failures]

Operation ==
    { Scenario(2, {}, 5, TRUE, {"HUP", "USR1", "QUIT"}, 2, 1, 0),                 \* reload
      Scenario(2, {}, 4, TRUE, {"TERM", "IO"}, 2, 1, 0),                          \* termination
      Scenario(1, {"manager"}, 6, FALSE, {"HUP", "QUIT"}, 2, 0, 0),               \* shutdown
      Scenario(1, {"manager", "loader"}, 6, FALSE, {"HUP", "QUIT"}, 1, 1, 0),
      Scenario(1, {"manager"}, 3, TRUE, {"TERM", "HUP"}, 1, 1, 1),                \* failures
      Scenario(1, {}, 4, FALSE, {"USR2", "WINCH", "HUP"}, 3, 1, 0),               \* upgrade
      Scenario(1, {}, 5, TRUE, {"USR2", "WINCH", "HUP", "QUIT"}, 4, 0, 0),        \* and way back
      Scenario(1, {}, 5, FALSE, {"USR2", "HUP"}, 2, 0, 1) }                       \* failed upgrade
============================================================================
