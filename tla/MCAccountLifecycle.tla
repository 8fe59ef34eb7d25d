-------------------------- MODULE MCAccountLifecycle --------------------------
EXTENDS AccountLifecycle

Kit(sagas, faults, requests) == [sagas |-> sagas, faults |-> faults, requests |-> requests]

MCKits == {
  Kit({"deploy", "map"},              {"call", "reply", "commit"},          2),
  Kit({"deploy", "map", "delete"},    {"commit"},                           3),
  Kit({"map", "delete"},              {"call"},                             3),
  Kit({"deploy", "sweep", "delete"},  {"call", "crash"},                    2),
  Kit({"recreate", "clean", "make"},  {"call", "reply", "commit", "crash"}, 2),
  Kit({"recreate", "clean", "delete"}, {"reply", "commit"},                 3)}

\* An edit of the mapping beside a recreation, with nothing that fails.
OrphanKits == {Kit({"recreate", "map"}, {}, 2)}
===============================================================================
