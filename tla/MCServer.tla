-------------------------------- MODULE MCServer --------------------------------
(* Model checking of Server: two requests side by side.                            *)
EXTENDS Server

CONSTANTS w1, w2

TwoWorkers == {w1, w2}

SomeCallers ==
  {[workspaceRole |-> "ADMIN", platformRole |-> "SUPER_ADMIN"],
   [workspaceRole |-> "GUEST", platformRole |-> "USER"]}

\* No route touches both.
BothBeginnings == {[settings |-> "old", onboarding |-> 1], [settings |-> "none", onboarding |-> 0]}

\* Routes that share what they read or write.
SharedState ==
  {AccountWrites \cup {"read accounts"},
   AdminWrites \cup {"read workspace", "update preferences"},
   {"read profile", "update profile", "update onboarding"},
   {"health", "details", "analyze"}}
=================================================================================
