------------------------------ MODULE MCDelivery ------------------------------
\* Two Codex hosts, an OpenClaw host and a Hermes host, with the calls that may
\* overlap in one of them or in two.
EXTENDS Delivery

MCHostOf == [c \in Calls |->
  CASE c \in {"take1", "take2", "hook1"} -> "codex1"
    [] c \in {"take3", "hook3"} -> "codex2"
    [] c \in {"build1", "build2"} -> "openclaw"
    [] c \in {"llm1", "llm2"} -> "hermes"]
MCParties ==
  {{"take1", "take2", "hook1"}, {"take1", "hook1", "take3"}, {"hook1", "hook3"},
   {"build1", "build2"}, {"llm1", "llm2"}}

=============================================================================
