---------------------------- MODULE MCAgentLoop ----------------------------
(***************************************************************************)
(* Instance of AgentLoop for TLC: the tools bash (no preview) and           *)
(* write_file (preview), the safe read_file and a name no tool has.  The    *)
(* commands of bash have every fate: allowed (by the allow list only),      *)
(* both (matched by both lists) and empty (prompted for, although a pattern *)
(* of the deny list matches the empty string).                              *)
(***************************************************************************)
EXTENDS AgentLoop

CONSTANTS bash, write_file, read_file, nope,
          plain, allowed, both, empty

MCTools == {bash, write_file, read_file}
MCMutating == {bash, write_file}
MCPreview == {write_file}
MCNames == MCTools \union {nope}
MCArgs == {plain, allowed, both, empty}
MCDeny == {both, empty}
MCAllow == {allowed, both}

Shape(n, a) == [name |-> n, arg |-> a]

MCShapes ==
  {Shape(bash, a) : a \in {allowed, both, empty}}
    \union {Shape(n, plain) : n \in {write_file, read_file, nope}}

=============================================================================
