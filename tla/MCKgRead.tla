------------------------------- MODULE MCKgRead -------------------------------
(* Instances of KgRead: a folder with a shard of its own and one of a        *)
(* teammate, next to a folder with a shard of its own.                       *)
EXTENDS KgRead, TLC

CONSTANTS team, solo, mine, mate, other

OwnShard == (team :> mine) @@ (solo :> other)
Names == (team :> <<mate, mine>>) @@ (solo :> <<other>>)
Saves == (team :> 1) @@ (solo :> 0)
Attempts == (team :> 2) @@ (solo :> 0)
==============================================================================
