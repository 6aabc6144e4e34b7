------------------------------ MODULE MCCluster ------------------------------
(***************************************************************************)
(* One TLC instance of the two ways a cluster decides who may write, the   *)
(* gossip election among followers and the fence of an appointed writer,   *)
(* of the object and blob stores of a node, and of the rules its pack      *)
(* schemas put on records.  They share no state, so a behaviour is one of  *)
(* the four.                                                               *)
(***************************************************************************)
EXTENDS PicowalGossip, PicowalFence, ApiFiles, PicowalValidate

VARIABLE mode    \* which of the four this behaviour is about

MCLoads == {{"GET", "PUT", "POST", "NEW", "DELETE"}, {"BLOBGET", "BLOBPOST", "BLOBDELETE"}}

MCTransitions == {<<1, 2>>}
Body(fk, st, flaw) == [there |-> TRUE, fk |-> fk, st |-> st, flaw |-> flaw]
\* Lookups under schemas with and without "fields", and the rules on a state field.
MCWorkloads ==
    {[schemas |-> {{"joins"}, {"fields", "joins"}},
      bodies |-> {Body(p, 1, "none") : p \in Parents \cup {NoValue}} \cup {Body(NoValue, NoValue, "json")}],
     [schemas |-> {{"fields", "readonly"}, {"fields", "transitions"}},
      bodies |-> {Body(NoValue, s, "none") : s \in States \cup {NoValue}} \cup {Body(NoValue, NoValue, "fields")}]}
\* Without a lookup the parents are beside the point.
ParentsMatter == parents # {} => \E s \in workload.schemas : "joins" \in s

ClusterInit ==
    /\ mode \in {"gossip", "fence", "files", "rules"}
    /\ Init /\ FenceInit /\ FilesInit /\ ValInit
    /\ mode # "files" => "GET" \in load
    /\ mode # "rules" => /\ parents = {} /\ schema = {"joins"}
    /\ ParentsMatter
ClusterNext ==
    \/ mode = "gossip" /\ Next /\ UNCHANGED <<fenceVars, filesVars, valVars, mode>>
    \/ mode = "fence" /\ FenceNext /\ UNCHANGED <<vars, filesVars, valVars, mode>>
    \/ mode = "files" /\ FilesNext /\ UNCHANGED <<vars, fenceVars, valVars, mode>>
    \/ mode = "rules" /\ ValNext /\ ParentsMatter' /\ UNCHANGED <<vars, fenceVars, filesVars, mode>>
ClusterSpec == ClusterInit /\ [][ClusterNext]_<<vars, fenceVars, filesVars, valVars, mode>>
==============================================================================
