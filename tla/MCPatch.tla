------------------------------ MODULE MCPatch ------------------------------
(* Instances of Patch: a generator, a filter, and a mixer with one input.  *)
EXTENDS Patch

CONSTANTS output, mixer, osc, filter

MCNodes   == {output, mixer, osc, filter}
MCInCount == (output :> 1) @@ (mixer :> 1) @@ (osc :> 0) @@ (filter :> 1)

\* The entries of PATCHER_TABLE for these types of nodes.
MCTable == [e \in MCNodes \X MCNodes |->
    CASE e = <<mixer, output>> -> 1
      [] e = <<mixer, filter>> -> 1
      [] e = <<osc, mixer>>    -> 0
      [] e = <<osc, filter>>   -> 1
      [] e = <<filter, mixer>> -> 0
      [] OTHER                 -> NoLink]

MCPlaces == (osc :> {1, 3}) @@ (filter :> {2})
=============================================================================
