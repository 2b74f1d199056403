---------------------------- MODULE MCIrInterpreter ----------------------------
(* The workflow of ir/example-workflow.json, and a step its map reads from. *)
EXTENDS IrInterpreter

ExampleDef ==
    [n \in {"amounts", "discountBranch", "lineItems", "combineTotal"} |->
        CASE n = "discountBranch" ->
               [kind |-> "branch", refs |-> {"applyDiscount", "noDiscount"},
                internal |-> {"applyDiscount", "noDiscount"}]
          [] n = "lineItems" ->
               [kind |-> "map", refs |-> {"amounts", "computeLineTotal"},
                internal |-> {"computeLineTotal"}]
          [] n = "combineTotal" ->
               [kind |-> "step", refs |-> {"discountBranch", "lineItems"}, internal |-> {}]
          [] OTHER -> [kind |-> "step", refs |-> {}, internal |-> {}]]
================================================================================
