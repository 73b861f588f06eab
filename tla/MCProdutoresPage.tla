--------------------------- MODULE MCProdutoresPage -------------------------
(***************************************************************************)
(* Instances of ProdutoresPage for TLC: what the API has at the start.     *)
(***************************************************************************)
EXTENDS ProdutoresPage

P1 == CHOOSE p \in ProducerIds : TRUE

(* One producer, without farms; the other ids are unborn.                  *)
OneProducer ==
    [producers |-> [p \in ProducerIds |-> IF p = P1 THEN Alive ELSE Unborn],
     farms |-> [f \in FarmIds |-> Unborn]]

=============================================================================
