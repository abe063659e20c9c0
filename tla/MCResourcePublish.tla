------------------------- MODULE MCResourcePublish -------------------------
(* Two resources, one of them possibly with a tolerance of one unit.        *)
EXTENDS ResourcePublish

MCDefinitions == <<[amount |-> 1, capacity |-> 2, tolerance |-> 0],
                   [amount |-> 1, capacity |-> 2, tolerance |-> 1]>>
MCLeaseKinds == <<"Uint32Array", "Float64Array", "Float64Array">>
=============================================================================
