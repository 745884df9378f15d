---------------------------- MODULE MCRESTServer ----------------------------
(* Two clients and a request of each kind that can be told from the others  *)
(* over two keys, for TLC.                                                 *)
EXTENDS RESTServer

CONSTANTS k1, k2, v1, v2

TheKeys == {k1, k2}

SomeRequests ==
  {[method |-> "PUT", body |-> [k \in TheKeys |-> v1]],
   [method |-> "PUT", body |-> [k \in TheKeys |-> IF k = k1 THEN NotString ELSE v2]],
   [method |-> "PUT", body |-> [k \in {k2} |-> v1]],
   [method |-> "POST", body |-> TheKeys],
   [method |-> "POST", body |-> {k1}],
   [method |-> "DEL", body |-> TheKeys],
   [method |-> "DEL", body |-> {k1}],
   [method |-> "PUT", bad |-> "wrong type"],
   [method |-> "POST", bad |-> "malformed"],
   [method |-> "DEL", bad |-> "null"],
   [method |-> "GET"],
   [method |-> "HEAD"]}
=============================================================================
