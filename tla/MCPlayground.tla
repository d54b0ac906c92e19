---------------------------- MODULE MCPlayground ----------------------------
(* Instances of Playground: a request's name says what it does and to which *)
(* chat.                                                                    *)
EXTENDS Playground

MCKindOf ==
  [q \in Request |->
    CASE q \in {"create1", "create2"} -> "create"
      [] q \in {"rename1"} -> "rename"
      [] OTHER -> "post"]

MCChatOf == [q \in Request |-> IF q \in {"create2", "ask2"} THEN "c2" ELSE "c1"]
=============================================================================
