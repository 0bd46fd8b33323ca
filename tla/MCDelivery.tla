------------------------------- MODULE MCDelivery -------------------------------
(* Setups of Delivery for TLC. *)
EXTENDS Delivery

\* The protocol engine with each choice of the backend that may make up for a
\* failure of grok2api, and the browser engine.
EitherEngine ==
  { <<"protocol", {"grok", "sub2"}>>, <<"protocol", {"cpa", "grok"}>>,
    <<"browser", {"cpa", "grok"}>> }

OnlySub2 == {<<"protocol", {"sub2"}>>}

Browser == {"browser"} \X {{}, {"cpa"}, {"grok"}, {"sub2"}}

=============================================================================
