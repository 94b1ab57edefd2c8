------------------------------ MODULE MCRxStamp ------------------------------
(* Settings of the switches for the runs of RxStamp. *)
EXTENDS RxStamp

MCShipped == [strict : {TRUE}, short_wait : {TRUE}, int_edge_t2 : {TRUE}]

\* As shipped, and with one of the switches turned off.
MCSwitches ==
  {s \in [strict : BOOLEAN, short_wait : BOOLEAN, int_edge_t2 : BOOLEAN] :
     \A p \in MCShipped :
       \A f \in DOMAIN s, g \in DOMAIN s : s[f] # p[f] /\ s[g] # p[g] => f = g}

=============================================================================
