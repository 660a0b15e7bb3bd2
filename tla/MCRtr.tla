------------------------------- MODULE MCRtr --------------------------------
(* A cache that restarts once and publishes two changes in each session, of  *)
(* a ROA and a more specific one that authorises nobody (AS 0).              *)
EXTENDS RtrSync

MCSessions == 0 .. 1
MCSerials == 0 .. 2

Roa(p, max, asn) == [prefix |-> p, max_len |-> max, asn |-> asn]
MCRoas == {Roa(<<1>>, 2, 1), Roa(<<1, 0>>, 3, 0)}
MCDatasets == {{}, MCRoas}
MCAllSets == SUBSET MCRoas

Via(asns) == <<[kind |-> "Sequence", asns |-> asns]>>
MCRoutes ==
  [prefix : {<<1>>, <<1, 0>>, <<1, 0, 0>>, <<0>>},
   path   : {Via(<<3, 1>>), Via(<<2>>),
             Via(<<1>>) \o <<[kind |-> "Set", asns |-> <<2, 1>>]>>,
             Via(<<2>>) \o <<[kind |-> "ConfedSequence", asns |-> <<2>>]>>}]
=============================================================================
