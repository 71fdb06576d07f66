----------------------------- MODULE MCApplication -----------------------------
(* A small instance of Application: one order, started twice, with a           *)
(* passphrase forced or not.                                                  *)
EXTENDS Application

CONSTANTS own, other, s1

MCEntries == << [coin |-> "RICK", mm2 |-> 1], [coin |-> "MORTY", mm2 |-> 1],
                [coin |-> "KMD", mm2 |-> 1] >>
MCElectrums == [RICK |-> << [url |-> "u"] >>, KMD |-> << [url |-> "u", protocol |-> "SSL"] >>]

MCUserConfig ==
    [cex_infos_registry |-> <<>>, http_port |-> 7777,
     price_infos_registry |-> [coinpaprika |-> [price_endpoint |-> "e"]]]
===============================================================================
