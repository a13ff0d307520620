-------------------------------- MODULE MCTx --------------------------------
(* Three senders (a command, a receive handler and a timer, say), and one      *)
(* soc_tx_packet_t for each, so that two packets can wait behind the one in    *)
(* DMA.                                                                        *)
EXTENDS Tx
=============================================================================
