------------------------------- MODULE MCTimer -------------------------------
(* Four callbacks for three slots, with intervals of zero, one and two      *)
(* ticks.  Two of them poll, so that walks nest three deep.  Each may       *)
(* remove itself; while one polls, rxtx_task may report that the last       *)
(* packet was sent, and that removes the timer that sends them              *)
(* (ui_tx.c:325).                                                           *)
EXTENDS Timer

MCTimers == {"linkscan", "loopdetect", "txasync", "wdt"}
MCInterval == [f \in MCTimers |->
                  CASE f = "loopdetect" -> 2 [] f = "txasync" -> 0 [] OTHER -> 1]
MCNested == {"linkscan", "loopdetect"}
MCRemoves == { <<f, f>> : f \in MCTimers } \cup { <<f, "txasync">> : f \in MCNested }
=============================================================================
