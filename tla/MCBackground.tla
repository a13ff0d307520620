----------------------------- MODULE MCBackground -----------------------------
(* Four tasks for the three slots of a list; the first one polls.           *)
EXTENDS Background

MCTasks == {"rxtx", "timer", "spi", "wdt"}
MCPolling == {"rxtx"}
=============================================================================
