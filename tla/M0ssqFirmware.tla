---------------------------- MODULE M0ssqFirmware ----------------------------
(***************************************************************************)
(* The life of the combined LED and linkscan firmware on Cortex-M0 core 0, *)
(* which two drivers share: driver/led/hmi/cmicx_led.c and                 *)
(* driver/lm/hmi/cmicx/cmicx_fw_linkscan.c start, use and release it       *)
(* through driver/m0ssq/hmi/cmicx_m0ssq_fw.c and own one mailbox each      *)
(* (m0ssq_mbox_alloc).  All of it is called from the main loop, one call   *)
(* after the other; every call that touches the chip may fail, and the     *)
(* handlers then return at once with what they did so far.                 *)
(***************************************************************************)
EXTENDS Integers

VARIABLES
    usage,          \* cmicx_linkscan_led_fw_usage[unit][0], as a set
    running,        \* the core runs (M0SSQ_UC_START_SET)
    fwLed,          \* external: the LED enable of the image that is loaded
    inuse,          \* mbox[id].inuse
    ledDev,         \* cmicx_led_devs[unit]: NULL, allocated, freed
    ledEnable,      \* cmicx_led_dev->enable
    lost,           \* history: the last LED_MSG_ENABLE was not answered, or the
                    \* driver failed to stop the core and gave the image up
    fwInit,         \* lm_fw_drv.fw_init
    attached,       \* linkscan's receive handler and interrupt are installed
    uc_swintr_enable \* for core 0

firmwareVars == <<usage, running, fwLed, inuse, ledDev, ledEnable, lost, fwInit, attached,
                  uc_swintr_enable>>

Features == {"LED", "LINKSCAN"}
Mboxes   == {"led", "linkscan"}
NoMessage == 2

FirmwareInit ==
    /\ usage = {} /\ running = FALSE /\ fwLed = 0
    /\ inuse = {} /\ ledDev = "null" /\ ledEnable = 0 /\ lost = FALSE
    /\ fwInit = FALSE /\ attached = FALSE /\ uc_swintr_enable = FALSE

-----------------------------------------------------------------------------
\* Mutant of FwInit: the bit is set although the firmware could not be started.
FwInitMarkAlways(ok, f, led) ==
    /\ usage' = usage \cup {f}
    /\ IF usage # {} THEN ok /\ UNCHANGED running
       ELSE IF ok THEN running' = TRUE ELSE running' \in {running, FALSE}
    /\ fwLed' = IF led # NoMessage THEN led ELSE IF usage = {} /\ ok THEN 0 ELSE fwLed

\* cmicx_m0ssq_fw_led_linkscan_init, and the bit its caller sets when it
\* succeeds.  A failure is one of m0ssq_uc_stop, m0ssq_uc_fw_load and
\* m0ssq_uc_start: the core is as it was, or stopped.  An image that is started
\* has the LEDs off, until it executes a LED_MSG_ENABLE: led is the one that
\* the caller sends next.
FwInit(ok, f, led) ==
    /\ IF usage # {}
       THEN ok /\ usage' = usage \cup {f} /\ UNCHANGED running
       ELSE IF ok
            THEN running' = TRUE /\ usage' = usage \cup {f}
            ELSE running' \in {running, FALSE} /\ UNCHANGED usage
    /\ fwLed' = IF led # NoMessage THEN led ELSE IF usage = {} /\ ok THEN 0 ELSE fwLed

\* cmicx_m0ssq_fw_linkscan_init marks FW_USED_BY_LED.
LinkscanMark == "LED"

\* cmicx_m0ssq_fw_led_cleanup, with cmicx_m0ssq_fw_led_linkscan_cleanup
FwCleanup(ok, f) ==
    /\ usage' = usage \ {f}
    /\ IF usage' = {} THEN running' = IF ok THEN FALSE ELSE running
                      ELSE ok /\ UNCHANGED running
    /\ UNCHANGED fwLed

-----------------------------------------------------------------------------
\* How far a handler comes before a call fails.
Stages == {"fw", "alloc", "config", "done"}

\* cmicx_led_init.  A mailbox that is in use ends it at once; the mailbox is
\* never given back, neither on an error nor by cmicx_led_cleanup.
LedInit(stage) ==
    /\ "led" \notin inuse
    /\ inuse' = inuse \cup {"led"}
    /\ FwInit(stage # "fw", "LED", NoMessage)
    /\ IF stage \in {"fw", "alloc"}
       THEN UNCHANGED <<ledDev, ledEnable>>
       ELSE ledDev' = "allocated" /\ ledEnable' = 0
    /\ UNCHANGED <<lost, fwInit, attached, uc_swintr_enable>>

\* cmicx_led_fw_start_set: make sure the firmware runs, send LED_MSG_ENABLE;
\* the state is stored when the message was answered with success.  An image
\* may execute a message whose answer comes too late.
LedStartSet(start, fwOk, executed, answered) ==
    LET startb == IF start # 0 THEN 1 ELSE 0 IN
    /\ ledDev = "allocated"
    /\ FwInit(fwOk, "LED", IF executed THEN startb ELSE NoMessage)
    /\ executed => fwOk /\ running'
    /\ answered => executed
    /\ ledEnable' = IF answered THEN startb ELSE ledEnable
    /\ lost' = IF fwOk THEN ~answered ELSE lost
    /\ UNCHANGED <<inuse, ledDev, fwInit, attached, uc_swintr_enable>>

\* cmicx_led_cleanup; the driver data is freed and its pointer kept, so that
\* no other LED operation may follow.
LedCleanup(ok) ==
    /\ ledDev = "allocated"
    /\ FwCleanup(ok, "LED")
    /\ ledDev' = IF ok THEN "freed" ELSE ledDev
    /\ lost' = (lost \/ ~ok)
    /\ UNCHANGED <<inuse, ledEnable, fwInit, attached, uc_swintr_enable>>

-----------------------------------------------------------------------------
\* cmicx_fw_linkscan_init: the mailbox, the shared memory ("config"), the
\* firmware, the handler.  With fw_init set it returns at once.
LinkscanInit(stage) ==
    /\ ~fwInit /\ "linkscan" \notin inuse
    /\ inuse' = inuse \cup {"linkscan"}
    /\ IF stage = "config" THEN UNCHANGED <<usage, running, fwLed>>
                           ELSE FwInit(stage # "fw", LinkscanMark, NoMessage)
    /\ fwInit' = (stage = "done") /\ attached' = (attached \/ stage = "done")
    /\ UNCHANGED <<ledDev, ledEnable, lost, uc_swintr_enable>>

\* cmicx_fw_linkscan_start and _stop: the interrupt is switched first,
\* whatever becomes of the message.
LinkscanSwitch(enable) ==
    /\ fwInit
    /\ uc_swintr_enable' = enable
    /\ UNCHANGED <<usage, running, fwLed, inuse, ledDev, ledEnable, lost, fwInit, attached>>

\* Mutant of LinkscanCleanup: the interrupt stays enabled.
LinkscanCleanupNoDisable ==
    /\ fwInit
    /\ fwInit' = FALSE /\ inuse' = inuse \ {"linkscan"}
    /\ UNCHANGED <<usage, running, fwLed, ledDev, ledEnable, lost, attached, uc_swintr_enable>>

\* Mutant of LinkscanCleanup: it releases the bit that its init marked.
LinkscanCleanupRelease ==
    /\ fwInit
    /\ \E ok \in BOOLEAN : FwCleanup(ok, LinkscanMark)
    /\ fwInit' = FALSE /\ inuse' = inuse \ {"linkscan"} /\ uc_swintr_enable' = FALSE
    /\ UNCHANGED <<ledDev, ledEnable, lost, attached>>

\* cmicx_fw_linkscan_cleanup; it does not release the firmware.
LinkscanCleanup ==
    /\ fwInit
    /\ fwInit' = FALSE /\ inuse' = inuse \ {"linkscan"} /\ uc_swintr_enable' = FALSE
    /\ UNCHANGED <<usage, running, fwLed, ledDev, ledEnable, lost, attached>>

FirmwareNext ==
    \/ \E stage \in Stages : LedInit(stage)
    \/ \E start \in 0 .. 2, fwOk, executed, answered \in BOOLEAN :
          LedStartSet(start, fwOk, executed, answered)
    \/ \E ok \in BOOLEAN : LedCleanup(ok)
    \/ \E stage \in {"config", "fw", "done"} : LinkscanInit(stage)
    \/ \E enable \in BOOLEAN : LinkscanSwitch(enable)
    \/ LinkscanCleanup

FirmwareSpec == FirmwareInit /\ [][FirmwareNext]_firmwareVars

-----------------------------------------------------------------------------
FirmwareTypeOK ==
    /\ usage \subseteq Features /\ running \in BOOLEAN /\ fwLed \in {0, 1}
    /\ inuse \subseteq Mboxes
    /\ ledDev \in {"null", "allocated", "freed"} /\ ledEnable \in {0, 1} /\ lost \in BOOLEAN
    /\ fwInit \in BOOLEAN /\ attached \in BOOLEAN /\ uc_swintr_enable \in BOOLEAN

\* Whatever call failed halfway, a feature that is marked in the bitmap finds
\* the firmware running; the next cmicx_m0ssq_fw_*_init relies on it.
MarkedRuns == usage # {} => running

\* cmicx_led_fw_start_get answers from the host's copy of a state that lives in
\* the image: the core runs and the copy is right, however linkscan was
\* initialised and cleaned up since the last LED_MSG_ENABLE was answered.
LedStateKnown ==
    ledDev = "allocated" /\ ~lost => running /\ fwLed = ledEnable

\* Linkscan messages are only sent, and its interrupt is only enabled, between
\* a linkscan init that succeeded completely and the next cleanup.
LinkscanOwnsMbox ==
    /\ fwInit => attached /\ "linkscan" \in inuse
    /\ uc_swintr_enable => fwInit

\* While linkscan uses the firmware, the firmware runs.  The driver's own
\* words: "Bit map to show which feature use cmicx_linkscan_led_fw." and "If no
\* feature use firmware, then stop FW." (cmicx_m0ssq_fw.c:31,71).
LinkscanKeepsFirmware == fwInit => running
=============================================================================
