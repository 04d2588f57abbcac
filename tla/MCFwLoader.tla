----------------------------- MODULE MCFwLoader -----------------------------
EXTENDS FwLoader

CONSTANTS d1, firmware, libFirmware, ddFirmware

\* The file is not in the first directory of the path but in the second, and a
\* driver disk brings another copy.
MCFwAt == [d \in {d1} |-> [k \in {firmware, libFirmware, ddFirmware} |->
             IF k = firmware THEN "missing" ELSE "ok"]]
MCInitPath == <<firmware, libFirmware>>
MCAddLists == {<<ddFirmware>>}
=============================================================================
