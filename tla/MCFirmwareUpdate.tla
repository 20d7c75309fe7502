-------------------------- MODULE MCFirmwareUpdate --------------------------
\* Six updates, or starts given up, in any order.
EXTENDS FirmwareUpdate
=============================================================================
