------------------------------ MODULE MCUsbStorage ------------------------------
EXTENDS UsbStorage

Fresh == spoil = {}
=============================================================================
