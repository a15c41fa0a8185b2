--------------------------- MODULE MCUsbTransport ----------------------------
EXTENDS UsbTransport

==============================================================================
