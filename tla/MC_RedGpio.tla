------------------------------ MODULE MC_RedGpio ------------------------------
EXTENDS RedGpio

\* Port G pins 8 and 15, which share config register 1 and pull register 0,
\* and pin 31: 15 and 31 hold the top fields (config bits 28..31, pull bits
\* 30..31, data bit 31), whose mask shifts overflow an int.
MCPins == {<<6, 8>>, <<6, 15>>, <<6, 31>>}
=============================================================================
