---------------------------- MODULE MCDeviceTree ----------------------------
\* A node with a unit address, the name it is a prefix match for, and a third.
EXTENDS DeviceTree

MCNames == {<<"memory", "">>, <<"memory", "1">>, <<"soc", "">>}
=============================================================================
