-------------------------- MODULE MCDeviceScheduler --------------------------
EXTENDS DeviceScheduler
CONSTANTS a, b, c, g
==============================================================================
