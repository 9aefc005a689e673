------------------------------ MODULE MCTelemetry ------------------------------
EXTENDS Telemetry

CONSTANTS p1, p2
================================================================================
