------------------------ MODULE MCControlReliability ------------------------
\* The instance of ControlReliability that TLC checks.
EXTENDS ControlReliability

Script == <<"ControlV1", "SoftResetV1", "ControlV1">>

=============================================================================
