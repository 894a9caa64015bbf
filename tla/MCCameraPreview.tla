--------------------------- MODULE MCCameraPreview ---------------------------
EXTENDS CameraPreview
=============================================================================
