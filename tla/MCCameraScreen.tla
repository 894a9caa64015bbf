--------------------------- MODULE MCCameraScreen ---------------------------
EXTENDS CameraScreen
=============================================================================
