--------------------------- MODULE MCLaunchStream ---------------------------
EXTENDS LaunchStream, MCLiveGateway
=============================================================================
